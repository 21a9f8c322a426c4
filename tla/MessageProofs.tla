---------------------------- MODULE MessageProofs ----------------------------
(***************************************************************************)
(* What is proved of messages on their way: for any outputs, messages,     *)
(* ticks and clock, what the emulator's outputs show agrees with what its  *)
(* programs believe (IInv); and whatever is sent, its reader finds in it   *)
(* what its sender put there. In the order of the module: recursion over   *)
(* numbers; what packing bounds and Unpack reads. For Emulator: what a     *)
(* message installs; which states a program's object goes through (Well)   *)
(* and what it shows in each (PhaseOf); that one tick of each program      *)
(* keeps both (During, Ended), and so do the ticks of all slots in their   *)
(* order; that each action keeps the invariant; the theorems. For          *)
(* MessageExchange: where Pack places the bytes of a field (Sits); that    *)
(* Unpack reads back what sits there; how long each layout is; that both   *)
(* ends list the same fields; what each kind of message holds; the         *)
(* theorems.                                                               *)
(***************************************************************************)
EXTENDS Emulator, MessageExchange, SequenceTheorems, WellFoundedInduction, FiniteSetTheorems, TLAPS
-----------------------------------------------------------------------------
(* Induction and recursive functions over the numbers, for sets.           *)
(* Finite sets are well-founded by inclusion, so the sets 1..n have one    *)
(* that is least.                                                          *)
LEMMA LeastNat ==
  ASSUME NEW T, T \subseteq Nat, T # {} PROVE \E n \in T : \A m \in T : n <= m
<1> DEFINE I == {1 .. n : n \in T}
           R == StrictSubsetOrdering(Nat)
<1>1. I \subseteq FiniteSubsetsOf(Nat)
  <2> SUFFICES ASSUME NEW n \in T PROVE 1 .. n \in FiniteSubsetsOf(Nat) OBVIOUS
  <2>1. n \in Int /\ 1 \in Int OBVIOUS
  <2>2. IsFiniteSet(1 .. n) BY <2>1, FS_Interval
  <2> QED BY <2>2 DEF FiniteSubsetsOf
<1>2. I # {} OBVIOUS
<1>3. IsWellFoundedOn(R, FiniteSubsetsOf(Nat)) BY FS_StrictSubsetOrderingWellFounded
<1>4. \E x \in I : \A y \in I : <<y, x>> \notin R
  <2> HIDE DEF I, R
  <2> QED BY <1>1, <1>2, <1>3, WFMin
<1>5. PICK n \in T : \A m \in T : <<1 .. m, 1 .. n>> \notin R BY <1>4
<1>6. \A m \in T : n <= m
  <2> SUFFICES ASSUME NEW m \in T, m < n PROVE FALSE OBVIOUS
  <2>1. m \in Nat /\ n \in Nat OBVIOUS
  <2>2. n \in 1 .. n /\ n \notin 1 .. m BY <2>1
  <2>3. 1 .. m \subseteq 1 .. n /\ 1 .. m # 1 .. n BY <2>1, <2>2
  <2>4. 1 .. m \in SUBSET Nat /\ 1 .. n \in SUBSET Nat BY <2>1
  <2> QED BY <1>5, <2>3, <2>4 DEF StrictSubsetOrdering
<1> QED BY <1>6

LEMMA Induction ==
  ASSUME NEW S, 0 \in S, \A n \in Nat : n \in S => n + 1 \in S PROVE Nat \subseteq S
<1> DEFINE T == Nat \ S
<1> SUFFICES ASSUME T # {} PROVE FALSE OBVIOUS
<1>1. T \subseteq Nat OBVIOUS
<1>2. PICK n \in T : \A m \in T : n <= m BY <1>1, LeastNat
<1>3. n # 0 /\ n - 1 \in Nat /\ n - 1 \notin T BY <1>2
<1> QED BY <1>3

(* A function of the numbers from a to b may be defined by its value at a  *)
(* and a step from each number to the next.                                *)
Iterates(R, base, step, a, b) == base \in R /\ step \in [Int \X R -> R] /\ a \in Int /\ b \in Int
Recurs(g, base, step, a, b) ==
  \A i \in a .. b : g[i] = IF i = a THEN base ELSE step[<<i, g[i - 1]>>]
LEMMA Recursion ==
  ASSUME NEW R, NEW base, NEW step, NEW a, NEW b, Iterates(R, base, step, a, b)
  PROVE  \E g \in [a .. b -> R] : Recurs(g, base, step, a, b)
<1>0. base \in R /\ step \in [Int \X R -> R] /\ a \in Int /\ b \in Int BY DEF Iterates
<1> USE <1>0
<1> DEFINE Is(n, g) == \A i \in a .. a + n : g[i] = IF i = a THEN base ELSE step[<<i, g[i - 1]>>]
           S == {n \in Nat : \E g \in [a .. a + n -> R] : Is(n, g)}
<1>1. 0 \in S
  <2>1. Is(0, [i \in a .. a + 0 |-> base]) OBVIOUS
  <2> QED BY <2>1
<1>2. ASSUME NEW n \in Nat, n \in S PROVE n + 1 \in S
  <2>1. PICK g \in [a .. a + n -> R] : Is(n, g) BY <1>2
  <2> DEFINE e == step[<<a + n + 1, g[a + n]>>]
             h == [i \in a .. a + (n + 1) |-> IF i = a + n + 1 THEN e ELSE g[i]]
  <2>2. e \in R
    <3>1. a + n \in a .. a + n /\ a + n + 1 \in Int OBVIOUS
    <3>2. g[a + n] \in R BY <3>1
    <3> QED BY <3>1, <3>2
  <2>3. h \in [a .. a + (n + 1) -> R] BY <2>2
  <2>4. ASSUME NEW i \in a .. a + (n + 1) PROVE h[i] = IF i = a THEN base ELSE step[<<i, h[i - 1]>>]
    <3> HIDE DEF e
    <3>1. CASE i = a + n + 1
      <4>1. h[i] = e /\ i # a /\ i - 1 = a + n BY <3>1
      <4>2. h[i - 1] = g[a + n] BY <4>1
      <4> QED BY <3>1, <4>1, <4>2 DEF e
    <3>2. CASE i # a + n + 1
      <4>1. i \in a .. a + n /\ h[i] = g[i] BY <3>2
      <4>2. g[i] = IF i = a THEN base ELSE step[<<i, g[i - 1]>>] BY <2>1, <4>1
      <4>3. i # a => h[i - 1] = g[i - 1] BY <4>1
      <4> QED BY <4>1, <4>2, <4>3
    <3> QED BY <3>1, <3>2
  <2>5. Is(n + 1, h) BY <2>4
  <2> HIDE DEF Is, h
  <2> QED BY <2>3, <2>5
<1>3. Nat \subseteq S
  <2> HIDE DEF S
  <2> QED BY <1>1, <1>2, Induction
<1>4. CASE b >= a
  <2>1. b - a \in Nat /\ a + (b - a) = b BY <1>4
  <2>2. b - a \in S BY <1>3, <2>1
  <2>3. PICK g \in [a .. a + (b - a) -> R] : Is(b - a, g) BY <2>2
  <2> QED BY <2>1, <2>3 DEF Recurs
<1>5. CASE b < a
  <2>1. a .. b = {} BY <1>5
  <2> DEFINE g == [i \in a .. b |-> base]
  <2>2. Recurs(g, base, step, a, b) BY <2>1 DEF Recurs
  <2>3. g \in [a .. b -> R] OBVIOUS
  <2> QED BY <2>2, <2>3
<1> QED BY <1>4, <1>5
-----------------------------------------------------------------------------

(* A list of fields of one to four bytes, no two of one name.              *)
IsLayout(layout) ==
  /\ Len(layout) \in Nat /\ DOMAIN layout = 1 .. Len(layout)
  /\ \A k \in 1 .. Len(layout) : layout[k].width \in 1 .. 4
  /\ \A k, m \in 1 .. Len(layout) : layout[k].name = layout[m].name => k = m

EndsAt(end, layout) ==
  \A k \in 0 .. Len(layout) : end[k] = IF k = 0 THEN 0 ELSE end[k - 1] + layout[k].width

LEMMA EndsRecur ==
  ASSUME NEW layout, IsLayout(layout)
  PROVE  Ends(layout) \in [0 .. Len(layout) -> Nat] /\ EndsAt(Ends(layout), layout)
<1> DEFINE n == Len(layout)
           e(f, i) == IF i = 0 THEN 0 ELSE f[i - 1] + layout[i].width
           Is(f) == f = [i \in 0 .. n |-> e(f, i)]
           end == CHOOSE f : Is(f)
           step == [x \in Int \X Nat |-> IF x[1] \in 1 .. n THEN x[2] + layout[x[1]].width ELSE x[2]]
<1>1. n \in Nat /\ 0 \in Int /\ n \in Int /\ \A k \in 1 .. n : layout[k].width \in Nat BY DEF IsLayout
<1>2. step \in [Int \X Nat -> Nat]
  <2> SUFFICES ASSUME NEW i \in Int, NEW m \in Nat
               PROVE  (IF i \in 1 .. n THEN m + layout[i].width ELSE m) \in Nat
    OBVIOUS
  <2> HIDE DEF n
  <2> QED BY <1>1
<1>3. PICK g \in [0 .. n -> Nat] : Recurs(g, 0, step, 0, n)
  <2>1. Iterates(Nat, 0, step, 0, n) BY <1>1, <1>2 DEF Iterates
  <2> HIDE DEF n, step
  <2> QED BY <2>1, Recursion
<1>4. \A i \in 0 .. n : g[i] = e(g, i)
  <2> SUFFICES ASSUME NEW i \in 0 .. n PROVE g[i] = IF i = 0 THEN 0 ELSE g[i - 1] + layout[i].width
    OBVIOUS
  <2>1. g[i] = IF i = 0 THEN 0 ELSE step[<<i, g[i - 1]>>]
    <3> HIDE DEF step
    <3> QED BY <1>3 DEF Recurs
  <2>2. CASE i = 0
    <3> HIDE DEF step
    <3> QED BY <2>1, <2>2
  <2>3. CASE i # 0
    <3>1. i - 1 \in 0 .. n /\ i \in Int /\ i \in 1 .. n BY <1>1, <2>3
    <3>2. g[i - 1] \in Nat BY <3>1
    <3>3. step[<<i, g[i - 1]>>] = g[i - 1] + layout[i].width BY <3>1, <3>2
    <3> HIDE DEF step
    <3> QED BY <2>1, <2>3, <3>3
  <2> QED BY <2>2, <2>3
<1>5. Is(g)
  <2> HIDE DEF step, e
  <2>2. g = [i \in 0 .. n |-> g[i]] OBVIOUS
  <2> HIDE DEF n
  <2> QED BY <1>4, <2>2
<1>6. Is(end)
  <2> HIDE DEF Is
  <2> QED BY <1>5
<1>7. Ends(layout) = end BY DEF Ends
<1>8. \A i \in 0 .. n : end[i] = e(end, i)
  <2>1. end = [i \in 0 .. n |-> e(end, i)] BY <1>6
  <2> HIDE DEF end, e
  <2> QED BY <2>1
<1>9. \A i \in 0 .. n : end[i] \in Nat
  <2> DEFINE S == {i \in Nat : i <= n => end[i] \in Nat}
  <2> HIDE DEF end
  <2>1. 0 \in S
    <3>1. 0 \in 0 .. n BY <1>1
    <3>2. end[0] = 0 BY <1>8, <3>1
    <3> QED BY <3>2
  <2>2. ASSUME NEW i \in Nat, i \in S PROVE i + 1 \in S
    <3> SUFFICES ASSUME i + 1 <= n PROVE end[i + 1] \in Nat OBVIOUS
    <3>1. i + 1 \in 0 .. n /\ i + 1 \in 1 .. n /\ i + 1 # 0 /\ (i + 1) - 1 = i /\ i <= n BY <1>1
    <3>2. end[i] \in Nat BY <2>2, <3>1
    <3>3. end[i + 1] = end[i] + layout[i + 1].width BY <1>8, <3>1
    <3> HIDE DEF n
    <3>4. layout[i + 1].width \in Nat BY <1>1, <3>1
    <3> QED BY <3>2, <3>3, <3>4
  <2>3. Nat \subseteq S
    <3> HIDE DEF S
    <3> QED BY <2>1, <2>2, Induction
  <2> QED BY <2>3
<1>10. end = [i \in 0 .. n |-> end[i]]
  <2>1. end = [i \in 0 .. n |-> e(end, i)] BY <1>6
  <2> HIDE DEF end, e
  <2> QED BY <2>1
<1>11. end \in [0 .. n -> Nat]
  <2> HIDE DEF end
  <2> QED BY <1>9, <1>10
<1> HIDE DEF end
<1> QED BY <1>7, <1>8, <1>11 DEF EndsAt

(* The fields lie one after another within the layout.                     *)
LEMMA EndsGrow ==
  ASSUME NEW layout, IsLayout(layout), NEW k \in 1 .. Len(layout)
  PROVE  /\ Ends(layout)[k - 1] \in Nat /\ Ends(layout)[k] = Ends(layout)[k - 1] + layout[k].width
         /\ Ends(layout)[k] <= Size(layout)
         /\ \A m \in k .. Len(layout) : Ends(layout)[k] <= Ends(layout)[m]
<1> DEFINE n == Len(layout)
           end == Ends(layout)
<1>0. n \in Nat /\ \A i \in 1 .. n : layout[i].width \in Nat BY DEF IsLayout
<1>1. end \in [0 .. n -> Nat] /\ EndsAt(end, layout) BY EndsRecur
<1> HIDE DEF end
<1>2. ASSUME NEW i \in 1 .. n PROVE end[i - 1] \in Nat /\ end[i] = end[i - 1] + layout[i].width
  <2>1. i \in 0 .. n /\ i - 1 \in 0 .. n /\ i # 0 BY <1>0
  <2> QED BY <1>1, <2>1 DEF EndsAt
<1>3. \A i \in Nat : i <= n - k => end[k] <= end[k + i]
  <2> DEFINE S == {i \in Nat : i <= n - k => end[k] <= end[k + i]}
  <2>0. k \in 0 .. n /\ end[k] \in Nat BY <1>0, <1>1
  <2>1. 0 \in S BY <2>0
  <2>2. ASSUME NEW i \in Nat, i \in S PROVE i + 1 \in S
    <3> SUFFICES ASSUME i + 1 <= n - k PROVE end[k] <= end[k + (i + 1)] OBVIOUS
    <3>0. n \in Nat /\ k \in 1 .. n BY <1>0
    <3> HIDE DEF n
    <3>1. k + (i + 1) \in 1 .. n /\ (k + (i + 1)) - 1 = k + i /\ k + i \in 0 .. n /\ i <= n - k BY <3>0
    <3>2. end[k + (i + 1)] = end[k + i] + layout[k + (i + 1)].width BY <1>2, <3>1
    <3>3. layout[k + (i + 1)].width \in Nat /\ end[k + i] \in Nat BY <1>0, <1>1, <3>1
    <3>4. end[k] <= end[k + i] BY <2>2, <3>1
    <3> QED BY <2>0, <3>2, <3>3, <3>4
  <2>3. Nat \subseteq S
    <3> HIDE DEF S
    <3> QED BY <2>1, <2>2, Induction
  <2> QED BY <2>3
<1>4. n - k \in Nat /\ k + (n - k) = n BY <1>0
<1>5. end[k] <= end[n] BY <1>3, <1>4
<1>6. ASSUME NEW m \in k .. n PROVE end[k] <= end[m]
  <2>1. m - k \in Nat /\ k + (m - k) = m /\ m - k <= n - k BY <1>0
  <2> QED BY <1>3, <2>1
<1> QED BY <1>2, <1>5, <1>6 DEF Size, end

(* A number of one to four bytes fits its width.                           *)
Byte == 0 .. 255
Wide(v, w) == /\ v \in Nat
              /\ w = 1 => v < 256
              /\ w = 2 => v < 256 * 256
              /\ w = 3 => v < 256 * 256 * 256
LEMMA Slice ==
  ASSUME NEW S, NEW s \in Seq(S), NEW m \in Nat \ {0}, NEW n \in 0 .. Len(s)
  PROVE  /\ SubSeq(s, m, n) \in Seq(S)
         /\ Len(SubSeq(s, m, n)) = IF m <= n THEN n - m + 1 ELSE 0
         /\ DOMAIN SubSeq(s, m, n) = 1 .. Len(SubSeq(s, m, n))
         /\ \A i \in 1 .. n - m + 1 : SubSeq(s, m, n)[i] = s[m + i - 1]
<1>1. m \in Int /\ n \in Int /\ \A i \in m .. n : s[i] \in S OBVIOUS
<1>2. /\ SubSeq(s, m, n) \in Seq(S)
      /\ Len(SubSeq(s, m, n)) = IF m <= n THEN n - m + 1 ELSE 0
      /\ \A i \in 1 .. n - m + 1 : SubSeq(s, m, n)[i] = s[m + i - 1]
  BY <1>1, SubSeqProperties
<1> DEFINE t == SubSeq(s, m, n)
<1> HIDE DEF t
<1>3. DOMAIN t = 1 .. Len(t) BY <1>2 DEF t
<1> QED BY <1>2, <1>3 DEF t
Polynomial(v, a, b, c, d) == v = a + 256 * (b + 256 * (c + 256 * d))
Cut(b, c, d, w) == (w < 2 => b = 0) /\ (w < 3 => c = 0) /\ (w < 4 => d = 0)
LEMMA Digits ==
  ASSUME NEW a \in 0 .. 255, NEW b \in 0 .. 255, NEW c \in 0 .. 255, NEW d \in 0 .. 255, NEW w \in 1 .. 4,
         Cut(b, c, d, w), NEW v, Polynomial(v, a, b, c, d)
  PROVE  Wide(v, w)
<1> USE DEF Polynomial
<1>1. v \in Nat OBVIOUS
<1>2. w = 1 => v < 256
  <2> SUFFICES ASSUME w = 1 PROVE v < 256 OBVIOUS
  <2>1. b = 0 /\ c = 0 /\ d = 0 BY DEF Cut
  <2>2. v = a BY <2>1
  <2> QED BY <2>2
<1>3. w = 2 => v < 256 * 256
  <2> SUFFICES ASSUME w = 2 PROVE v < 256 * 256 OBVIOUS
  <2>1. c = 0 /\ d = 0 BY DEF Cut
  <2>2. v = a + 256 * b BY <2>1
  <2> QED BY <2>2, SMT
<1>4. w = 3 => v < 256 * 256 * 256
  <2> SUFFICES ASSUME w = 3 PROVE v < 256 * 256 * 256 OBVIOUS
  <2>1. d = 0 BY DEF Cut
  <2>2. v = a + 256 * b + 65536 * c BY <2>1
  <2> QED BY <2>2, SMT
<1> QED BY <1>1, <1>2, <1>3, <1>4 DEF Wide
LEMMA NumberFits ==
  ASSUME NEW data \in Seq(Byte), NEW a \in Nat, NEW w \in 1 .. 4, a + w <= Len(data)
  PROVE  Wide(Number(SubSeq(data, a + 1, a + w)), w)
<1> DEFINE s == SubSeq(data, a + 1, a + w)
           Digit(i) == IF i \in DOMAIN s THEN s[i] ELSE 0
<1>1. s \in Seq(Byte) /\ DOMAIN s = 1 .. w
  <2>1. a + 1 \in Nat \ {0} /\ a + w \in 0 .. Len(data) OBVIOUS
  <2>2. /\ s \in Seq(Byte) /\ Len(s) = IF a + 1 <= a + w THEN (a + w) - (a + 1) + 1 ELSE 0
        /\ DOMAIN s = 1 .. Len(s)
    BY <2>1, Slice
  <2> HIDE DEF s
  <2> QED BY <2>2
<1>2. \A i \in 1 .. 4 : Digit(i) \in 0 .. 255 /\ (i > w => Digit(i) = 0)
  <2> SUFFICES ASSUME NEW i \in 1 .. 4 PROVE Digit(i) \in 0 .. 255 /\ (i > w => Digit(i) = 0)
    OBVIOUS
  <2> HIDE DEF s
  <2>1. CASE i \in DOMAIN s
    <3>1. s[i] \in Byte BY <1>1, <2>1
    <3> QED BY <1>1, <2>1, <3>1 DEF Byte
  <2> QED BY <1>1, <2>1
<1>3. Number(s) = Digit(1) + 256 * (Digit(2) + 256 * (Digit(3) + 256 * Digit(4)))
  <2> HIDE DEF s
  <2> QED BY DEF Number
<1> HIDE DEF s, Digit
<1>4. /\ Digit(1) \in 0 .. 255 /\ Digit(2) \in 0 .. 255 /\ Digit(3) \in 0 .. 255 /\ Digit(4) \in 0 .. 255
      /\ w < 2 => Digit(2) = 0
      /\ w < 3 => Digit(3) = 0
      /\ w < 4 => Digit(4) = 0
  BY <1>2
<1>5. Wide(Number(s), w)
  <2> DEFINE a1 == Digit(1)
             b1 == Digit(2)
             c1 == Digit(3)
             d1 == Digit(4)
  <2>1. a1 \in 0 .. 255 /\ b1 \in 0 .. 255 /\ c1 \in 0 .. 255 /\ d1 \in 0 .. 255 BY <1>4
  <2>2. Cut(b1, c1, d1, w) BY <1>4 DEF Cut
  <2>3. Polynomial(Number(s), a1, b1, c1, d1) BY <1>3 DEF Polynomial
  <2> HIDE DEF a1, b1, c1, d1
  <2> QED BY <2>1, <2>2, <2>3, Digits
<1> QED BY <1>5 DEF s

(* What is unpacked from enough bytes fits the fields.                     *)
LEMMA UnpackFits ==
  ASSUME NEW layout, IsLayout(layout), NEW data \in Seq(Byte), Unpacks(layout, data, 0),
         NEW k \in 1 .. Len(layout)
  PROVE  Wide(Unpack(layout, data, 0)[layout[k].name], layout[k].width)
<1> DEFINE name == layout[k].name
           Index == CHOOSE i \in DOMAIN layout : layout[i].name = name
           end == Ends(layout)
<1>1. DOMAIN layout = 1 .. Len(layout) /\ layout[k].width \in 1 .. 4 BY DEF IsLayout
<1>2. Index = k
  <2>1. Index \in DOMAIN layout /\ layout[Index].name = name BY <1>1
  <2> HIDE DEF Index
  <2> QED BY <1>1, <2>1 DEF IsLayout
<1>3. name \in {layout[i].name : i \in DOMAIN layout} BY <1>1
<1>4. Unpack(layout, data, 0)[name] = Number(SubSeq(data, 0 + end[Index - 1] + 1, 0 + end[Index]))
  BY <1>3 DEF Unpack
<1>5. end[k - 1] \in Nat /\ end[k] = end[k - 1] + layout[k].width /\ end[k] <= Size(layout) BY EndsGrow
<1>6. Size(layout) <= Len(data) /\ Size(layout) \in Nat
  <2>1. Len(layout) \in 0 .. Len(layout) BY DEF IsLayout
  <2>2. Size(layout) \in Nat BY <2>1, EndsRecur DEF Size
  <2> QED BY <2>2 DEF Unpacks
<1> HIDE DEF end, Index
<1>7. /\ end[k - 1] + layout[k].width <= Len(data)
      /\ 0 + end[k - 1] + 1 = end[k - 1] + 1 /\ 0 + end[k] = end[k - 1] + layout[k].width
  BY <1>1, <1>5, <1>6
<1>8. Unpack(layout, data, 0)[name] = Number(SubSeq(data, end[k - 1] + 1, end[k - 1] + layout[k].width))
  BY <1>2, <1>4, <1>7
<1>9. Wide(Number(SubSeq(data, end[k - 1] + 1, end[k - 1] + layout[k].width)), layout[k].width)
  BY <1>1, <1>5, <1>7, NumberFits
<1> QED BY <1>8, <1>9

(* The layouts of the programs the emulator knows.                         *)
List(s, n) == s = [i \in 1 .. n |-> s[i]] /\ Len(s) = n
Follows(u, s, t, m, n) == (\A i \in 1 .. m : u[i] = s[i]) /\ \A i \in 1 .. n : u[m + i] = t[i]
FieldsAre(u, w, names, n) == \A i \in 1 .. n : u[i] = [name |-> names[i], width |-> w]
LEMMA Listed == ASSUME NEW n \in Nat, NEW s, s = [i \in 1 .. n |-> s[i]] PROVE List(s, n)
<1> DEFINE S == {s[i] : i \in 1 .. n}
<1>1. s \in [1 .. n -> S] OBVIOUS
<1>2. \A f \in [1 .. n -> S] : Len(f) = n
  <2> HIDE DEF S
  <2> QED OBVIOUS
<1>3. Len(s) = n BY <1>1, <1>2
<1> QED BY <1>3 DEF List
LEMMA Joined ==
  ASSUME NEW m \in Nat, NEW n \in Nat, NEW s, NEW t, List(s, m), List(t, n)
  PROVE  List(s \o t, m + n) /\ Follows(s \o t, s, t, m, n)
<1> DEFINE S == {s[i] : i \in 1 .. m} \cup {t[i] : i \in 1 .. n}
           u == s \o t
<1>1. s \in [1 .. m -> S] /\ t \in [1 .. n -> S] /\ Len(s) = m /\ Len(t) = n BY DEF List
<1> HIDE DEF S
<1>2. s \in Seq(S) /\ t \in Seq(S) BY <1>1
<1>3. /\ u \in Seq(S) /\ Len(u) = m + n
      /\ \A i \in 1 .. m + n : u[i] = IF i <= m THEN s[i] ELSE t[i - m]
  <2>1. /\ u \in Seq(S) /\ Len(u) = Len(s) + Len(t)
        /\ \A i \in 1 .. Len(s) + Len(t) : u[i] = IF i <= Len(s) THEN s[i] ELSE t[i - Len(s)]
    BY <1>2, ConcatProperties
  <2> QED BY <1>1, <2>1
<1> HIDE DEF u
<1>4. u = [i \in 1 .. m + n |-> u[i]] BY <1>3
<1>5. ASSUME NEW i \in 1 .. m PROVE u[i] = s[i] BY <1>3
<1>6. ASSUME NEW i \in 1 .. n PROVE u[m + i] = t[i]
  <2>1. m + i \in 1 .. m + n /\ ~(m + i <= m) /\ (m + i) - m = i OBVIOUS
  <2> QED BY <1>3, <2>1
<1>7. List(u, m + n) /\ Follows(u, s, t, m, n) BY <1>3, <1>4, <1>5, <1>6 DEF List, Follows
<1> QED BY <1>7 DEF u
LEMMA Fields ==
  ASSUME NEW n \in Nat, NEW w, NEW names, names = [i \in 1 .. n |-> names[i]]
  PROVE  List(F(w, names), n) /\ FieldsAre(F(w, names), w, names, n)
<1> DEFINE u == F(w, names)
<1>1. u = [i \in 1 .. n |-> [name |-> names[i], width |-> w]] BY DEF F
<1> HIDE DEF u
<1>2. u = [i \in 1 .. n |-> u[i]] BY <1>1
<1>3. FieldsAre(u, w, names, n) BY <1>1 DEF FieldsAre
<1>4. List(u, n) BY <1>2, Listed
<1> QED BY <1>3, <1>4 DEF u
LEMMA One ==
  ASSUME NEW w, NEW a PROVE List(F(w, <<a>>), 1) /\ F(w, <<a>>)[1] = [name |-> a, width |-> w]
<1>1. <<a>> = [i \in 1 .. 1 |-> <<a>>[i]] /\ <<a>>[1] = a OBVIOUS
<1>2. List(F(w, <<a>>), 1) /\ FieldsAre(F(w, <<a>>), w, <<a>>, 1) BY <1>1, Fields
<1> QED BY <1>1, <1>2 DEF FieldsAre
LEMMA Two ==
  ASSUME NEW w, NEW a, NEW b
  PROVE  /\ List(F(w, <<a, b>>), 2) /\ F(w, <<a, b>>)[1] = [name |-> a, width |-> w]
         /\ F(w, <<a, b>>)[2] = [name |-> b, width |-> w]
<1>1. <<a, b>> = [i \in 1 .. 2 |-> <<a, b>>[i]] /\ <<a, b>>[1] = a /\ <<a, b>>[2] = b OBVIOUS
<1>2. List(F(w, <<a, b>>), 2) /\ FieldsAre(F(w, <<a, b>>), w, <<a, b>>, 2) BY <1>1, Fields
<1> QED BY <1>1, <1>2 DEF FieldsAre
LEMMA BlinkLayout ==
  LET L == ParseLayout["blink"] IN
  /\ IsLayout(L) /\ Len(L) = 4
  /\ L[1] = [name |-> "on_period", width |-> 2] /\ L[2] = [name |-> "on_value", width |-> 3]
  /\ L[3] = [name |-> "off_period", width |-> 2] /\ L[4] = [name |-> "off_value", width |-> 3]
<1> DEFINE a == F(2, <<"on_period">>)
           b == F(3, <<"on_value">>)
           c == F(2, <<"off_period">>)
           d == F(3, <<"off_value">>)
           ab == a \o b
           abc == ab \o c
           L == abc \o d
<1>0. ParseLayout["blink"] = L BY DEF ParseLayout
<1>1. /\ List(a, 1) /\ a[1] = [name |-> "on_period", width |-> 2]
      /\ List(b, 1) /\ b[1] = [name |-> "on_value", width |-> 3]
      /\ List(c, 1) /\ c[1] = [name |-> "off_period", width |-> 2]
      /\ List(d, 1) /\ d[1] = [name |-> "off_value", width |-> 3]
  BY One
<1> HIDE DEF a, b, c, d
<1>2. List(ab, 1 + 1) /\ Follows(ab, a, b, 1, 1) BY <1>1, Joined
<1> HIDE DEF ab
<1>3. List(ab, 2) BY <1>2
<1>4. List(abc, 2 + 1) /\ Follows(abc, ab, c, 2, 1) BY <1>1, <1>3, Joined
<1> HIDE DEF abc
<1>5. List(abc, 3) BY <1>4
<1>6. List(L, 3 + 1) /\ Follows(L, abc, d, 3, 1) BY <1>1, <1>5, Joined
<1> HIDE DEF L
<1>7. /\ L[1] = [name |-> "on_period", width |-> 2] /\ L[2] = [name |-> "on_value", width |-> 3]
      /\ L[3] = [name |-> "off_period", width |-> 2] /\ L[4] = [name |-> "off_value", width |-> 3]
  BY <1>1, <1>2, <1>4, <1>6 DEF Follows
<1>8. Len(L) = 4 /\ DOMAIN L = 1 .. 4 BY <1>6 DEF List
<1>9. IsLayout(L)
  <2>1. \A k \in 1 .. 4 : k = 1 \/ k = 2 \/ k = 3 \/ k = 4 OBVIOUS
  <2> QED BY <1>7, <1>8, <2>1 DEF IsLayout
<1> QED BY <1>0, <1>7, <1>8, <1>9

LEMMA TimedLayout ==
  LET L == ParseLayout["timed"] IN
  /\ IsLayout(L) /\ Len(L) = 3 /\ L[1] = [name |-> "period", width |-> 4]
  /\ L[2] = [name |-> "start_value", width |-> 3] /\ L[3] = [name |-> "stop_value", width |-> 3]
<1> DEFINE a == F(4, <<"period">>)
           b == F(3, <<"start_value", "stop_value">>)
           L == a \o b
<1>0. ParseLayout["timed"] = L BY DEF ParseLayout
<1>1. List(a, 1) /\ a[1] = [name |-> "period", width |-> 4] BY One
<1>2. /\ List(b, 2) /\ b[1] = [name |-> "start_value", width |-> 3]
      /\ b[2] = [name |-> "stop_value", width |-> 3]
  BY Two
<1> HIDE DEF a, b
<1>3. List(L, 1 + 2) /\ Follows(L, a, b, 1, 2) BY <1>1, <1>2, Joined
<1> HIDE DEF L
<1>4. /\ L[1] = [name |-> "period", width |-> 4] /\ L[2] = [name |-> "start_value", width |-> 3]
      /\ L[3] = [name |-> "stop_value", width |-> 3]
  BY <1>1, <1>2, <1>3 DEF Follows
<1>5. Len(L) = 3 /\ DOMAIN L = 1 .. 3 BY <1>3 DEF List
<1>6. IsLayout(L)
  <2>1. \A k \in 1 .. 3 : k = 1 \/ k = 2 \/ k = 3 OBVIOUS
  <2> QED BY <1>4, <1>5, <2>1 DEF IsLayout
<1> QED BY <1>0, <1>4, <1>5, <1>6
LEMMA FadeLayout ==
  LET L == ParseLayout["fade"] IN
  /\ IsLayout(L) /\ Len(L) = 4 /\ L[1] = [name |-> "period", width |-> 4]
  /\ L[2] = [name |-> "start_value", width |-> 3] /\ L[3] = [name |-> "stop_value", width |-> 3]
  /\ L[4] = [name |-> "flags", width |-> 1]
<1> DEFINE a == F(4, <<"period">>)
           b == F(3, <<"start_value", "stop_value">>)
           c == F(1, <<"flags">>)
           ab == a \o b
           L == ab \o c
<1>0. ParseLayout["fade"] = L BY DEF ParseLayout
<1>1. /\ List(a, 1) /\ a[1] = [name |-> "period", width |-> 4]
      /\ List(c, 1) /\ c[1] = [name |-> "flags", width |-> 1]
  BY One
<1>2. /\ List(b, 2) /\ b[1] = [name |-> "start_value", width |-> 3]
      /\ b[2] = [name |-> "stop_value", width |-> 3]
  BY Two
<1> HIDE DEF a, b, c
<1>3. List(ab, 1 + 2) /\ Follows(ab, a, b, 1, 2) BY <1>1, <1>2, Joined
<1> HIDE DEF ab
<1>4. List(ab, 3) BY <1>3
<1>5. List(L, 3 + 1) /\ Follows(L, ab, c, 3, 1) BY <1>1, <1>4, Joined
<1> HIDE DEF L
<1>6. /\ L[1] = [name |-> "period", width |-> 4] /\ L[2] = [name |-> "start_value", width |-> 3]
      /\ L[3] = [name |-> "stop_value", width |-> 3] /\ L[4] = [name |-> "flags", width |-> 1]
  BY <1>1, <1>2, <1>3, <1>5 DEF Follows
<1>7. Len(L) = 4 /\ DOMAIN L = 1 .. 4 BY <1>5 DEF List
<1>8. IsLayout(L)
  <2>1. \A k \in 1 .. 4 : k = 1 \/ k = 2 \/ k = 3 \/ k = 4 OBVIOUS
  <2> QED BY <1>6, <1>7, <2>1 DEF IsLayout
<1> QED BY <1>0, <1>6, <1>7, <1>8
LEMMA StepsLayout ==
  LET L == ParseLayout["sequence"] IN
  /\ IsLayout(L) /\ Len(L) = 24
  /\ \A i \in 1 .. 8 : /\ L[i] = [name |-> <<"output", i>>, width |-> 1]
                       /\ L[8 + i] = [name |-> <<"duration", i>>, width |-> 2]
                       /\ L[16 + i] = [name |-> <<"value", i>>, width |-> 1]
<1> DEFINE Each(n) == [k \in 1 .. SEQUENCE_MAX |-> <<n, k>>]
           o == Each("output")
           d == Each("duration")
           v == Each("value")
           a == F(1, o)
           b == F(2, d)
           c == F(1, v)
           ab == a \o b
           L == ab \o c
<1>0. ParseLayout["sequence"] = L BY DEF ParseLayout, SequenceLayout
<1>1. /\ o = [i \in 1 .. 8 |-> o[i]] /\ d = [i \in 1 .. 8 |-> d[i]] /\ v = [i \in 1 .. 8 |-> v[i]]
      /\ \A i \in 1 .. 8 : o[i] = <<"output", i>> /\ d[i] = <<"duration", i>> /\ v[i] = <<"value", i>>
  BY DEF SEQUENCE_MAX
<1> HIDE DEF o, d, v
<1>2. List(a, 8) /\ FieldsAre(a, 1, o, 8) BY <1>1, Fields
<1>3. List(b, 8) /\ FieldsAre(b, 2, d, 8) BY <1>1, Fields
<1>4. List(c, 8) /\ FieldsAre(c, 1, v, 8) BY <1>1, Fields
<1> HIDE DEF a, b, c
<1>5. List(ab, 8 + 8) /\ Follows(ab, a, b, 8, 8) BY <1>2, <1>3, Joined
<1> HIDE DEF ab
<1>6. List(ab, 16) BY <1>5
<1>7. List(L, 16 + 8) /\ Follows(L, ab, c, 16, 8) BY <1>4, <1>6, Joined
<1> HIDE DEF L
<1>8. Len(L) = 24 /\ DOMAIN L = 1 .. 24 BY <1>7 DEF List
<1>9. ASSUME NEW i \in 1 .. 8
      PROVE  /\ L[i] = [name |-> <<"output", i>>, width |-> 1]
             /\ L[8 + i] = [name |-> <<"duration", i>>, width |-> 2]
             /\ L[16 + i] = [name |-> <<"value", i>>, width |-> 1]
  <2>1. i \in 1 .. 16 /\ 8 + i \in 1 .. 16 OBVIOUS
  <2>2. L[i] = ab[i] /\ L[8 + i] = ab[8 + i] /\ L[16 + i] = c[i] BY <1>7, <2>1 DEF Follows
  <2>3. ab[i] = a[i] /\ ab[8 + i] = b[i] BY <1>5 DEF Follows
  <2> QED BY <1>1, <1>2, <1>3, <1>4, <2>2, <2>3 DEF FieldsAre
<1>10. IsLayout(L)
  <2>1. \A k \in 1 .. 24 : L[k].width \in 1 .. 4
    <3> SUFFICES ASSUME NEW k \in 1 .. 24 PROVE L[k].width \in 1 .. 4 OBVIOUS
    <3>1. \/ \E i \in 1 .. 8 : k = i \/ k = 8 + i \/ k = 16 + i
      <4>1. \/ k \in 1 .. 8
            \/ k - 8 \in 1 .. 8 /\ k = 8 + (k - 8)
            \/ k - 16 \in 1 .. 8 /\ k = 16 + (k - 16)
        OBVIOUS
      <4> QED BY <4>1
    <3> QED BY <1>9, <3>1
  <2>2. ASSUME NEW k \in 1 .. 24, NEW m \in 1 .. 24, L[k].name = L[m].name PROVE k = m
    <3>1. \A j \in 1 .. 24 : \E i \in 1 .. 8 :
            \/ j = i /\ L[j].name[1] = "output" /\ L[j].name[2] = i
            \/ j = 8 + i /\ L[j].name[1] = "duration" /\ L[j].name[2] = i
            \/ j = 16 + i /\ L[j].name[1] = "value" /\ L[j].name[2] = i
      <4> SUFFICES ASSUME NEW j \in 1 .. 24
                   PROVE  \E i \in 1 .. 8 :
                            \/ j = i /\ L[j].name[1] = "output" /\ L[j].name[2] = i
                            \/ j = 8 + i /\ L[j].name[1] = "duration" /\ L[j].name[2] = i
                            \/ j = 16 + i /\ L[j].name[1] = "value" /\ L[j].name[2] = i
        OBVIOUS
      <4>1. CASE j \in 1 .. 8 BY <1>9, <4>1
      <4>2. CASE j - 8 \in 1 .. 8
        <5>1. j = 8 + (j - 8) OBVIOUS
        <5> QED BY <1>9, <4>2, <5>1
      <4>3. CASE j - 16 \in 1 .. 8
        <5>1. j = 16 + (j - 16) OBVIOUS
        <5> QED BY <1>9, <4>3, <5>1
      <4> QED BY <4>1, <4>2, <4>3
    <3> DEFINE Names(j, i) == \/ j = i /\ L[j].name[1] = "output" /\ L[j].name[2] = i
                              \/ j = 8 + i /\ L[j].name[1] = "duration" /\ L[j].name[2] = i
                              \/ j = 16 + i /\ L[j].name[1] = "value" /\ L[j].name[2] = i
    <3>2. PICK i \in 1 .. 8 : Names(k, i) BY <3>1
    <3>3. PICK j \in 1 .. 8 : Names(m, j) BY <3>1
    <3>4. L[k].name[1] = L[m].name[1] /\ L[k].name[2] = L[m].name[2] BY <2>2
    <3> QED BY <3>2, <3>3, <3>4
  <2> QED BY <1>8, <2>1, <2>2 DEF IsLayout
<1> QED BY <1>0, <1>8, <1>9, <1>10
-----------------------------------------------------------------------------
(* The fields of the programs the emulator installs.                       *)
Colour(v) == v \in Nat /\ v < 256 * 256 * 256
Small(v) == v \in Nat /\ v < 256
ArgFits(kind, arg) ==
  /\ kind = "blink" => /\ arg.on_period \in Nat /\ arg.off_period \in Nat
                       /\ Colour(arg.on_value) /\ Colour(arg.off_value)
  /\ kind = "timed" => arg.period \in Nat /\ Colour(arg.start_value) /\ Colour(arg.stop_value)
  /\ kind = "fade" => /\ arg.period \in Nat /\ Colour(arg.start_value) /\ Colour(arg.stop_value)
                      /\ Small(arg.flags)
  /\ kind = "sequence" => /\ StepCount(arg) \in Nat /\ StepCount(arg) > 0
                          /\ \A i \in 1 .. 8 : /\ Small(arg[<<"output", i>>]) /\ Small(arg[<<"value", i>>])
                                               /\ arg[<<"duration", i>>] \in Nat
LEMMA BlinkFits ==
  ASSUME NEW data \in Seq(Byte), Unpacks(ParseLayout["blink"], data, 0)
  PROVE  ArgFits("blink", Unpack(ParseLayout["blink"], data, 0))
<1> DEFINE L == ParseLayout["blink"]
           arg == Unpack(L, data, 0)
<1>1. /\ IsLayout(L) /\ Len(L) = 4
      /\ L[1] = [name |-> "on_period", width |-> 2] /\ L[2] = [name |-> "on_value", width |-> 3]
      /\ L[3] = [name |-> "off_period", width |-> 2] /\ L[4] = [name |-> "off_value", width |-> 3]
  BY BlinkLayout
<1> HIDE DEF L
<1>2. \A k \in 1 .. 4 : Wide(arg[L[k].name], L[k].width) BY <1>1, UnpackFits DEF L
<1> HIDE DEF arg
<1>3. /\ Wide(arg.on_period, 2) /\ Wide(arg.on_value, 3) /\ Wide(arg.off_period, 2) /\ Wide(arg.off_value, 3)
  <2>1. 1 \in 1 .. 4 /\ 2 \in 1 .. 4 /\ 3 \in 1 .. 4 /\ 4 \in 1 .. 4 OBVIOUS
  <2> QED BY <1>1, <1>2, <2>1
<1>4. ArgFits("blink", arg) BY <1>3 DEF ArgFits, Wide, Colour
<1> QED BY <1>4 DEF arg, L
LEMMA TimedFits ==
  ASSUME NEW data \in Seq(Byte), Unpacks(ParseLayout["timed"], data, 0)
  PROVE  ArgFits("timed", Unpack(ParseLayout["timed"], data, 0))
<1> DEFINE L == ParseLayout["timed"]
           arg == Unpack(L, data, 0)
<1>1. /\ IsLayout(L) /\ Len(L) = 3 /\ L[1] = [name |-> "period", width |-> 4]
      /\ L[2] = [name |-> "start_value", width |-> 3] /\ L[3] = [name |-> "stop_value", width |-> 3]
  BY TimedLayout
<1> HIDE DEF L
<1>2. \A k \in 1 .. 3 : Wide(arg[L[k].name], L[k].width) BY <1>1, UnpackFits DEF L
<1> HIDE DEF arg
<1>3. Wide(arg.period, 4) /\ Wide(arg.start_value, 3) /\ Wide(arg.stop_value, 3)
  <2>1. 1 \in 1 .. 3 /\ 2 \in 1 .. 3 /\ 3 \in 1 .. 3 OBVIOUS
  <2> QED BY <1>1, <1>2, <2>1
<1>4. ArgFits("timed", arg) BY <1>3 DEF ArgFits, Wide, Colour
<1> QED BY <1>4 DEF arg, L
LEMMA FadeFits ==
  ASSUME NEW data \in Seq(Byte), Unpacks(ParseLayout["fade"], data, 0)
  PROVE  ArgFits("fade", Unpack(ParseLayout["fade"], data, 0))
<1> DEFINE L == ParseLayout["fade"]
           arg == Unpack(L, data, 0)
<1>1. /\ IsLayout(L) /\ Len(L) = 4 /\ L[1] = [name |-> "period", width |-> 4]
      /\ L[2] = [name |-> "start_value", width |-> 3] /\ L[3] = [name |-> "stop_value", width |-> 3]
      /\ L[4] = [name |-> "flags", width |-> 1]
  BY FadeLayout
<1> HIDE DEF L
<1>2. \A k \in 1 .. 4 : Wide(arg[L[k].name], L[k].width) BY <1>1, UnpackFits DEF L
<1> HIDE DEF arg
<1>3. /\ Wide(arg.period, 4) /\ Wide(arg.start_value, 3) /\ Wide(arg.stop_value, 3) /\ Wide(arg.flags, 1)
  <2>1. 1 \in 1 .. 4 /\ 2 \in 1 .. 4 /\ 3 \in 1 .. 4 /\ 4 \in 1 .. 4 OBVIOUS
  <2> QED BY <1>1, <1>2, <2>1
<1>4. ArgFits("fade", arg) BY <1>3 DEF ArgFits, Wide, Colour, Small
<1> QED BY <1>4 DEF arg, L
(* The steps of a sequence are those before the first that names no output. *)
LEMMA StepsCounted ==
  ASSUME NEW arg
  PROVE  /\ StepCount(arg) \in 0 .. 8
         /\ \A i \in 1 .. StepCount(arg) : i \in 1 .. 8 /\ arg[<<"output", i>>] # 255
<1> DEFINE S == {k \in 1 .. SEQUENCE_MAX : \A j \in 1 .. k : arg[<<"output", j>>] # 255}
<1>1. IsFiniteSet(1 .. 8) /\ Cardinality(1 .. 8) = 8
  <2>1. 1 \in Int /\ 8 \in Int OBVIOUS
  <2>2. IsFiniteSet(1 .. 8) /\ Cardinality(1 .. 8) = IF 1 > 8 THEN 0 ELSE 8 - 1 + 1 BY <2>1, FS_Interval
  <2> QED BY <2>2
<1>2. S \subseteq 1 .. 8 BY DEF SEQUENCE_MAX
<1>3. IsFiniteSet(S) /\ Cardinality(S) \in Nat /\ Cardinality(S) <= 8
  <2> HIDE DEF S
  <2> QED BY <1>1, <1>2, FS_Subset, FS_CardinalityType
<1>4. StepCount(arg) = Cardinality(S) BY DEF StepCount
<1>5. ASSUME NEW i \in 1 .. Cardinality(S), i \notin S PROVE FALSE
  <2>0. i \in 1 .. 8 /\ i - 1 \in Int /\ i - 1 \in Nat BY <1>3
  <2>1. S \subseteq 1 .. i - 1
    <3> SUFFICES ASSUME NEW k \in S PROVE k <= i - 1 BY <1>2, <2>0
    <3>1. k \in 1 .. 8 BY <1>2
    <3> SUFFICES ASSUME k >= i PROVE FALSE BY <2>0, <3>1
    <3>2. \A j \in 1 .. k : arg[<<"output", j>>] # 255 OBVIOUS
    <3>3. \A j \in 1 .. i : j \in 1 .. k BY <2>0, <3>1
    <3>4. i \in S BY <2>0, <3>2, <3>3 DEF SEQUENCE_MAX
    <3> QED BY <1>5, <3>4
  <2>2. IsFiniteSet(1 .. i - 1) /\ Cardinality(1 .. i - 1) = i - 1
    <3>1. 1 \in Int /\ i - 1 \in Int BY <2>0
    <3>2. /\ IsFiniteSet(1 .. i - 1)
          /\ Cardinality(1 .. i - 1) = IF 1 > i - 1 THEN 0 ELSE (i - 1) - 1 + 1
      BY <3>1, FS_Interval
    <3> QED BY <2>0, <3>2
  <2>3. Cardinality(S) <= i - 1
    <3> HIDE DEF S
    <3> QED BY <2>1, <2>2, FS_Subset
  <2> QED BY <1>3, <2>0, <2>3
<1>6. ASSUME NEW i \in 1 .. Cardinality(S) PROVE i \in 1 .. 8 /\ arg[<<"output", i>>] # 255
  <2>1. i \in S BY <1>5
  <2>2. i \in 1 .. i BY <1>2, <2>1
  <2> QED BY <1>2, <2>1, <2>2
<1> HIDE DEF S
<1>7. Cardinality(S) \in 0 .. 8 BY <1>3
<1> QED BY <1>4, <1>6, <1>7
LEMMA StepsFit ==
  ASSUME NEW data \in Seq(Byte), Unpacks(ParseLayout["sequence"], data, 0),
         StepCount(Unpack(ParseLayout["sequence"], data, 0)) # 0
  PROVE  ArgFits("sequence", Unpack(ParseLayout["sequence"], data, 0))
<1> DEFINE L == ParseLayout["sequence"]
           arg == Unpack(L, data, 0)
<1>1. /\ IsLayout(L) /\ Len(L) = 24
      /\ \A i \in 1 .. 8 : /\ L[i] = [name |-> <<"output", i>>, width |-> 1]
                           /\ L[8 + i] = [name |-> <<"duration", i>>, width |-> 2]
                           /\ L[16 + i] = [name |-> <<"value", i>>, width |-> 1]
  BY StepsLayout
<1> HIDE DEF L
<1>2. \A k \in 1 .. 24 : Wide(arg[L[k].name], L[k].width) BY <1>1, UnpackFits DEF L
<1>3. StepCount(arg) # 0 BY DEF L
<1> HIDE DEF arg
<1>4. ASSUME NEW i \in 1 .. 8
      PROVE  /\ Wide(arg[<<"output", i>>], 1) /\ Wide(arg[<<"duration", i>>], 2)
             /\ Wide(arg[<<"value", i>>], 1)
  <2>1. i \in 1 .. 24 /\ 8 + i \in 1 .. 24 /\ 16 + i \in 1 .. 24 OBVIOUS
  <2>2. /\ L[i].name = <<"output", i>> /\ L[i].width = 1
        /\ L[8 + i].name = <<"duration", i>> /\ L[8 + i].width = 2
        /\ L[16 + i].name = <<"value", i>> /\ L[16 + i].width = 1
    <3>2. /\ L[i] = [name |-> <<"output", i>>, width |-> 1]
          /\ L[8 + i] = [name |-> <<"duration", i>>, width |-> 2]
          /\ L[16 + i] = [name |-> <<"value", i>>, width |-> 1]
      BY <1>1, Zenon
    <3> DEFINE o == L[i]
               d == L[8 + i]
               v == L[16 + i]
    <3>3. /\ o = [name |-> <<"output", i>>, width |-> 1] /\ d = [name |-> <<"duration", i>>, width |-> 2]
          /\ v = [name |-> <<"value", i>>, width |-> 1]
      BY <3>2
    <3> HIDE DEF o, d, v
    <3>4. o.name = <<"output", i>> /\ o.width = 1 BY <3>3
    <3>5. d.name = <<"duration", i>> /\ d.width = 2 BY <3>3
    <3>6. v.name = <<"value", i>> /\ v.width = 1 BY <3>3
    <3> QED BY <3>4, <3>5, <3>6 DEF o, d, v
  <2>3. Wide(arg[L[i].name], L[i].width) BY <1>2, <2>1
  <2>4. Wide(arg[L[8 + i].name], L[8 + i].width) BY <1>2, <2>1
  <2>5. Wide(arg[L[16 + i].name], L[16 + i].width) BY <1>2, <2>1
  <2> QED BY <2>2, <2>3, <2>4, <2>5, Zenon
<1>5. StepCount(arg) \in Nat /\ StepCount(arg) > 0 BY <1>3, StepsCounted
<1>6. ArgFits("sequence", arg) BY <1>4, <1>5 DEF ArgFits, Wide, Small
<1> QED BY <1>6 DEF arg, L
Parsed(p) == \E kind \in {"blink", "timed", "fade", "sequence"} : \E arg :
               p = [Blank EXCEPT !.kind = kind, !.arg = arg] /\ ArgFits(kind, arg)
LEMMA ParseFits ==
  ASSUME NEW code, NEW data \in Seq(Byte), Parse(code, data) # NULL
  PROVE  Parsed(Parse(code, data))
<1> DEFINE kinds == {k \in DOMAIN ParseCode : ParseCode[k] = code /\ Unpacks(ParseLayout[k], data, 0)}
           kind == CHOOSE k \in kinds : TRUE
           arg == Unpack(ParseLayout[kind], data, 0)
<1>1. Parse(code, data) =
        IF kinds = {} THEN NULL
        ELSE IF kind = "sequence" /\ StepCount(arg) = 0 THEN NULL
        ELSE [Blank EXCEPT !.kind = kind, !.arg = arg]
  BY DEF Parse
<1>2. kinds # {} /\ ~(kind = "sequence" /\ StepCount(arg) = 0)
  <2> HIDE DEF kinds, kind, arg
  <2> QED BY <1>1
<1>3. kind \in kinds
  <2> HIDE DEF kinds
  <2> QED BY <1>2
<1>4. DOMAIN ParseCode = {"blink", "timed", "fade", "sequence"} BY DEF ParseCode
<1>5. kind \in {"blink", "timed", "fade", "sequence"} /\ Unpacks(ParseLayout[kind], data, 0)
  <2> HIDE DEF kind
  <2> QED BY <1>3, <1>4
<1>6. Parse(code, data) = [Blank EXCEPT !.kind = kind, !.arg = arg]
  <2> HIDE DEF kinds, kind, arg
  <2> QED BY <1>1, <1>2
<1> HIDE DEF kind
<1>7. ArgFits(kind, arg)
  <2>1. CASE kind = "blink" BY <1>5, <2>1, BlinkFits
  <2>2. CASE kind = "timed" BY <1>5, <2>2, TimedFits
  <2>3. CASE kind = "fade" BY <1>5, <2>3, FadeFits
  <2>4. CASE kind = "sequence" BY <1>2, <1>5, <2>4, StepsFit
  <2> QED BY <1>5, <2>1, <2>2, <2>3, <2>4
<1> HIDE DEF arg
<1> QED BY <1>5, <1>6, <1>7 DEF Parsed

(* The headers before a payload.                                           *)
LEMMA OutputHdrLayout == IsLayout(OutputHdr)
<1> DEFINE L == OutputHdr
<1>1. L = F(1, <<"outputtype", "output">>) BY DEF OutputHdr
<1>2. /\ List(L, 2) /\ L[1] = [name |-> "outputtype", width |-> 1] /\ L[2] = [name |-> "output", width |-> 1]
  BY <1>1, Two
<1> HIDE DEF L
<1>3. Len(L) = 2 /\ DOMAIN L = 1 .. 2 BY <1>2 DEF List
<1>4. \A k \in 1 .. 2 : k = 1 \/ k = 2 OBVIOUS
<1>5. IsLayout(L) BY <1>2, <1>3, <1>4 DEF IsLayout
<1> QED BY <1>5 DEF L
LEMMA MsgHdrLayout == IsLayout(MsgHdr)
<1> DEFINE names == <<"startcode", "crc", "version", "length", "mtype", "flags">>
           a == F(1, names)
           b == F(2, <<"address">>)
           L == a \o b
<1>0. MsgHdr = L BY DEF MsgHdr
<1>1. names = [i \in 1 .. 6 |-> names[i]] OBVIOUS
<1>2. /\ names[1] = "startcode" /\ names[2] = "crc" /\ names[3] = "version" /\ names[4] = "length"
      /\ names[5] = "mtype" /\ names[6] = "flags"
  OBVIOUS
<1> HIDE DEF names
<1>3. List(a, 6) /\ FieldsAre(a, 1, names, 6) BY <1>1, Fields
<1>4. List(b, 1) /\ b[1] = [name |-> "address", width |-> 2] BY One
<1> HIDE DEF a, b
<1>5. List(L, 6 + 1) /\ Follows(L, a, b, 6, 1) BY <1>3, <1>4, Joined
<1> HIDE DEF L
<1>6. Len(L) = 7 /\ DOMAIN L = 1 .. 7 BY <1>5 DEF List
<1>7. /\ L[1] = [name |-> "startcode", width |-> 1] /\ L[2] = [name |-> "crc", width |-> 1]
      /\ L[3] = [name |-> "version", width |-> 1] /\ L[4] = [name |-> "length", width |-> 1]
      /\ L[5] = [name |-> "mtype", width |-> 1] /\ L[6] = [name |-> "flags", width |-> 1]
      /\ L[7] = [name |-> "address", width |-> 2]
  BY <1>2, <1>3, <1>4, <1>5 DEF Follows, FieldsAre
<1>8. \A k \in 1 .. 7 : k = 1 \/ k = 2 \/ k = 3 \/ k = 4 \/ k = 5 \/ k = 6 \/ k = 7 OBVIOUS
<1>9. IsLayout(L) BY <1>6, <1>7, <1>8 DEF IsLayout
<1> QED BY <1>0, <1>9
LEMMA HeadersSize == Size(MsgHdr) + Size(OutputHdr) \in Nat
<1>1. Len(MsgHdr) \in 0 .. Len(MsgHdr) /\ Len(OutputHdr) \in 0 .. Len(OutputHdr)
  BY MsgHdrLayout, OutputHdrLayout DEF IsLayout
<1>2. Size(MsgHdr) \in Nat BY <1>1, MsgHdrLayout, EndsRecur DEF Size
<1>3. Size(OutputHdr) \in Nat BY <1>1, OutputHdrLayout, EndsRecur DEF Size
<1> QED BY <1>2, <1>3

SliceFits(data, a, w) == Wide(Number(SubSeq(data, a + 1, a + w)), w)
LEMMA SliceIs ==
  ASSUME NEW data \in Seq(Byte), NEW a \in Nat, NEW w \in 1 .. 4, a + w <= Len(data)
  PROVE  SliceFits(data, a, w)
BY NumberFits DEF SliceFits
LEMMA SeqIs == ASSUME NEW S, NEW s \in Seq(S), NEW n \in Nat, Len(s) = n PROVE s \in [1 .. n -> S]
OBVIOUS
LEMMA DispatchFits ==
  ASSUME NEW sent \in Seq(Byte), NEW m, m = Dispatch(sent)
  PROVE  /\ m.type = 1 => Number(SubSeq(m.payload, 1, 2)) \in Nat
         /\ m.type = 2 => SubSeq(m.payload, 1, 3) \in [1 .. 3 -> Byte]
         /\ m.type = 3 /\ m.program # NULL => Parsed(m.program)
<1> DEFINE h == Size(MsgHdr) + Size(OutputHdr)
           n == Len(sent)
           payload == SubSeq(sent, h + 1, n)
           outhdr == Unpack(OutputHdr, sent, Size(MsgHdr))
           hdr == Unpack(MsgHdr, sent, 0)
           full == [type |-> outhdr.outputtype, output |-> outhdr.output, payload |-> payload,
                    program |-> IF outhdr.outputtype = 3 THEN Parse(payload[1], Tail(payload)) ELSE NULL]
           good == /\ n >= h
                   /\ hdr.startcode = STARTCODE /\ hdr.address \in {BROADCAST, Address} /\ hdr.mtype = 1
                   /\ outhdr.outputtype \in DOMAIN Shortest => Len(payload) >= Shortest[outhdr.outputtype]
<1>1. m = IF good THEN full ELSE [type |-> 0] BY DEF Dispatch
<1>2. h \in Nat BY HeadersSize
<1> HIDE DEF h
<1>3. payload \in Seq(Byte)
  <2>1. h + 1 \in Nat \ {0} /\ n \in 0 .. Len(sent) BY <1>2
  <2> QED BY <2>1, Slice
<1>4. CASE ~good
  <2>1. m = [type |-> 0] BY <1>1, <1>4
  <2>2. m.type = 0 BY <2>1
  <2> QED BY <2>2
<1>5. CASE good
  <2>1. m = full BY <1>1, <1>5
  <2>2. m.payload = payload /\ m.type = outhdr.outputtype
        /\ (m.type = 3 => m.program = Parse(payload[1], Tail(payload)))
    <3> HIDE DEF payload, outhdr
    <3> QED BY <2>1
  <2>3. outhdr.outputtype \in DOMAIN Shortest => Len(payload) >= Shortest[outhdr.outputtype] BY <1>5
  <2> HIDE DEF payload, outhdr, full, good
  <2>4. m.type = 1 => Len(payload) >= 2 BY <2>2, <2>3 DEF Shortest
  <2>5. m.type = 2 => Len(payload) >= 3 BY <2>2, <2>3 DEF Shortest
  <2>6. m.type = 3 => Len(payload) >= 1 BY <2>2, <2>3 DEF Shortest
  <2>7. ASSUME m.type = 1 PROVE Number(SubSeq(m.payload, 1, 2)) \in Nat
    <3>1. 0 + 2 <= Len(payload) /\ 0 + 1 = 1 /\ 0 + 2 = 2 BY <2>4, <2>7
    <3>2. 0 \in Nat /\ 2 \in 1 .. 4 OBVIOUS
    <3>3. SliceFits(payload, 0, 2) BY <1>3, <3>1, <3>2, SliceIs
    <3>4. Wide(Number(SubSeq(payload, 0 + 1, 0 + 2)), 2) BY <3>3 DEF SliceFits
    <3> QED BY <2>2, <3>1, <3>4 DEF Wide
  <2>8. ASSUME m.type = 2 PROVE SubSeq(m.payload, 1, 3) \in [1 .. 3 -> Byte]
    <3>1. 1 \in Nat \ {0} /\ 3 \in 0 .. Len(payload) BY <1>3, <2>5, <2>8
    <3> DEFINE s == SubSeq(payload, 1, 3)
    <3>2. s \in Seq(Byte) /\ Len(s) = IF 1 <= 3 THEN 3 - 1 + 1 ELSE 0 BY <1>3, <3>1, Slice
    <3> HIDE DEF s
    <3>4. Len(s) = 3 /\ 3 \in Nat BY <3>2
    <3>3. s \in [1 .. 3 -> Byte] BY <3>2, <3>4, SeqIs
    <3> QED BY <2>2, <3>3 DEF s
  <2>9. ASSUME m.type = 3, m.program # NULL PROVE Parsed(m.program)
    <3>1. payload # <<>> BY <1>3, <2>6, <2>9
    <3>2. Tail(payload) \in Seq(Byte) BY <1>3, <3>1
    <3>3. m.program = Parse(payload[1], Tail(payload)) BY <2>2, <2>9
    <3>4. Parse(payload[1], Tail(payload)) # NULL BY <2>9, <3>3
    <3>5. Parsed(Parse(payload[1], Tail(payload)))
      <4> DEFINE code == payload[1]
                 rest == Tail(payload)
      <4>1. rest \in Seq(Byte) /\ Parse(code, rest) # NULL BY <3>2, <3>4
      <4> HIDE DEF code, rest
      <4>2. Parsed(Parse(code, rest)) BY <4>1, ParseFits
      <4> QED BY <4>2 DEF code, rest
    <3> QED BY <3>3, <3>5
  <2> QED BY <2>7, <2>8, <2>9
<1> QED BY <1>4, <1>5

LEMMA ReceivedFits ==
  ASSUME NEW q \in Requests
  PROVE  /\ Received[q].type = 1 => Number(SubSeq(Received[q].payload, 1, 2)) \in Nat
         /\ Received[q].type = 2 => SubSeq(Received[q].payload, 1, 3) \in [1 .. 3 -> Byte]
         /\ Received[q].type = 3 /\ Received[q].program # NULL => Parsed(Received[q].program)
<1>1. Message(q) \in Seq(Byte) BY EmulatorAssumption DEF Byte
<1>2. Received[q] = Dispatch(Message(q)) BY DEF Received
<1> QED BY <1>1, <1>2, DispatchFits

-----------------------------------------------------------------------------
(* What the state of the programs keeps to, at time t and within a run.     *)
Kinds == {"none", "blink", "timed", "fade", "sequence"}
Args == {NULL} \cup {Received[q].program.arg : q \in Requests}
Programs ==
  [kind : Kinds, arg : Args, started : BOOLEAN, on : BOOLEAN, next : Nat, current : 1 .. 8, origin : Nat]
Cycle(p) == p.arg.on_period + p.arg.off_period
NoDrift(p) ==
  p.kind = "blink" /\ p.started =>
    \E cycles \in 0 .. p.next - p.origin :
      p.next = p.origin + cycles * Cycle(p) + IF p.on THEN p.arg.on_period ELSE 0
Well(p, t) ==
  /\ p \in Programs /\ ArgFits(p.kind, p.arg) /\ NoDrift(p) /\ p.origin <= t
  /\ p.kind = "sequence" => p.current \in 1 .. StepCount(p.arg)
  /\ ~p.started => p.on /\ p.current = 1

Looks == (Levels) \cup [1 .. 3 -> Levels] \cup {Configured[o] : o \in Outputs}
Fits(o, look) ==
  IF Kind[o] \in {"value", "rgb", "pixels"} THEN Showable(o, look) ELSE look = Configured[o]
Lights(o, look) ==
  CASE Kind[o] = "value" -> <<look>> [] Kind[o] \in {"rgb", "pixels"} -> look [] OTHER -> <<>>
Faded(p, o, look) ==
  \A i \in DOMAIN Lights(o, look) :
    Between(Lights(o, look)[i], RGB(p.arg.start_value)[i], RGB(p.arg.stop_value)[i])
Level(p, o) == IF p.arg[<<"output", p.current>>] = o THEN p.arg[<<"value", p.current>>] ELSE 0
Grey(v) == <<v, v, v>>
PhaseOf(p, o, look) ==
  /\ p.kind = "blink" => look = ShownRGB(o, RGB(IF p.on THEN p.arg.on_value ELSE p.arg.off_value), look)
  /\ p.kind = "timed" => look = ShownRGB(o, RGB(IF p.on THEN p.arg.start_value ELSE p.arg.stop_value), look)
  /\ p.kind = "sequence" => look = ShownRGB(o, Grey(Level(p, o)), look)
  /\ p.kind = "fade" => Faded(p, o, look)
(* Which outputs an object writes: its own, or those its steps name.        *)
Single(p) == p.kind = "blink" \/ p.kind = "timed" \/ p.kind = "fade"
Own(p, id, o) ==
  \/ id = o /\ Single(p)
  \/ id = NO_OUTPUT /\ p.kind = "sequence"

TickStates == [out : [Outputs -> Looks], program : [Ids -> Programs],
               writer : [Outputs -> Ids \cup {NULL}], raised : BOOLEAN]
Wrote(s, id, o) == s.writer[o] = id /\ id # NULL /\ id # ALL_OUTPUTS /\ InUse(id)
Good(s, t) ==
  /\ s \in TickStates
  /\ \A o \in Outputs : Fits(o, s.out[o])
  /\ \A id \in Ids : Well(s.program[id], t)
  /\ \A o \in Outputs : \A id \in Ids :
       Wrote(s, id, o) => Own(s.program[id], id, o) /\ PhaseOf(s.program[id], o, s.out[o])
During(s, t) ==
  /\ Good(s, t)
  /\ \A id \in Ids : s.program[id].kind = program[id].kind /\ s.program[id].arg = program[id].arg
  /\ s.raised => Misfit

Bright == [1 .. 3 -> 0 .. 255]
LEMMA OutputFacts ==
  /\ N \in 1 .. 8 /\ NULL \notin Ids /\ Outputs \subseteq Slots /\ Slots \subseteq Ids
  /\ \A o \in Outputs : o # NO_OUTPUT /\ o # ALL_OUTPUTS /\ o \in Int
  /\ NO_OUTPUT \in Slots /\ ALL_OUTPUTS \in Ids /\ NO_OUTPUT # ALL_OUTPUTS
  /\ \A o \in Outputs : \/ Kind[o] = "value" \/ Kind[o] = "rgb" \/ Kind[o] = "pixels"
                        \/ Kind[o] = "rs485" \/ Kind[o] = "mpr121"
<1>1. N \in 1 .. 8 /\ Kind \in [Outputs -> {"value", "rgb", "pixels", "rs485", "mpr121"}] /\ NULL \notin Ids
  BY EmulatorAssumption
<1>2. \A o \in Outputs : Kind[o] \in {"value", "rgb", "pixels", "rs485", "mpr121"} BY <1>1
<1>3. \A o \in Outputs : o # NO_OUTPUT /\ o # ALL_OUTPUTS /\ o \in Int
  BY <1>1 DEF Outputs, NO_OUTPUT, ALL_OUTPUTS
<1> QED BY <1>1, <1>2, <1>3 DEF Slots, Ids, NO_OUTPUT, ALL_OUTPUTS

LEMMA ColourShown == ASSUME NEW c, Colour(c) PROVE RGB(c) \in Bright
<1>1. c \in Nat /\ c < 16777216
  <2>1. 256 * 256 * 256 = 16777216 BY SMT
  <2> QED BY <2>1, SMT DEF Colour
<1>2. c % 256 \in 0 .. 255 /\ (c \div 256) % 256 \in 0 .. 255 /\ c \div 65536 \in 0 .. 255 BY <1>1, SMT
<1> DEFINE a == c % 256
           b == (c \div 256) % 256
           d == c \div 65536
<1>3. RGB(c) = <<a, b, d>> BY DEF RGB
<1>4. a \in 0 .. 255 /\ b \in 0 .. 255 /\ d \in 0 .. 255 BY <1>2
<1> HIDE DEF a, b, d
<1>5. <<a, b, d>> \in Bright BY <1>4 DEF Bright
<1> QED BY <1>3, <1>5

(* What set_rgb leaves on an output, and that the same colour again leaves it. *)
LEMMA ShownFits ==
  ASSUME NEW o \in Outputs, NEW look, Fits(o, look), NEW rgb \in [1 .. 3 -> Levels]
  PROVE  /\ Fits(o, ShownRGB(o, rgb, look))
         /\ ShownRGB(o, rgb, look) = ShownRGB(o, rgb, ShownRGB(o, rgb, look))
         /\ \A i \in DOMAIN Lights(o, ShownRGB(o, rgb, look)) :
              i \in 1 .. 3 /\ Lights(o, ShownRGB(o, rgb, look))[i] = rgb[i]
<1>1. 1 \in 1 .. 3 /\ DOMAIN rgb = 1 .. 3 OBVIOUS
<1>0. rgb[1] \in Levels BY <1>1
<1>2. CASE Kind[o] = "value"
  <2>1. \A x : ShownRGB(o, rgb, x) = rgb[1] BY <1>2 DEF ShownRGB
  <2>2. Fits(o, rgb[1]) BY <1>0, <1>2 DEF Fits, Showable
  <2>3. Lights(o, rgb[1]) = <<rgb[1]>> BY <1>2 DEF Lights
  <2>4. \A i \in DOMAIN <<rgb[1]>> : i = 1 /\ <<rgb[1]>>[i] = rgb[1] OBVIOUS
  <2> QED BY <1>1, <2>1, <2>2, <2>3, <2>4
<1>3. CASE Kind[o] = "rgb" \/ Kind[o] = "pixels"
  <2>1. \A x : ShownRGB(o, rgb, x) = rgb BY <1>3 DEF ShownRGB
  <2>2. Fits(o, rgb) BY <1>3 DEF Fits, Showable
  <2>3. Lights(o, rgb) = rgb BY <1>3 DEF Lights
  <2> QED BY <1>1, <2>1, <2>2, <2>3
<1>4. CASE Kind[o] = "rs485" \/ Kind[o] = "mpr121"
  <2>1. \A x : ShownRGB(o, rgb, x) = x BY <1>4 DEF ShownRGB
  <2>3. Lights(o, look) = <<>> BY <1>4 DEF Lights
  <2> QED BY <2>1, <2>3
<1> QED BY <1>2, <1>3, <1>4, OutputFacts
LEMMA FitsLooks ==
  ASSUME NEW o \in Outputs, NEW look, Fits(o, look) PROVE look \in Looks
<1>1. CASE Kind[o] = "value" BY <1>1 DEF Fits, Showable, Looks
<1>2. CASE Kind[o] = "rgb" \/ Kind[o] = "pixels" BY <1>2 DEF Fits, Showable, Looks
<1>3. CASE Kind[o] = "rs485" \/ Kind[o] = "mpr121" BY <1>3 DEF Fits, Looks
<1> QED BY <1>1, <1>2, <1>3, OutputFacts
LEMMA BrightIsColour == ASSUME NEW rgb \in Bright PROVE rgb \in [1 .. 3 -> Levels]
<1>1. 0 .. 255 \subseteq Levels BY SMT DEF Levels
<1> QED BY <1>1 DEF Bright
(* A fade lies between its ends, and at its full fraction at its end.       *)
Mixed(x, y, f) == (y * f + x * (255 - f)) \div 255
LEMMA MixedIs ==
  ASSUME NEW x \in 0 .. 255, NEW y \in 0 .. 255, NEW f \in 0 .. 255
  PROVE  Mixed(x, y, f) \in 0 .. 255 /\ Between(Mixed(x, y, f), x, y) /\ (f = 255 => Mixed(x, y, f) = y)
<1> DEFINE n == y * f + x * (255 - f)
           mix == n \div 255
<1>1. y * f \in Nat /\ x * (255 - f) \in Nat /\ n \in Nat OBVIOUS
<1>2. x * (255 - f) = 255 * x - x * f OBVIOUS
<1>3. x <= y => 255 * x <= n /\ n <= 255 * y
  <2> SUFFICES ASSUME x <= y PROVE 255 * x <= n /\ n <= 255 * y OBVIOUS
  <2>1. x * f <= y * f OBVIOUS
  <2>2. x * (255 - f) <= y * (255 - f) OBVIOUS
  <2>3. y * f + y * (255 - f) = 255 * y OBVIOUS
  <2> QED BY <1>2, <2>1, <2>2, <2>3
<1>4. y <= x => 255 * y <= n /\ n <= 255 * x
  <2> SUFFICES ASSUME y <= x PROVE 255 * y <= n /\ n <= 255 * x OBVIOUS
  <2>1. y * f <= x * f OBVIOUS
  <2>2. y * (255 - f) <= x * (255 - f) OBVIOUS
  <2>3. y * f + y * (255 - f) = 255 * y OBVIOUS
  <2> QED BY <1>2, <2>1, <2>2, <2>3
<1>5. f = 255 => n = 255 * y BY <1>2
<1> HIDE DEF n
<1>6. mix \in Nat /\ \A z \in Nat : (255 * z <= n => z <= mix) /\ (n <= 255 * z => mix <= z) BY <1>1
<1> HIDE DEF mix
<1>7. Between(mix, x, y) BY <1>3, <1>4, <1>6 DEF Between
<1>8. mix \in 0 .. 255
  <2>1. CASE x <= y BY <1>3, <1>6, <2>1
  <2>2. CASE y <= x BY <1>4, <1>6, <2>2
  <2> QED BY <2>1, <2>2
<1>9. f = 255 => mix = y
  <2> SUFFICES ASSUME f = 255 PROVE mix = y OBVIOUS
  <2>1. n = 255 * y BY <1>5
  <2> QED BY <1>6, <2>1
<1> QED BY <1>7, <1>8, <1>9 DEF mix, n, Mixed

-----------------------------------------------------------------------------
(* How a tick changes the states of the programs.                           *)
Made(out_, program_, writer_, raised_) == [out |-> out_, program |-> program_, writer |-> writer_, raised |-> raised_]
Put(s, id, q) == [s EXCEPT !.program[id] = q]
Lit(s, id, q, o, rgb) ==
  Made([s.out EXCEPT ![o] = ShownRGB(o, rgb, s.out[o])], [s.program EXCEPT ![id] = q],
       [s.writer EXCEPT ![o] = id], s.raised)
Stopped(s, id, q) == Made(s.out, [s.program EXCEPT ![id] = q], s.writer, TRUE)
IsState(m) == m = Made(m.out, m.program, m.writer, m.raised)
States(A, B, C, D) == [out : A, program : B, writer : C, raised : D]
Holds(m, a, b, c, d) == IsState(m) /\ m.out = a /\ m.program = b /\ m.writer = c /\ m.raised = d
LEMMA MadeHolds == ASSUME NEW a, NEW b, NEW c, NEW d PROVE Holds(Made(a, b, c, d), a, b, c, d)
BY DEF Made, Holds, IsState
LEMMA MadeOf == ASSUME NEW m, IsState(m) PROVE m \in States({m.out}, {m.program}, {m.writer}, {m.raised})
<1> DEFINE a == m.out
           b == m.program
           c == m.writer
           d == m.raised
<1>1. m = Made(a, b, c, d) BY DEF IsState
<1> HIDE DEF a, b, c, d
<1>2. m \in States({a}, {b}, {c}, {d}) BY <1>1 DEF Made, States
<1> QED BY <1>2 DEF a, b, c, d
Raise(m) == [m EXCEPT !.raised = TRUE]
Light(m, id, o, rgb) == [m EXCEPT !.out[o] = ShownRGB(o, rgb, @), !.writer[o] = id]
LEMMA Raises == ASSUME NEW m, IsState(m) PROVE Raise(m) = Made(m.out, m.program, m.writer, TRUE)
<1> DEFINE b == TRUE
<1> HIDE DEF b
<1>0. m \in States({m.out}, {m.program}, {m.writer}, {m.raised}) BY MadeOf
<1>1. [m EXCEPT !.raised = b] = Made(m.out, m.program, m.writer, b) BY <1>0 DEF Made, States
<1> QED BY <1>1 DEF b, Raise
LEMMA Puts ==
  ASSUME NEW m, IsState(m), NEW id, NEW q
  PROVE  Put(m, id, q) = Made(m.out, [m.program EXCEPT ![id] = q], m.writer, m.raised)
<1>0. m \in States({m.out}, {m.program}, {m.writer}, {m.raised}) BY MadeOf
<1> QED BY <1>0 DEF Made, States, Put
LEMMA Lit2 ==
  ASSUME NEW m, IsState(m), NEW o, NEW id, NEW rgb
  PROVE  Light(m, id, o, rgb)
           = Made([m.out EXCEPT ![o] = ShownRGB(o, rgb, m.out[o])], m.program, [m.writer EXCEPT ![o] = id], m.raised)
<1> DEFINE look == ShownRGB(o, rgb, m.out[o])
           n == [m EXCEPT !.out[o] = look]
<1>0. m \in States({m.out}, {m.program}, {m.writer}, {m.raised}) BY MadeOf
<1> HIDE DEF look
<1>2. n = Made([m.out EXCEPT ![o] = look], m.program, m.writer, m.raised) BY <1>0 DEF Made, States
<1>3. n \in States({n.out}, {n.program}, {n.writer}, {n.raised}) BY <1>0 DEF States
<1>5. n.out = [m.out EXCEPT ![o] = look] /\ n.program = m.program /\ n.writer = m.writer /\ n.raised = m.raised
  BY <1>0 DEF States
<1> HIDE DEF n
<1>4. [n EXCEPT !.writer[o] = id] = Made(n.out, n.program, [n.writer EXCEPT ![o] = id], n.raised)
  BY <1>3 DEF Made, States
<1> QED BY <1>4, <1>5 DEF n, look, Light
WritesAs(m, id, o, rgb) ==
  /\ o \in Outputs =>
       Write(m, id, o, rgb) = Made([m.out EXCEPT ![o] = ShownRGB(o, rgb, m.out[o])], m.program,
                                   [m.writer EXCEPT ![o] = id], m.raised)
  /\ o \notin Outputs => Write(m, id, o, rgb) = Made(m.out, m.program, m.writer, TRUE)
LEMMA WriteIs == ASSUME NEW m, IsState(m), NEW id, NEW o, NEW rgb PROVE WritesAs(m, id, o, rgb)
<1>1. Write(m, id, o, rgb) = IF o \in Outputs THEN Light(m, id, o, rgb) ELSE Raise(m) BY DEF Write, Light, Raise
<1> QED BY <1>1, Raises, Lit2 DEF WritesAs
LEMMA TickStateIs == ASSUME NEW s \in TickStates PROVE IsState(s) BY DEF TickStates, IsState, Made
LEMMA PutWrites ==
  ASSUME NEW s \in TickStates, NEW id \in Ids, NEW q, NEW o, NEW rgb
  PROVE  /\ o \in Outputs => Write(Put(s, id, q), id, o, rgb) = Lit(s, id, q, o, rgb)
         /\ o \notin Outputs => Write(Put(s, id, q), id, o, rgb) = Stopped(s, id, q)
<1> DEFINE n == Put(s, id, q)
           b == [s.program EXCEPT ![id] = q]
           out2 == s.out
           writer2 == s.writer
           raised2 == s.raised
<1>1. n = Made(out2, b, writer2, raised2) BY TickStateIs, Puts
<1> HIDE DEF n, b, out2, writer2, raised2
<1>2. Holds(n, out2, b, writer2, raised2) BY <1>1, MadeHolds
<1>3. WritesAs(n, id, o, rgb) BY <1>2, WriteIs DEF Holds
<1>4. /\ o \in Outputs => Write(n, id, o, rgb) = Made([out2 EXCEPT ![o] = ShownRGB(o, rgb, out2[o])], b,
                                                      [writer2 EXCEPT ![o] = id], raised2)
      /\ o \notin Outputs => Write(n, id, o, rgb) = Made(out2, b, writer2, TRUE)
  BY <1>2, <1>3 DEF Holds, WritesAs
<1> QED BY <1>4 DEF Lit, Stopped, n, b, out2, writer2, raised2
LEMMA WritesThen ==
  ASSUME NEW s \in TickStates, NEW id \in Ids, NEW q, NEW o, NEW rgb, ~s.raised
  PROVE  /\ o \in Outputs => Then(Write(s, id, o, rgb), id, q) = Lit(s, id, q, o, rgb)
         /\ o \notin Outputs => Then(Write(s, id, o, rgb), id, q) = Stopped(s, id, s.program[id])
<1> DEFINE n == Write(s, id, o, rgb)
           out2 == [s.out EXCEPT ![o] = ShownRGB(o, rgb, s.out[o])]
           writer2 == [s.writer EXCEPT ![o] = id]
           b == s.program
           raised2 == s.raised
           a == s.out
           c == s.writer
           d == TRUE
<1>0. WritesAs(s, id, o, rgb) BY TickStateIs, WriteIs
<1>1. /\ o \in Outputs => n = Made(out2, b, writer2, raised2)
      /\ o \notin Outputs => n = Made(a, b, c, d)
  BY <1>0 DEF WritesAs
<1>2. [b EXCEPT ![id] = b[id]] = b BY DEF TickStates
<1> HIDE DEF n, b, out2, writer2, raised2, a, c, d
<1>3. ASSUME o \in Outputs PROVE Then(n, id, q) = Lit(s, id, q, o, rgb)
  <2>1. Holds(n, out2, b, writer2, raised2) BY <1>1, <1>3, MadeHolds
  <2>2. Put(n, id, q) = Made(n.out, [n.program EXCEPT ![id] = q], n.writer, n.raised)
    BY <2>1, Puts DEF Holds
  <2>3. ~n.raised BY <2>1 DEF raised2, Holds
  <2>4. Then(n, id, q) = Put(n, id, q) BY <2>3 DEF Then, Put
  <2>5. Then(n, id, q) = Made(out2, [b EXCEPT ![id] = q], writer2, raised2) BY <2>1, <2>2, <2>4 DEF Holds
  <2> QED BY <2>5 DEF Lit, out2, writer2, b, raised2
<1>4. ASSUME o \notin Outputs PROVE Then(n, id, q) = Stopped(s, id, s.program[id])
  <2>1. n = Made(a, b, c, d) /\ Holds(n, a, b, c, d) BY <1>1, <1>4, MadeHolds
  <2>3. n.raised BY <2>1 DEF d, Holds
  <2>4. Then(n, id, q) = n BY <2>3 DEF Then
  <2> QED BY <1>2, <2>1, <2>4 DEF Stopped, a, b, c, d
<1> QED BY <1>3, <1>4 DEF n

(* r is s after program id took state q, and perhaps wrote outputs.         *)
Moved(s, r, id, q, t) ==
  /\ Well(q, t) /\ q.kind = s.program[id].kind /\ q.arg = s.program[id].arg
  /\ r.program = [s.program EXCEPT ![id] = q]
  /\ r = Made(r.out, r.program, r.writer, r.raised)
  /\ r.out \in [Outputs -> Looks] /\ r.writer \in [Outputs -> Ids \cup {NULL}]
  /\ r.raised \in BOOLEAN /\ (r.raised => Misfit)
  /\ \A o \in Outputs :
       /\ Fits(o, r.out[o])
       /\ Wrote(r, id, o) => Own(q, id, o) /\ PhaseOf(q, o, r.out[o])
       /\ r.writer[o] # id => r.out[o] = s.out[o] /\ r.writer[o] = s.writer[o]
Confined(s, r, id) ==
  /\ \A i \in Ids \ {id} : r.program[i] = s.program[i]
  /\ \A o \in Outputs : r.writer[o] # id => r.out[o] = s.out[o] /\ r.writer[o] = s.writer[o]
Ticked(s, r, id, t) == During(r, t) /\ Confined(s, r, id)
LEMMA Unticked == ASSUME NEW s, NEW id, NEW t, During(s, t) PROVE Ticked(s, s, id, t)
BY DEF Ticked, Confined
LEMMA MoveKeeps ==
  ASSUME NEW s, NEW r, NEW id \in Ids, NEW q, NEW t \in Nat, During(s, t), Moved(s, r, id, q, t)
  PROVE  Ticked(s, r, id, t)
<1>1. /\ s \in TickStates /\ s.program \in [Ids -> Programs] /\ q \in Programs
      /\ \A i \in Ids : Well(s.program[i], t) /\ s.program[i].kind = program[i].kind /\ s.program[i].arg = program[i].arg
      /\ \A o \in Outputs : \A i \in Ids :
           Wrote(s, i, o) => Own(s.program[i], i, o) /\ PhaseOf(s.program[i], o, s.out[o])
  BY DEF During, Good, TickStates, Moved, Well
<1>2. r.program \in [Ids -> Programs] /\ r.program[id] = q /\ \A i \in Ids \ {id} : r.program[i] = s.program[i]
  BY <1>1 DEF Moved
<1>3. r \in TickStates
  <2> DEFINE a == r.out
             b == r.program
             c == r.writer
             d == r.raised
  <2>1. r = Made(a, b, c, d) /\ a \in [Outputs -> Looks] /\ c \in [Outputs -> Ids \cup {NULL}] /\ d \in BOOLEAN
    BY DEF Moved
  <2>2. b \in [Ids -> Programs] BY <1>2
  <2> HIDE DEF a, b, c, d
  <2>3. Made(a, b, c, d) \in TickStates BY <2>1, <2>2 DEF Made, TickStates
  <2> QED BY <2>1, <2>3
<1>4. ASSUME NEW i \in Ids
      PROVE  Well(r.program[i], t) /\ r.program[i].kind = program[i].kind /\ r.program[i].arg = program[i].arg
  <2>1. CASE i = id BY <1>1, <1>2, <2>1 DEF Moved
  <2>2. CASE i # id BY <1>1, <1>2, <2>2
  <2> QED BY <2>1, <2>2
<1>5. ASSUME NEW o \in Outputs, NEW i \in Ids, Wrote(r, i, o)
      PROVE  Own(r.program[i], i, o) /\ PhaseOf(r.program[i], o, r.out[o])
  <2>0. r.writer[o] = i BY <1>5 DEF Wrote
  <2>1. CASE i = id BY <1>2, <1>5, <2>0, <2>1 DEF Moved
  <2>2. CASE i # id
    <3>1. r.out[o] = s.out[o] /\ r.writer[o] = s.writer[o] BY <2>0, <2>2 DEF Moved
    <3>2. Wrote(s, i, o) BY <1>5, <3>1 DEF Wrote
    <3> QED BY <1>1, <1>2, <2>2, <3>1, <3>2
  <2> QED BY <2>1, <2>2
<1>6. \A o \in Outputs : Fits(o, r.out[o]) BY DEF Moved
<1>7. r.raised => Misfit BY DEF Moved
<1>8. During(r, t) BY <1>3, <1>4, <1>5, <1>6, <1>7 DEF During, Good
<1>9. Confined(s, r, id) BY <1>2 DEF Confined, Moved
<1> QED BY <1>8, <1>9 DEF Ticked

Continues(s, id, q, t) == Well(q, t) /\ q.kind = s.program[id].kind /\ q.arg = s.program[id].arg
(* A program that does not write anything goes on, or stops the run.        *)
LEMMA Unwritten ==
  ASSUME NEW s, NEW t \in Nat, During(s, t), NEW id \in Ids, NEW q, Continues(s, id, q, t),
         NEW b \in BOOLEAN, b => Misfit,
         \A o \in Outputs : Wrote(s, id, o) => PhaseOf(q, o, s.out[o])
  PROVE  Ticked(s, Made(s.out, [s.program EXCEPT ![id] = q], s.writer, b), id, t)
<1> DEFINE a == s.out
           c == s.writer
           p == [s.program EXCEPT ![id] = q]
           r == Made(a, p, c, b)
<1>1. /\ a \in [Outputs -> Looks] /\ c \in [Outputs -> Ids \cup {NULL}] /\ \A o \in Outputs : Fits(o, a[o])
      /\ \A o \in Outputs : Wrote(s, id, o) => Own(s.program[id], id, o)
  BY DEF During, Good, TickStates
<1>2. \A o \in Outputs : Own(s.program[id], id, o) => Own(q, id, o)
  BY DEF Own, Single, Continues
<1>3. Holds(r, a, p, c, b)
  <2> HIDE DEF a, p, c, r
  <2> QED BY MadeHolds DEF r
<1>4. Moved(s, r, id, q, t)
  <2> HIDE DEF r
  <2>1. r.out = s.out /\ r.program = p /\ r.writer = s.writer /\ r.raised = b /\ IsState(r) BY <1>3 DEF Holds
  <2>2. \A o \in Outputs : Wrote(r, id, o) => Wrote(s, id, o) BY <2>1 DEF Wrote
  <2> QED BY <1>1, <1>2, <2>1, <2>2 DEF Moved, Continues, IsState
<1>5. Ticked(s, r, id, t)
  <2> HIDE DEF r
  <2> QED BY <1>4, MoveKeeps
<1> QED BY <1>5
(* A program writes the output in whose slot it is.                         *)
LEMMA OwnLit ==
  ASSUME NEW s, NEW t \in Nat, During(s, t), NEW k \in Outputs, NEW id \in {k, ALL_OUTPUTS},
         NEW q, Continues(s, id, q, t), Single(q), NEW rgb \in [1 .. 3 -> Levels],
         PhaseOf(q, k, ShownRGB(k, rgb, s.out[k]))
  PROVE  Ticked(s, Lit(s, id, q, k, rgb), id, t)
<1> DEFINE look == ShownRGB(k, rgb, s.out[k])
           a == [s.out EXCEPT ![k] = look]
           c == [s.writer EXCEPT ![k] = id]
           p == [s.program EXCEPT ![id] = q]
           b == s.raised
           r == Made(a, p, c, b)
<1>0. id \in Ids BY OutputFacts
<1>1. /\ s.out \in [Outputs -> Looks] /\ s.writer \in [Outputs -> Ids \cup {NULL}] /\ b \in BOOLEAN
      /\ \A o \in Outputs : Fits(o, s.out[o])
      /\ \A o \in Outputs : Wrote(s, id, o) => Own(s.program[id], id, o)
      /\ b => Misfit
  BY <1>0 DEF During, Good, TickStates
<1>2. Fits(k, look) /\ look \in Looks BY <1>1, ShownFits, FitsLooks
<1>3. /\ a \in [Outputs -> Looks] /\ c \in [Outputs -> Ids \cup {NULL}] /\ a[k] = look /\ c[k] = id
      /\ \A o \in Outputs \ {k} : a[o] = s.out[o] /\ c[o] = s.writer[o]
  <2> HIDE DEF look, Looks
  <2> QED BY <1>0, <1>1, <1>2
<1>4. PhaseOf(q, k, look) OBVIOUS
<1> HIDE DEF look
<1>5. Holds(r, a, p, c, b)
  <2> HIDE DEF a, p, c, b, r
  <2> QED BY MadeHolds DEF r
<1>6. \A o \in Outputs \ {k} : s.writer[o] = id => ~Wrote(s, id, o)
  <2> SUFFICES ASSUME NEW o \in Outputs \ {k}, Wrote(s, id, o) PROVE FALSE OBVIOUS
  <2>1. id # ALL_OUTPUTS /\ id = k BY DEF Wrote
  <2>2. Own(s.program[id], id, o) BY <1>1
  <2>3. Single(s.program[id]) /\ s.program[id].kind # "sequence" BY DEF Continues, Single
  <2> QED BY <2>1, <2>2, <2>3 DEF Own
<1>7. \A o \in Outputs : /\ Fits(o, a[o])
                         /\ c[o] # id => a[o] = s.out[o] /\ c[o] = s.writer[o]
  <2> HIDE DEF a, c
  <2> SUFFICES ASSUME NEW o \in Outputs
               PROVE  Fits(o, a[o]) /\ (c[o] # id => a[o] = s.out[o] /\ c[o] = s.writer[o])
    OBVIOUS
  <2>1. CASE o = k BY <1>2, <1>3, <2>1
  <2>2. CASE o # k BY <1>1, <1>3, <2>2
  <2> QED BY <2>1, <2>2
<1>8. Moved(s, r, id, q, t)
  <2> HIDE DEF r, a, c
  <2>1. r.out = a /\ r.program = p /\ r.writer = c /\ r.raised = b /\ IsState(r) BY <1>5 DEF Holds
  <2>2. ASSUME NEW o \in Outputs, Wrote(r, id, o) PROVE Own(q, id, o) /\ PhaseOf(q, o, r.out[o])
    <3>1. CASE o = k
      <4>1. id = o BY <2>2, <3>1 DEF Wrote
      <4> QED BY <1>3, <1>4, <2>1, <3>1, <4>1 DEF Own
    <3>2. CASE o # k
      <4>1. s.writer[o] = id BY <1>3, <2>1, <2>2, <3>2 DEF Wrote
      <4>2. Wrote(s, id, o) BY <2>2, <4>1 DEF Wrote
      <4> QED BY <1>6, <3>2, <4>1, <4>2
    <3> QED BY <3>1, <3>2
  <2>3. \A o \in Outputs : /\ Fits(o, r.out[o])
                           /\ r.writer[o] # id => r.out[o] = s.out[o] /\ r.writer[o] = s.writer[o]
    BY <1>7, <2>1
  <2>4. Well(q, t) /\ q.kind = s.program[id].kind /\ q.arg = s.program[id].arg BY DEF Continues
  <2> QED BY <1>1, <1>3, <2>1, <2>2, <2>3, <2>4 DEF Moved, IsState
<1>9. Ticked(s, r, id, t)
  <2> HIDE DEF r
  <2> QED BY <1>0, <1>8, MoveKeeps
<1> QED BY <1>9 DEF Lit, look

(* The object of slot k, and a program for one output that writes it.       *)
Seated(k, id) == slot[k] = id /\ (id = k \/ (id = ALL_OUTPUTS /\ k \in Outputs))
LEMMA Colours == Bright \subseteq [1 .. 3 -> Levels] BY BrightIsColour
LEMMA OneWrites ==
  ASSUME NEW s, NEW t \in Nat, During(s, t), ~s.raised, NEW k \in Slots, NEW id \in Ids, Seated(k, id),
         NEW q, Continues(s, id, q, t), Single(q), NEW rgb \in [1 .. 3 -> Levels],
         k \in Outputs => PhaseOf(q, k, ShownRGB(k, rgb, s.out[k]))
  PROVE  Ticked(s, Write(Put(s, id, q), id, k, rgb), id, t) /\ Ticked(s, Then(Write(s, id, k, rgb), id, q), id, t)
<1>1. s \in TickStates BY DEF During, Good
<1>2. CASE k \in Outputs
  <2>1. Ticked(s, Lit(s, id, q, k, rgb), id, t) BY <1>2, OwnLit DEF Seated
  <2> QED BY <1>1, <1>2, <2>1, PutWrites, WritesThen
<1>3. CASE k \notin Outputs
  <2>1. k = NO_OUTPUT /\ id = NO_OUTPUT BY <1>3 DEF Slots, Seated
  <2>2. /\ program[id].kind = s.program[id].kind /\ Well(s.program[id], t)
        /\ \A o \in Outputs : Wrote(s, id, o) => Own(s.program[id], id, o)
    BY DEF During, Good
  <2>3. Single(s.program[id]) /\ program[id].kind # "sequence" BY <2>2 DEF Continues, Single
  <2>4. Misfit
    <3>1. slot[k] = id /\ slot[k] # NULL BY OutputFacts DEF Seated
    <3> QED BY <2>1, <2>3, <3>1 DEF Misfit
  <2>5. ASSUME NEW o \in Outputs, Wrote(s, id, o) PROVE FALSE
    <3>1. Own(s.program[id], id, o) BY <2>2, <2>5
    <3>2. id # o BY <2>1, OutputFacts
    <3>3. s.program[id].kind # "sequence" BY <2>3 DEF Single
    <3> QED BY <3>1, <3>2, <3>3 DEF Own
  <2>6. Ticked(s, Stopped(s, id, q), id, t)
    <3>1. TRUE \in BOOLEAN OBVIOUS
    <3>2. Ticked(s, Made(s.out, [s.program EXCEPT ![id] = q], s.writer, TRUE), id, t)
      BY <2>4, <2>5, <3>1, Unwritten
    <3> QED BY <3>2 DEF Stopped
  <2>7. Ticked(s, Stopped(s, id, s.program[id]), id, t)
    <3> DEFINE p == s.program[id]
    <3>1. Continues(s, id, p, t) BY <2>2 DEF Continues
    <3> HIDE DEF p
    <3>2. TRUE \in BOOLEAN OBVIOUS
    <3>3. Ticked(s, Made(s.out, [s.program EXCEPT ![id] = p], s.writer, TRUE), id, t)
      BY <2>4, <2>5, <3>1, <3>2, Unwritten
    <3> QED BY <3>3 DEF Stopped, p
  <2> QED BY <1>1, <1>3, <2>6, <2>7, PutWrites, WritesThen
<1> QED BY <1>2, <1>3

(* The states a program goes through.                                       *)
Is(q, p, started, on, next, current, origin) ==
  /\ q \in Programs /\ q.kind = p.kind /\ q.arg = p.arg
  /\ q.started = started /\ q.on = on /\ q.next = next /\ q.current = current /\ q.origin = origin
LEMMA Begun ==
  ASSUME NEW p \in Programs, NEW next \in Nat, NEW t \in Nat
  PROVE  /\ Is([p EXCEPT !.started = TRUE, !.on = TRUE, !.next = next, !.origin = t], p, TRUE, TRUE, next, p.current, t)
         /\ Is([p EXCEPT !.started = TRUE, !.next = next], p, TRUE, p.on, next, p.current, p.origin)
BY DEF Is, Programs
LEMMA Turned ==
  ASSUME NEW p \in Programs, NEW next \in Nat
  PROVE  /\ Is([p EXCEPT !.on = ~p.on, !.next = next], p, p.started, ~p.on, next, p.current, p.origin)
         /\ Is([p EXCEPT !.on = FALSE, !.next = next], p, p.started, FALSE, next, p.current, p.origin)
BY DEF Is, Programs
LEMMA Stepped ==
  ASSUME NEW p \in Programs, NEW next \in Nat, NEW i \in 1 .. 8
  PROVE  /\ Is([p EXCEPT !.started = TRUE, !.current = i, !.next = next], p, TRUE, p.on, next, i, p.origin)
         /\ Is([p EXCEPT !.current = i], p, p.started, p.on, p.next, i, p.origin)
BY DEF Is, Programs
LEMMA Going ==
  ASSUME NEW p \in Programs, NEW t \in Nat
  PROVE  Is([p EXCEPT !.started = TRUE, !.origin = t], p, TRUE, p.on, p.next, p.current, t)
BY DEF Is, Programs

After(n, a, c, length, w) == n = a + c * length + w
Whole(n, a, length, w) == \E cycles \in 0 .. n - a : n = a + cycles * length + w
LEMMA Cycles ==
  ASSUME NEW a \in Nat, NEW length \in Nat, NEW w \in Nat, NEW c \in Nat, NEW n, After(n, a, c, length, w)
  PROVE  Whole(n, a, length, w)
<1>0. n = a + c * length + w BY DEF After
<1> SUFFICES \E cycles \in 0 .. n - a : n = a + cycles * length + w BY DEF Whole
<1>1. c * length \in Nat OBVIOUS
<1>2. CASE length = 0
  <2>1. c * length = 0 /\ 0 * length = 0 BY <1>2
  <2>2. n = a + 0 * length + w /\ 0 \in 0 .. n - a BY <1>0, <2>1
  <2> QED BY <2>2
<1>3. CASE length # 0
  <2>1. c <= c * length
    <3>1. length - 1 \in Nat BY <1>3
    <3>2. c * (length - 1) \in Nat BY <3>1
    <3>3. c * length = c * (length - 1) + c BY <3>1
    <3> QED BY <3>2, <3>3
  <2>2. c \in 0 .. n - a BY <1>0, <1>1, <2>1
  <2> QED BY <1>0, <2>2
<1> QED BY <1>2, <1>3
LEMMA ShownPhase ==
  ASSUME NEW s, NEW t, During(s, t), NEW k \in Outputs, NEW rgb \in [1 .. 3 -> Levels]
  PROVE  ShownRGB(k, rgb, s.out[k]) = ShownRGB(k, rgb, ShownRGB(k, rgb, s.out[k]))
<1>1. Fits(k, s.out[k]) BY DEF During, Good
<1> QED BY <1>1, ShownFits
LEMMA BlinkKeeps ==
  ASSUME NEW s, NEW t \in Nat, During(s, t), ~s.raised, NEW k \in Slots, NEW id \in Ids, Seated(k, id),
         s.program[id].kind = "blink"
  PROVE  Ticked(s, TickBlink(s, id, k, t), id, t)
<1> DEFINE p == s.program[id]
           a == p.arg
<1>1. p \in Programs /\ p.kind = "blink" /\ Well(p, t) BY DEF During, Good, Well
<1>2. /\ a.on_period \in Nat /\ a.off_period \in Nat /\ Colour(a.on_value) /\ Colour(a.off_value)
      /\ p.next \in Nat /\ p.origin \in Nat /\ p.origin <= t /\ p.on \in BOOLEAN /\ p.started \in BOOLEAN
      /\ NoDrift(p)
  BY <1>1 DEF Well, ArgFits, Programs
<1>3. RGB(a.on_value) \in [1 .. 3 -> Levels] /\ RGB(a.off_value) \in [1 .. 3 -> Levels]
  BY <1>2, ColourShown, Colours
<1>4. CASE ~p.started
  <2> DEFINE q == [p EXCEPT !.started = TRUE, !.on = TRUE, !.next = t + a.on_period, !.origin = t]
             rgb == RGB(a.on_value)
  <2>1. TickBlink(s, id, k, t) = Write(Put(s, id, q), id, k, rgb) BY <1>4 DEF TickBlink, Put
  <2>2. t + a.on_period \in Nat BY <1>2
  <2>3. Is(q, p, TRUE, TRUE, t + a.on_period, p.current, t) BY <1>1, <2>2, Begun
  <2> HIDE DEF q, rgb
  <2>4. NoDrift(q)
    <3>1. q.arg = a /\ q.on /\ q.next = t + a.on_period /\ q.origin = t BY <2>3 DEF Is
    <3>2. 0 \in 0 .. q.next - q.origin /\ q.next = q.origin + 0 * Cycle(q) + a.on_period
      <4>1. Cycle(q) \in Nat BY <1>2, <3>1 DEF Cycle
      <4> HIDE DEF p, a
      <4> QED BY <1>2, <3>1, <4>1
    <3> QED BY <3>1, <3>2 DEF NoDrift
  <2>5. Continues(s, id, q, t) BY <1>1, <2>3, <2>4 DEF Continues, Well, Is
  <2>6. Single(q) /\ q.on /\ q.kind = "blink" /\ q.arg = a BY <1>1, <2>3 DEF Single, Is
  <2>7. k \in Outputs => PhaseOf(q, k, ShownRGB(k, rgb, s.out[k])) BY <1>3, <2>6, ShownPhase DEF PhaseOf, rgb
  <2>8. rgb \in [1 .. 3 -> Levels] BY <1>3 DEF rgb
  <2> QED BY <2>1, <2>5, <2>6, <2>7, <2>8, OneWrites
<1>5. CASE p.started /\ t < p.next
  <2>1. TickBlink(s, id, k, t) = s BY <1>5 DEF TickBlink
  <2> QED BY <2>1, Unticked
<1>6. CASE p.started /\ ~(t < p.next)
  <2> DEFINE w == IF p.on THEN a.off_period ELSE a.on_period
             q == [p EXCEPT !.on = ~p.on, !.next = p.next + w]
             rgb == RGB(IF p.on THEN a.off_value ELSE a.on_value)
  <2>1. TickBlink(s, id, k, t) = Then(Write(s, id, k, rgb), id, q) BY <1>6 DEF TickBlink, Following
  <2>2. w \in Nat /\ p.next + w \in Nat BY <1>2
  <2>3. Is(q, p, p.started, ~p.on, p.next + w, p.current, p.origin)
    <3> HIDE DEF w
    <3> QED BY <1>1, <2>2, Turned
  <2> HIDE DEF q, rgb
  <2>4. NoDrift(q)
    <3>1. q.arg = a /\ q.on = ~p.on /\ q.next = p.next + w /\ q.origin = p.origin /\ Cycle(q) = Cycle(p)
      BY <2>3 DEF Is, Cycle
    <3>2. PICK c \in 0 .. p.next - p.origin :
            p.next = p.origin + c * Cycle(p) + IF p.on THEN a.on_period ELSE 0
      BY <1>1, <1>2, <1>6 DEF NoDrift
    <3>3. c \in Nat /\ Cycle(p) \in Nat /\ Cycle(p) = a.on_period + a.off_period /\ c * Cycle(p) \in Nat
      BY <1>2 DEF Cycle
    <3>4. CASE p.on
      <4>1. q.next = p.origin + (c + 1) * Cycle(p) + 0
        <5>1. (c + 1) * Cycle(p) = c * Cycle(p) + Cycle(p)
          <6> DEFINE m == Cycle(p)
          <6>1. m \in Nat BY <3>3
          <6> HIDE DEF m
          <6>2. (c + 1) * m = c * m + m BY <6>1
          <6> QED BY <6>2 DEF m
        <5>2. q.next = p.origin + c * Cycle(p) + a.on_period + a.off_period BY <3>1, <3>2, <3>4
        <5> HIDE DEF p, a
        <5> QED BY <1>2, <3>3, <5>1, <5>2
      <4>2. \E cycles \in 0 .. q.next - p.origin : q.next = p.origin + cycles * Cycle(p) + 0
        <5> DEFINE base == p.origin
                   m == Cycle(p)
                   n == q.next
        <5>1. c + 1 \in Nat /\ 0 \in Nat /\ base \in Nat /\ m \in Nat BY <1>2, <3>3
        <5>2. After(n, base, c + 1, m, 0) BY <4>1 DEF After
        <5> HIDE DEF base, m, n
        <5>3. Whole(n, base, m, 0) BY <5>1, <5>2, Cycles
        <5> QED BY <5>3 DEF Whole, base, m, n
      <4> QED BY <3>1, <3>4, <4>2 DEF NoDrift
    <3>5. CASE ~p.on
      <4>1. q.next = p.origin + c * Cycle(p) + a.on_period
        <5>2. p.next = p.origin + c * Cycle(p) + 0 /\ q.next = p.next + a.on_period BY <3>1, <3>2, <3>5
        <5> HIDE DEF p, a
        <5> QED BY <1>2, <3>3, <5>2
      <4>2. \E cycles \in 0 .. q.next - p.origin : q.next = p.origin + cycles * Cycle(p) + a.on_period
        <5> DEFINE base == p.origin
                   m == Cycle(p)
                   n == q.next
                   w2 == a.on_period
        <5>1. c \in Nat /\ w2 \in Nat /\ base \in Nat /\ m \in Nat BY <1>2, <3>3
        <5>2. After(n, base, c, m, w2) BY <4>1 DEF After
        <5> HIDE DEF base, m, n, w2
        <5>3. Whole(n, base, m, w2) BY <5>1, <5>2, Cycles
        <5> QED BY <5>3 DEF Whole, base, m, n, w2
      <4> QED BY <3>1, <3>5, <4>2 DEF NoDrift
    <3> QED BY <3>4, <3>5
  <2>5. Continues(s, id, q, t) BY <1>1, <1>2, <1>6, <2>3, <2>4 DEF Continues, Well, Is
  <2>6. Single(q) /\ q.on = ~p.on /\ q.kind = "blink" /\ q.arg = a BY <1>1, <2>3 DEF Single, Is
  <2>7. rgb \in [1 .. 3 -> Levels] BY <1>3 DEF rgb
  <2>8. rgb = RGB(IF q.on THEN q.arg.on_value ELSE q.arg.off_value)
    <3>1. CASE p.on BY <2>6, <3>1 DEF rgb
    <3>2. CASE ~p.on BY <2>6, <3>2 DEF rgb
    <3> QED BY <3>1, <3>2
  <2>9. k \in Outputs => PhaseOf(q, k, ShownRGB(k, rgb, s.out[k]))
    BY <2>6, <2>7, <2>8, ShownPhase DEF PhaseOf
  <2> QED BY <2>1, <2>5, <2>6, <2>7, <2>9, OneWrites
<1> QED BY <1>4, <1>5, <1>6

LEMMA TimedKeeps ==
  ASSUME NEW s, NEW t \in Nat, During(s, t), ~s.raised, NEW k \in Slots, NEW id \in Ids, Seated(k, id),
         s.program[id].kind = "timed"
  PROVE  Ticked(s, TickTimed(s, id, k, t), id, t)
<1> DEFINE p == s.program[id]
           a == p.arg
           next == t + a.period
<1>1. p \in Programs /\ p.kind = "timed" /\ Well(p, t) BY DEF During, Good, Well
<1>2. /\ a.period \in Nat /\ Colour(a.start_value) /\ Colour(a.stop_value)
      /\ p.next \in Nat /\ p.origin \in Nat /\ p.origin <= t /\ p.on \in BOOLEAN /\ p.started \in BOOLEAN
      /\ ~p.started => p.on
  BY <1>1 DEF Well, ArgFits, Programs
<1>3. /\ RGB(a.start_value) \in [1 .. 3 -> Levels] /\ RGB(a.stop_value) \in [1 .. 3 -> Levels] /\ next \in Nat
  BY <1>2, ColourShown, Colours
<1>4. CASE ~p.started
  <2> DEFINE q == [p EXCEPT !.started = TRUE, !.next = next]
             rgb == RGB(a.start_value)
  <2>1. TickTimed(s, id, k, t) = Write(Put(s, id, q), id, k, rgb) BY <1>4 DEF TickTimed, Put
  <2>3. Is(q, p, TRUE, p.on, next, p.current, p.origin)
    <3> HIDE DEF next
    <3> QED BY <1>1, <1>3, Begun
  <2> HIDE DEF q, rgb
  <2>5. Continues(s, id, q, t) BY <1>1, <1>2, <2>3 DEF Continues, Well, Is, NoDrift
  <2>6. Single(q) /\ q.on /\ q.kind = "timed" /\ q.arg = a BY <1>1, <1>2, <1>4, <2>3 DEF Single, Is
  <2>7. rgb \in [1 .. 3 -> Levels] BY <1>3 DEF rgb
  <2>8. k \in Outputs => PhaseOf(q, k, ShownRGB(k, rgb, s.out[k])) BY <2>6, <2>7, ShownPhase DEF PhaseOf, rgb
  <2> QED BY <2>1, <2>5, <2>6, <2>7, <2>8, OneWrites
<1>5. CASE p.started /\ t < p.next
  <2>1. TickTimed(s, id, k, t) = s BY <1>5 DEF TickTimed
  <2> QED BY <2>1, Unticked
<1>6. CASE p.started /\ ~(t < p.next)
  <2> DEFINE q == [p EXCEPT !.on = FALSE, !.next = next]
             rgb == RGB(a.stop_value)
  <2>1. TickTimed(s, id, k, t) = Then(Write(s, id, k, rgb), id, q) BY <1>6 DEF TickTimed
  <2>3. Is(q, p, p.started, FALSE, next, p.current, p.origin)
    <3> HIDE DEF next
    <3> QED BY <1>1, <1>3, Turned
  <2> HIDE DEF q, rgb
  <2>5. Continues(s, id, q, t) BY <1>1, <1>2, <1>6, <2>3 DEF Continues, Well, Is, NoDrift
  <2>6. Single(q) /\ ~q.on /\ q.kind = "timed" /\ q.arg = a BY <1>1, <1>2, <2>3 DEF Single, Is
  <2>7. rgb \in [1 .. 3 -> Levels] BY <1>3 DEF rgb
  <2>8. k \in Outputs => PhaseOf(q, k, ShownRGB(k, rgb, s.out[k])) BY <2>6, <2>7, ShownPhase DEF PhaseOf, rgb
  <2> QED BY <2>1, <2>5, <2>6, <2>7, <2>8, OneWrites
<1> QED BY <1>4, <1>5, <1>6

Over(p, t) == p.arg.flags = 0 /\ t - p.origin >= p.arg.period
Fades(s, id, k, t, q, rgb) ==
  LET p == s.program[id] IN
  /\ TickFade(s, id, k, t) = Write(Put(s, id, q), id, k, rgb)
  /\ Is(q, p, TRUE, p.on, p.next, p.current, q.origin) /\ q.origin <= t
  /\ rgb \in Bright
  /\ \A i \in 1 .. 3 : Between(rgb[i], RGB(p.arg.start_value)[i], RGB(p.arg.stop_value)[i])
  /\ Over(q, t) => rgb = RGB(p.arg.stop_value)
LEMMA PartIs ==
  ASSUME NEW ms \in Nat, NEW period \in Nat, period # 0
  PROVE  Part(ms, period) \in 0 .. 255 /\ (ms >= period => Part(ms, period) = 255)
<1> DEFINE part == (ms * 255) \div period
<1>1. part \in Nat
  <2>1. ms * 255 \in Nat OBVIOUS
  <2> QED BY <2>1
<1>2. ms >= period => part >= 255
  <2> SUFFICES ASSUME ms >= period PROVE part >= 255 OBVIOUS
  <2>1. period * 255 <= ms * 255 OBVIOUS
  <2>2. ms * 255 < period * (part + 1) OBVIOUS
  <2> HIDE DEF part
  <2>3. part + 1 > 255
    <3> SUFFICES ASSUME part + 1 <= 255 PROVE FALSE BY <1>1
    <3>1. period * (part + 1) <= period * 255 BY <1>1
    <3> QED BY <1>1, <2>1, <2>2, <3>1
  <2> QED BY <1>1, <2>3
<1>3. Part(ms, period) = IF 255 < part THEN 255 ELSE part BY DEF Part, Least
<1> HIDE DEF part
<1> QED BY <1>1, <1>2, <1>3
LEMMA FadeTick ==
  ASSUME NEW s, NEW t \in Nat, During(s, t), NEW k \in Slots, NEW id \in Ids, s.program[id].kind = "fade"
  PROVE  \E q, rgb : Fades(s, id, k, t, q, rgb)
<1> DEFINE p == s.program[id]
           a == p.arg
           begun == IF p.started THEN p.origin ELSE t
           elapsed == t - begun
           cycle == a.flags % 2 = 1
           restart == cycle /\ elapsed >= 2 * a.period
           fraction == IF restart THEN 0
                       ELSE IF cycle /\ elapsed >= a.period THEN 255 - Part(elapsed - a.period, a.period)
                       ELSE IF a.period = 0 THEN 255 ELSE Part(elapsed, a.period)
           Mix(i) == (RGB(a.stop_value)[i] * fraction + RGB(a.start_value)[i] * (255 - fraction)) \div 255
           origin == IF restart THEN t ELSE begun
           q == [p EXCEPT !.started = TRUE, !.origin = origin]
           rgb == [i \in 1 .. 3 |-> Mix(i)]
<1>1. p \in Programs /\ p.kind = "fade" /\ Well(p, t) BY DEF During, Good, Well
<1>2. /\ a.period \in Nat /\ Colour(a.start_value) /\ Colour(a.stop_value) /\ a.flags \in Nat
      /\ p.next \in Nat /\ p.origin \in Nat /\ p.origin <= t
  BY <1>1 DEF Well, ArgFits, Programs, Small
<1>3. TickFade(s, id, k, t) = Write(Put(s, id, q), id, k, rgb) BY DEF TickFade, Put
<1>4. begun \in Nat /\ begun <= t /\ elapsed \in Nat
  <2> HIDE DEF p
  <2> QED BY <1>2
<1>5. origin \in Nat /\ origin <= t
  <2> HIDE DEF begun, restart
  <2> QED BY <1>4
<1>6. Is(q, p, TRUE, p.on, p.next, p.current, origin)
  <2> HIDE DEF origin
  <2> QED BY <1>1, <1>5, Going
<1>7. fraction \in 0 .. 255
  <2> HIDE DEF elapsed, cycle, a
  <2>1. restart => fraction \in 0 .. 255 OBVIOUS
  <2>2. ASSUME ~restart, cycle /\ elapsed >= a.period PROVE fraction \in 0 .. 255
    <3>1. a.period # 0 BY <1>2, <1>4, <2>2
    <3>2. elapsed - a.period \in Nat BY <1>2, <1>4, <2>2
    <3> DEFINE part == Part(elapsed - a.period, a.period)
               ms == elapsed - a.period
               period == a.period
    <3>0. ms \in Nat /\ period \in Nat /\ period # 0 BY <1>2, <3>1, <3>2
    <3> HIDE DEF ms, period
    <3>5. Part(ms, period) \in 0 .. 255 BY <3>0, PartIs
    <3>3. part \in 0 .. 255 BY <3>5 DEF ms, period
    <3> HIDE DEF part
    <3>4. fraction = 255 - part BY <2>2 DEF part
    <3> HIDE DEF fraction
    <3> QED BY <3>3, <3>4
  <2>3. ASSUME ~restart, ~(cycle /\ elapsed >= a.period), a.period = 0 PROVE fraction \in 0 .. 255 BY <2>3
  <2>4. ASSUME ~restart, ~(cycle /\ elapsed >= a.period), a.period # 0 PROVE fraction \in 0 .. 255
    <3> DEFINE period == a.period
    <3>0. elapsed \in Nat /\ period \in Nat /\ period # 0 BY <1>2, <1>4, <2>4
    <3> HIDE DEF period, elapsed
    <3>5. Part(elapsed, period) \in 0 .. 255 BY <3>0, PartIs
    <3>1. Part(elapsed, a.period) \in 0 .. 255 BY <3>5 DEF period
    <3> QED BY <2>4, <3>1
  <2> HIDE DEF fraction, restart
  <2> QED BY <2>1, <2>2, <2>3, <2>4
<1>8. RGB(a.start_value) \in Bright /\ RGB(a.stop_value) \in Bright BY <1>2, ColourShown
<1>9. ASSUME NEW i \in 1 .. 3
      PROVE  /\ Mix(i) \in 0 .. 255 /\ Between(Mix(i), RGB(a.start_value)[i], RGB(a.stop_value)[i])
             /\ fraction = 255 => Mix(i) = RGB(a.stop_value)[i]
  <2> DEFINE x == RGB(a.start_value)[i]
             y == RGB(a.stop_value)[i]
             f == fraction
  <2>1. x \in 0 .. 255 /\ y \in 0 .. 255 BY <1>8 DEF Bright
  <2>2. f \in 0 .. 255 BY <1>7
  <2>3. Mix(i) = Mixed(x, y, f) BY DEF Mixed
  <2> HIDE DEF x, y, f
  <2>4. Mixed(x, y, f) \in 0 .. 255 /\ Between(Mixed(x, y, f), x, y) /\ (f = 255 => Mixed(x, y, f) = y)
    BY <2>1, <2>2, MixedIs
  <2> HIDE DEF Mix
  <2>5. Mix(i) \in 0 .. 255 /\ Between(Mix(i), x, y) /\ (f = 255 => Mix(i) = y) BY <2>3, <2>4
  <2> QED BY <2>5 DEF x, y, f
<1>10. rgb \in Bright /\ \A i \in 1 .. 3 : Between(rgb[i], RGB(a.start_value)[i], RGB(a.stop_value)[i])
  <2> HIDE DEF Mix, a
  <2> QED BY <1>9 DEF Bright
<1>11. fraction = 255 => rgb = RGB(a.stop_value)
  <2> SUFFICES ASSUME fraction = 255 PROVE rgb = RGB(a.stop_value) OBVIOUS
  <2> DEFINE stop == RGB(a.stop_value)
  <2>1. stop \in Bright BY <1>8
  <2>2. \A i \in 1 .. 3 : Mix(i) = stop[i] BY <1>9
  <2> HIDE DEF stop, Mix
  <2>3. stop = [i \in 1 .. 3 |-> stop[i]] BY <2>1 DEF Bright
  <2>4. rgb = stop BY <2>2, <2>3
  <2> QED BY <2>4 DEF stop
<1>12. Over(q, t) => fraction = 255
  <2> SUFFICES ASSUME Over(q, t) PROVE fraction = 255 OBVIOUS
  <2>1. a.flags = 0 /\ t - origin >= a.period
    <3> HIDE DEF q, origin
    <3> QED BY <1>6 DEF Over, Is
  <2>2. ~cycle BY <2>1
  <2> HIDE DEF cycle
  <2>3. origin = begun BY <2>2
  <2>4. elapsed >= a.period BY <2>1, <2>3
  <2>5. fraction = IF a.period = 0 THEN 255 ELSE Part(elapsed, a.period) BY <2>2
  <2> HIDE DEF elapsed, fraction, a
  <2>6. a.period # 0 => Part(elapsed, a.period) = 255 BY <1>2, <1>4, <2>4, PartIs
  <2> QED BY <2>5, <2>6
<1>13. Is(q, p, TRUE, p.on, p.next, p.current, q.origin) /\ q.origin <= t
  <2> HIDE DEF q, origin
  <2> QED BY <1>5, <1>6 DEF Is
<1>14. Fades(s, id, k, t, q, rgb)
  <2> HIDE DEF q, rgb, fraction
  <2> QED BY <1>3, <1>10, <1>11, <1>12, <1>13 DEF Fades
<1> QED BY <1>14

Ended(s, o, t) ==
  s.writer[o] = o /\ slot[o] = o /\ s.program[o].kind = "fade" /\ Over(s.program[o], t) =>
    s.out[o] = ShownRGB(o, RGB(s.program[o].arg.stop_value), s.out[o])
LEMMA FadeKeeps ==
  ASSUME NEW s, NEW t \in Nat, During(s, t), ~s.raised, NEW k \in Slots, NEW id \in Ids, Seated(k, id),
         s.program[id].kind = "fade"
  PROVE  /\ Ticked(s, TickFade(s, id, k, t), id, t)
         /\ k \in Outputs => Ended(TickFade(s, id, k, t), k, t)
<1> DEFINE p == s.program[id]
<1>1. PICK q, rgb : Fades(s, id, k, t, q, rgb) BY FadeTick
<1>2. p \in Programs /\ p.kind = "fade" /\ Well(p, t) BY DEF During, Good, Well
<1>3. /\ q \in Programs /\ q.kind = "fade" /\ q.arg = p.arg /\ q.started /\ q.origin <= t
      /\ TickFade(s, id, k, t) = Write(Put(s, id, q), id, k, rgb)
      /\ rgb \in Bright /\ (Over(q, t) => rgb = RGB(q.arg.stop_value))
      /\ \A i \in 1 .. 3 : Between(rgb[i], RGB(q.arg.start_value)[i], RGB(q.arg.stop_value)[i])
  BY <1>1, <1>2 DEF Fades, Is
<1>4. rgb \in [1 .. 3 -> Levels] BY <1>3, Colours
<1>5. Continues(s, id, q, t) BY <1>2, <1>3 DEF Continues, Well, NoDrift
<1>6. Single(q) BY <1>3 DEF Single
<1>7. ASSUME k \in Outputs PROVE PhaseOf(q, k, ShownRGB(k, rgb, s.out[k]))
  <2> DEFINE look == ShownRGB(k, rgb, s.out[k])
  <2>1. Fits(k, s.out[k]) BY <1>7 DEF During, Good
  <2>2. \A i \in DOMAIN Lights(k, look) : i \in 1 .. 3 /\ Lights(k, look)[i] = rgb[i]
    BY <1>4, <1>7, <2>1, ShownFits
  <2> HIDE DEF look
  <2>3. Faded(q, k, look) BY <1>3, <2>2 DEF Faded
  <2> QED BY <1>3, <2>3 DEF PhaseOf, look
<1>8. Ticked(s, TickFade(s, id, k, t), id, t) BY <1>3, <1>4, <1>5, <1>6, <1>7, OneWrites
<1>9. ASSUME k \in Outputs PROVE Ended(TickFade(s, id, k, t), k, t)
  <2> DEFINE r == TickFade(s, id, k, t)
             look == ShownRGB(k, rgb, s.out[k])
  <2>1. s \in TickStates BY DEF During, Good
  <2>2. r = Lit(s, id, q, k, rgb) BY <1>3, <1>9, <2>1, PutWrites
  <2> DEFINE a == [s.out EXCEPT ![k] = look]
             b == [s.program EXCEPT ![id] = q]
             c == [s.writer EXCEPT ![k] = id]
             d == s.raised
  <2>3. r = Made(a, b, c, d) BY <2>2 DEF Lit
  <2>4. a[k] = look /\ c[k] = id /\ b[id] = q BY <1>9, <2>1 DEF TickStates
  <2>5. look = ShownRGB(k, rgb, look) BY <1>4, <1>9, ShownPhase
  <2> HIDE DEF r, look, a, b, c, d
  <2>6. Holds(r, a, b, c, d) BY <2>3, MadeHolds
  <2>7. r.out[k] = look /\ r.writer[k] = id /\ r.program[id] = q BY <2>4, <2>6 DEF Holds
  <2>8. Ended(r, k, t)
    <3> SUFFICES ASSUME id = k, Over(q, t) PROVE r.out[k] = ShownRGB(k, RGB(q.arg.stop_value), r.out[k])
      BY <2>7 DEF Ended
    <3> QED BY <1>3, <2>5, <2>7
  <2> QED BY <2>8 DEF r
<1> QED BY <1>8, <1>9

(* A sequence darkens one output and lights another.                        *)
Canvas(a, c) ==
  a \in [Outputs -> Looks] /\ c \in [Outputs -> Ids \cup {NULL}] /\ \A o \in Outputs : Fits(o, a[o])
Paint(a, o, rgb) == [a EXCEPT ![o] = ShownRGB(o, rgb, a[o])]
Sign(c, o, id) == [c EXCEPT ![o] = id]
Painted(a, c, a2, c2, o, rgb, id) ==
  /\ Canvas(a2, c2) /\ a2[o] = ShownRGB(o, rgb, a2[o]) /\ c2[o] = id
  /\ \A x \in Outputs \ {o} : a2[x] = a[x] /\ c2[x] = c[x]
LEMMA Paints ==
  ASSUME NEW a, NEW c, Canvas(a, c), NEW o \in Outputs, NEW rgb \in [1 .. 3 -> Levels], NEW id \in Ids
  PROVE  Painted(a, c, Paint(a, o, rgb), Sign(c, o, id), o, rgb, id)
<1> DEFINE look == ShownRGB(o, rgb, a[o])
           a2 == [a EXCEPT ![o] = look]
           c2 == [c EXCEPT ![o] = id]
<1>1. Fits(o, look) /\ look = ShownRGB(o, rgb, look) BY ShownFits DEF Canvas
<1> HIDE DEF look
<1>2. look \in Looks BY <1>1, FitsLooks
<1>3. /\ a2 \in [Outputs -> Looks] /\ c2 \in [Outputs -> Ids \cup {NULL}] /\ a2[o] = look /\ c2[o] = id
      /\ \A x \in Outputs \ {o} : a2[x] = a[x] /\ c2[x] = c[x]
  <2> HIDE DEF Looks
  <2> QED BY <1>2 DEF Canvas
<1> HIDE DEF a2, c2
<1>4. \A x \in Outputs : Fits(x, a2[x])
  <2> SUFFICES ASSUME NEW x \in Outputs PROVE Fits(x, a2[x]) OBVIOUS
  <2>1. CASE x = o BY <1>1, <1>3, <2>1
  <2>2. CASE x # o BY <1>3, <2>2 DEF Canvas
  <2> QED BY <2>1, <2>2
<1>5. Painted(a, c, a2, c2, o, rgb, id) BY <1>1, <1>3, <1>4 DEF Painted, Canvas
<1> QED BY <1>5 DEF a2, c2, look, Paint, Sign
LEMMA SequenceMoves ==
  ASSUME NEW s, NEW t \in Nat, During(s, t), NEW id \in Ids, id = NO_OUTPUT, NEW q, Continues(s, id, q, t),
         q.kind = "sequence", NEW a, NEW c, Canvas(a, c), NEW b \in BOOLEAN, b => Misfit,
         \A o \in Outputs : /\ c[o] = id => a[o] = ShownRGB(o, Grey(Level(q, o)), a[o])
                            /\ c[o] # id => a[o] = s.out[o] /\ c[o] = s.writer[o]
  PROVE  Ticked(s, Made(a, [s.program EXCEPT ![id] = q], c, b), id, t)
<1> DEFINE p == [s.program EXCEPT ![id] = q]
           r == Made(a, p, c, b)
<1>1. Holds(r, a, p, c, b)
  <2> HIDE DEF p, r
  <2> QED BY MadeHolds DEF r
<1>2. \A o \in Outputs : Own(q, id, o) /\ (c[o] = id => PhaseOf(q, o, a[o])) BY DEF Own, PhaseOf
<1>3. Moved(s, r, id, q, t)
  <2> HIDE DEF r
  <2>1. r.out = a /\ r.program = p /\ r.writer = c /\ r.raised = b /\ IsState(r) BY <1>1 DEF Holds
  <2>2. \A o \in Outputs : Wrote(r, id, o) => c[o] = id BY <2>1 DEF Wrote
  <2> QED BY <1>2, <2>1, <2>2 DEF Moved, Continues, IsState, Canvas
<1>4. Ticked(s, r, id, t)
  <2> HIDE DEF r
  <2> QED BY <1>3, MoveKeeps
<1> QED BY <1>4
LEMMA GreyIs == ASSUME NEW v, Small(v) PROVE Grey(v) \in [1 .. 3 -> Levels]
<1>1. v \in 0 .. 255 BY DEF Small
<1>2. <<v, v, v>> \in Bright BY <1>1 DEF Bright
<1> QED BY <1>2, Colours DEF Grey
LEMMA BlackIs == Black = Grey(0) /\ Black \in [1 .. 3 -> Levels]
<1>1. Small(0) BY DEF Small
<1>2. Black = Grey(0) BY DEF Black, Grey
<1> QED BY <1>1, <1>2, GreyIs

Step(p, t, i) == [p EXCEPT !.started = TRUE, !.current = i, !.next = t + p.arg[<<"duration", i>>]]
Turn(p, i) == [p EXCEPT !.current = i]
OutputOf(p, i) == p.arg[<<"output", i>>]
GreyOf(p, i) == Grey(p.arg[<<"value", i>>])
LEMMA StepContinues ==
  ASSUME NEW s, NEW t \in Nat, During(s, t), NEW id \in Ids, s.program[id].kind = "sequence",
         NEW i \in 1 .. StepCount(s.program[id].arg)
  PROVE  /\ Continues(s, id, Step(s.program[id], t, i), t)
         /\ s.program[id].started => Continues(s, id, Turn(s.program[id], i), t)
         /\ Step(s.program[id], t, i).current = i /\ Turn(s.program[id], i).current = i
<1> DEFINE p == s.program[id]
           next == t + p.arg[<<"duration", i>>]
<1>1. p \in Programs /\ Well(p, t) /\ p.kind = "sequence" BY DEF During, Good, Well
<1>2. i \in 1 .. 8 BY StepsCounted
<1>3. next \in Nat
  <2>1. p.arg[<<"duration", i>>] \in Nat BY <1>1, <1>2 DEF Well, ArgFits
  <2> QED BY <2>1
<1>4. /\ Is(Step(p, t, i), p, TRUE, p.on, next, i, p.origin)
      /\ Is(Turn(p, i), p, p.started, p.on, p.next, i, p.origin)
  <2>1. p.next \in Nat BY <1>1 DEF Programs
  <2> DEFINE n == next
  <2>2. Step(p, t, i) = [p EXCEPT !.started = TRUE, !.current = i, !.next = n] BY DEF Step
  <2>3. n \in Nat BY <1>3
  <2> HIDE DEF n, next, p
  <2>4. /\ Is([p EXCEPT !.started = TRUE, !.current = i, !.next = n], p, TRUE, p.on, n, i, p.origin)
        /\ Is([p EXCEPT !.current = i], p, p.started, p.on, p.next, i, p.origin)
    BY <1>1, <1>2, <2>3, Stepped
  <2> QED BY <2>2, <2>4 DEF Turn, n
<1> HIDE DEF p, next
<1>5. i \in 1 .. StepCount(p.arg) BY DEF p
<1>6. ASSUME NEW q, NEW started, NEW n, Is(q, p, started, p.on, n, i, p.origin), started = TRUE \/ (p.started /\ started = p.started)
      PROVE  Continues(s, id, q, t) /\ q.current = i
  <2>1. /\ q \in Programs /\ q.kind = "sequence" /\ q.arg = p.arg /\ q.started /\ q.current = i
        /\ q.origin = p.origin
    BY <1>1, <1>6 DEF Is
  <2>2. ArgFits(q.kind, q.arg) /\ q.origin <= t BY <1>1, <2>1 DEF Well
  <2>3. Well(q, t) BY <1>5, <2>1, <2>2 DEF Well, NoDrift
  <2> QED BY <1>1, <2>1, <2>3 DEF Continues, p
<1> QED BY <1>4, <1>6 DEF p, Is
LEMMA TickSequenceIs ==
  ASSUME NEW s, NEW id, NEW t
  PROVE  LET p == s.program[id]
             following == (p.current % StepCount(p.arg)) + 1
             dark == Write(s, id, OutputOf(p, p.current), Black)
         IN  TickSequence(s, id, NO_OUTPUT, t) =
               IF ~p.started THEN Then(Write(s, id, OutputOf(p, 1), GreyOf(p, 1)), id, Step(p, t, 1))
               ELSE IF t < p.next THEN s
               ELSE IF dark.raised THEN dark
               ELSE Then(Write(Put(dark, id, Turn(dark.program[id], following)), id,
                               OutputOf(p, following), GreyOf(p, following)), id, Step(p, t, following))
BY DEF TickSequence, Darken, Step, Turn, OutputOf, GreyOf, Grey, Put
LEMMA NoSeat ==
  ASSUME NEW s, NEW id, NEW k \in Outputs, NEW t
  PROVE  LET p == s.program[id]
             dark == Write(s, id, NULL, Black)
         IN  TickSequence(s, id, k, t) =
               IF ~p.started THEN Then(Write(s, id, NULL, GreyOf(p, 1)), id, Step(p, t, 1))
               ELSE IF t < p.next THEN s
               ELSE IF dark.raised THEN dark
               ELSE Then(Write(Put(dark, id, Turn(dark.program[id], (p.current % StepCount(p.arg)) + 1)), id,
                               NULL, GreyOf(p, (p.current % StepCount(p.arg)) + 1)), id,
                         Step(p, t, (p.current % StepCount(p.arg)) + 1))
<1>1. k # NO_OUTPUT BY OutputFacts
<1> QED BY <1>1 DEF TickSequence, Darken, Step, Turn, OutputOf, GreyOf, Grey, Put

LEMMA StopKeeps ==
  ASSUME NEW s, NEW t \in Nat, During(s, t), NEW id \in Ids, Misfit
  PROVE  Ticked(s, Stopped(s, id, s.program[id]), id, t)
<1> DEFINE p == s.program[id]
<1>1. Well(p, t) /\ \A o \in Outputs : Wrote(s, id, o) => PhaseOf(p, o, s.out[o]) BY DEF During, Good
<1>2. Continues(s, id, p, t) BY <1>1 DEF Continues
<1> HIDE DEF p
<1>3. TRUE \in BOOLEAN OBVIOUS
<1>4. Ticked(s, Made(s.out, [s.program EXCEPT ![id] = p], s.writer, TRUE), id, t) BY <1>1, <1>2, <1>3, Unwritten
<1> QED BY <1>4 DEF Stopped, p
LEMMA WriteStops ==
  ASSUME NEW s \in TickStates, NEW id \in Ids, NEW o, o \notin Outputs, NEW rgb
  PROVE  Write(s, id, o, rgb) = Stopped(s, id, s.program[id]) /\ Write(s, id, o, rgb).raised
<1> DEFINE a == s.out
           b == s.program
           c == s.writer
           d == TRUE
           r == Write(s, id, o, rgb)
<1>1. r = Made(a, b, c, d) BY TickStateIs, WriteIs DEF WritesAs
<1>2. [b EXCEPT ![id] = b[id]] = b BY DEF TickStates
<1> HIDE DEF r, a, b, c, d
<1>3. Holds(r, a, b, c, d) BY <1>1, MadeHolds
<1>4. r.raised = d BY <1>3 DEF Holds
<1> QED BY <1>1, <1>2, <1>4 DEF Stopped, a, b, c, d, r
LEMMA SequenceMisfit ==
  ASSUME NEW s, NEW t \in Nat, During(s, t), ~s.raised, NEW k \in Outputs, NEW id \in Ids, Seated(k, id),
         s.program[id].kind = "sequence"
  PROVE  Ticked(s, TickSequence(s, id, k, t), id, t)
<1> DEFINE p == s.program[id]
           dark == Write(s, id, NULL, Black)
           following == (p.current % StepCount(p.arg)) + 1
           then == Then(Write(s, id, NULL, GreyOf(p, 1)), id, Step(p, t, 1))
           more == Then(Write(Put(dark, id, Turn(dark.program[id], following)), id,
                              NULL, GreyOf(p, following)), id, Step(p, t, following))
           tick == TickSequence(s, id, k, t)
<1>1. Misfit
  <2>1. program[id].kind = "sequence" BY DEF During
  <2>2. slot[k] = id /\ id # NULL /\ k # NO_OUTPUT /\ k \in Slots BY OutputFacts DEF Seated
  <2> QED BY <2>1, <2>2 DEF Misfit
<1>2. s \in TickStates /\ NULL \notin Outputs BY OutputFacts DEF During, Good
<1>3. then = Stopped(s, id, p) BY <1>2, WritesThen
<1>4. dark = Stopped(s, id, p) /\ dark.raised BY <1>2, WriteStops
<1>5. tick = IF ~p.started THEN then ELSE IF t < p.next THEN s ELSE IF dark.raised THEN dark ELSE more
  BY NoSeat
<1>6. Ticked(s, Stopped(s, id, p), id, t) BY <1>1, StopKeeps
<1> HIDE DEF then, dark, more, tick, p
<1>7. tick = s \/ tick = Stopped(s, id, p) BY <1>3, <1>4, <1>5
<1>8. Ticked(s, tick, id, t) BY <1>6, <1>7, Unticked
<1> QED BY <1>8 DEF tick
(* A step names an output there is, or the sequence is a misfit.            *)
LEMMA StepIs ==
  ASSUME NEW s, NEW t \in Nat, During(s, t), NEW id \in Ids, Seated(NO_OUTPUT, id),
         s.program[id].kind = "sequence", NEW i \in 1 .. StepCount(s.program[id].arg)
  PROVE  /\ OutputOf(s.program[id], i) \in Outputs \/ Misfit
         /\ GreyOf(s.program[id], i) \in [1 .. 3 -> Levels]
<1> DEFINE p == s.program[id]
           o == OutputOf(p, i)
<1>1. p.kind = "sequence" /\ Well(p, t) /\ p.arg = program[id].arg /\ program[id].kind = "sequence"
  BY DEF During, Good
<1>2. i \in 1 .. 8 /\ p.arg[<<"output", i>>] # 255 BY StepsCounted
<1>3. Small(p.arg[<<"output", i>>]) /\ Small(p.arg[<<"value", i>>]) BY <1>1, <1>2 DEF Well, ArgFits
<1>4. GreyOf(p, i) \in [1 .. 3 -> Levels] BY <1>3, GreyIs DEF GreyOf
<1>5. o \in Outputs \/ o \in N .. 254
  <2>1. N \in 1 .. 8 BY OutputFacts
  <2>2. o \in Nat /\ o < 256 /\ o # 255 BY <1>2, <1>3 DEF OutputOf, Small
  <2> HIDE DEF o
  <2> QED BY <2>1, <2>2 DEF Outputs
<1>6. ASSUME o \in N .. 254 PROVE Misfit
  <2>1. slot[NO_OUTPUT] = id /\ id # NULL /\ NO_OUTPUT \in Slots BY OutputFacts DEF Seated
  <2>2. i \in 1 .. SEQUENCE_MAX BY <1>2 DEF SEQUENCE_MAX
  <2>3. program[id].arg[<<"output", i>>] \in (N .. 254) BY <1>1, <1>6 DEF OutputOf
  <2> QED BY <1>1, <2>1, <2>2, <2>3 DEF Misfit
<1> QED BY <1>4, <1>5, <1>6

LEMMA Seats ==
  ASSUME NEW s, NEW id \in Ids, Seated(NO_OUTPUT, id)
  PROVE  id = NO_OUTPUT /\ \A o \in Outputs : s.writer[o] = id => Wrote(s, id, o)
<1>1. NO_OUTPUT \notin Outputs /\ id = NO_OUTPUT /\ slot[NO_OUTPUT] = id BY OutputFacts DEF Seated
<1>2. InUse(id) BY <1>1, OutputFacts DEF InUse
<1> QED BY <1>1, <1>2, OutputFacts DEF Wrote
(* The outputs a sequence wrote are dark, except for its current one.       *)
LEMMA OthersDark ==
  ASSUME NEW s, NEW t, During(s, t), NEW id \in Ids, Seated(NO_OUTPUT, id), s.program[id].kind = "sequence",
         NEW o \in Outputs, s.writer[o] = id, o # OutputOf(s.program[id], s.program[id].current)
  PROVE  s.out[o] = ShownRGB(o, Grey(0), s.out[o])
<1>1. Wrote(s, id, o) BY Seats
<1>2. PhaseOf(s.program[id], o, s.out[o]) BY <1>1 DEF During, Good
<1>3. Level(s.program[id], o) = 0 BY DEF Level, OutputOf
<1> QED BY <1>2, <1>3 DEF PhaseOf
LEMMA SequenceBegins ==
  ASSUME NEW s, NEW t \in Nat, During(s, t), ~s.raised, NEW id \in Ids, Seated(NO_OUTPUT, id),
         s.program[id].kind = "sequence", ~s.program[id].started
  PROVE  Ticked(s, TickSequence(s, id, NO_OUTPUT, t), id, t)
<1> DEFINE p == s.program[id]
           o == OutputOf(p, 1)
           rgb == GreyOf(p, 1)
           q == Step(p, t, 1)
<1>1. TickSequence(s, id, NO_OUTPUT, t) = Then(Write(s, id, o, rgb), id, q) BY TickSequenceIs
<1>2. s \in TickStates /\ Well(p, t) /\ p.kind = "sequence" /\ p.current = 1 /\ s.raised \in BOOLEAN
  BY DEF During, Good, Well, TickStates
<1>3. 1 \in 1 .. StepCount(p.arg) BY <1>2 DEF Well, ArgFits
<1>4. (o \in Outputs \/ Misfit) /\ rgb \in [1 .. 3 -> Levels] BY <1>3, StepIs
<1>5. Continues(s, id, q, t) /\ q.current = 1 BY <1>3, StepContinues
<1>6. q.kind = "sequence" /\ q.arg = p.arg BY <1>2, <1>5 DEF Continues
<1>7. CASE o \notin Outputs
  <2>1. Ticked(s, Stopped(s, id, p), id, t) BY <1>4, <1>7, StopKeeps
  <2> QED BY <1>1, <1>2, <1>7, <2>1, WritesThen
<1>8. CASE o \in Outputs
  <2> DEFINE a == Paint(s.out, o, rgb)
             c == Sign(s.writer, o, id)
             b == s.raised
  <2>1. Canvas(s.out, s.writer) BY <1>2 DEF Canvas, TickStates, During, Good
  <2>2. Painted(s.out, s.writer, a, c, o, rgb, id) BY <1>4, <1>8, <2>1, Paints
  <2>3. Then(Write(s, id, o, rgb), id, q) = Made(a, [s.program EXCEPT ![id] = q], c, b)
    BY <1>2, <1>8, WritesThen DEF Lit, Paint, Sign
  <2>4. id = NO_OUTPUT BY Seats
  <2> HIDE DEF a, c
  <2>5. ASSUME NEW x \in Outputs, c[x] = id PROVE a[x] = ShownRGB(x, Grey(Level(q, x)), a[x])
    <3>1. CASE x = o
      <4>1. Grey(Level(q, x)) = rgb BY <1>5, <1>6, <3>1 DEF Level, OutputOf, GreyOf
      <4> QED BY <2>2, <3>1, <4>1 DEF Painted
    <3>2. CASE x # o
      <4>1. Level(q, x) = 0 BY <1>5, <1>6, <3>2 DEF Level, OutputOf
      <4>2. a[x] = s.out[x] /\ s.writer[x] = id BY <2>2, <2>5, <3>2 DEF Painted
      <4>3. x # OutputOf(p, p.current) BY <1>2, <3>2
      <4>4. s.out[x] = ShownRGB(x, Grey(0), s.out[x]) BY <4>2, <4>3, OthersDark
      <4> QED BY <4>1, <4>2, <4>4
    <3> QED BY <3>1, <3>2
  <2>6. \A x \in Outputs : c[x] # id => a[x] = s.out[x] /\ c[x] = s.writer[x] BY <2>2 DEF Painted
  <2>7. Canvas(a, c) BY <2>2 DEF Painted
  <2>8. b \in BOOLEAN /\ (b => Misfit) BY <1>2
  <2> HIDE DEF b, q
  <2>9. Ticked(s, Made(a, [s.program EXCEPT ![id] = q], c, b), id, t)
    BY <1>5, <1>6, <2>4, <2>5, <2>6, <2>7, <2>8, SequenceMoves
  <2> QED BY <1>1, <2>3, <2>9 DEF q
<1> QED BY <1>7, <1>8

LEMMA SequenceTurns ==
  ASSUME NEW s, NEW t \in Nat, During(s, t), ~s.raised, NEW id \in Ids, Seated(NO_OUTPUT, id),
         s.program[id].kind = "sequence", s.program[id].started, ~(t < s.program[id].next)
  PROVE  Ticked(s, TickSequence(s, id, NO_OUTPUT, t), id, t)
<1> DEFINE p == s.program[id]
           following == (p.current % StepCount(p.arg)) + 1
           here == OutputOf(p, p.current)
           there == OutputOf(p, following)
           rgb == GreyOf(p, following)
           dark == Write(s, id, here, Black)
           half == Turn(p, following)
           q == Step(p, t, following)
           a1 == Paint(s.out, here, Black)
           c1 == Sign(s.writer, here, id)
           m == Put(dark, id, Turn(dark.program[id], following))
           tick == TickSequence(s, id, NO_OUTPUT, t)
<1>1. /\ s \in TickStates /\ s.program \in [Ids -> Programs] /\ s.raised \in BOOLEAN
      /\ Well(p, t) /\ p.kind = "sequence" /\ p.current \in 1 .. StepCount(p.arg)
  BY DEF During, Good, Well, TickStates
<1>2. following \in 1 .. StepCount(p.arg)
  <2> DEFINE n == StepCount(p.arg)
  <2>1. n \in Nat /\ n > 0 BY <1>1 DEF Well, ArgFits
  <2>2. p.current \in Nat BY <1>1, <2>1
  <2> DEFINE c == p.current
  <2> HIDE DEF n, c
  <2>3. c \in Nat => (c % n) + 1 \in 1 .. n BY <2>1
  <2> QED BY <2>2, <2>3 DEF n, c
<1>3. tick = IF dark.raised THEN dark ELSE Then(Write(m, id, there, rgb), id, q) BY TickSequenceIs
<1>4. id = NO_OUTPUT BY Seats
<1>5. /\ here \in Outputs \/ Misfit
      /\ there \in Outputs \/ Misfit
      /\ rgb \in [1 .. 3 -> Levels]
  BY <1>1, <1>2, StepIs
<1>6. CASE here \notin Outputs
  <2>1. dark = Stopped(s, id, p) /\ dark.raised BY <1>1, <1>6, WriteStops
  <2>2. Ticked(s, Stopped(s, id, p), id, t) BY <1>5, <1>6, StopKeeps
  <2> HIDE DEF tick, dark, m
  <2>3. Ticked(s, tick, id, t) BY <1>3, <2>1, <2>2
  <2> QED BY <2>3 DEF tick
<1>7. CASE here \in Outputs
  <2> DEFINE b0 == s.program
             d == s.raised
             b1 == [b0 EXCEPT ![id] = half]
  <2>1. dark = Made(a1, b0, c1, d) BY <1>1, <1>7, TickStateIs, WriteIs DEF WritesAs, Paint, Sign
  <2>2. Canvas(s.out, s.writer) BY <1>1 DEF Canvas, TickStates, During, Good
  <2>3. Painted(s.out, s.writer, a1, c1, here, Black, id) BY <1>7, <2>2, BlackIs, Paints
  <2>4. Holds(dark, a1, b0, c1, d)
    <3> HIDE DEF dark, a1, b0, c1, d
    <3> QED BY <2>1, MadeHolds
  <2>5. ~dark.raised
    <3> HIDE DEF dark
    <3> QED BY <2>4 DEF Holds
  <2>6. m = Made(a1, b1, c1, d)
    <3>1. dark.program[id] = p
      <4> HIDE DEF dark
      <4> QED BY <2>4 DEF Holds
    <3>2. m = Put(dark, id, half) BY <3>1
    <3> HIDE DEF m, dark, half, a1, c1
    <3>3. m = Made(dark.out, [dark.program EXCEPT ![id] = half], dark.writer, dark.raised)
      BY <2>4, <3>2, Puts DEF Holds
    <3> QED BY <2>4, <3>3 DEF Holds
  <2>7. Continues(s, id, half, t) /\ half.current = following
    BY <1>1, <1>2, StepContinues
  <2>8. Continues(s, id, q, t) /\ q.current = following
    BY <1>1, <1>2, StepContinues
  <2>9. half.arg = p.arg /\ half.kind = "sequence" /\ q.arg = p.arg /\ q.kind = "sequence"
    BY <1>1, <2>7, <2>8 DEF Continues
  <2>10. Holds(m, a1, b1, c1, d)
    <3> HIDE DEF m, a1, b1, c1, d
    <3> QED BY <2>6, MadeHolds
  <2>11. m \in TickStates
    <3>1. half \in Programs BY <2>7 DEF Continues, Well
    <3> HIDE DEF m, half, a1, c1
    <3>2. b1 \in [Ids -> Programs] BY <1>1, <3>1
    <3>3. a1 \in [Outputs -> Looks] /\ c1 \in [Outputs -> Ids \cup {NULL}] /\ d \in BOOLEAN
      BY <1>1, <2>3 DEF Painted, Canvas
    <3> HIDE DEF b1, d
    <3>4. Made(a1, b1, c1, d) \in TickStates BY <3>2, <3>3 DEF Made, TickStates
    <3> QED BY <2>6, <3>4
  <2>12. tick = Then(Write(m, id, there, rgb), id, q)
    <3> HIDE DEF tick, dark, m, there, rgb, q
    <3> QED BY <1>3, <2>5
  <2>13. m.out = a1 /\ m.program = b1 /\ m.writer = c1 /\ m.raised = d /\ ~m.raised
    <3> HIDE DEF m, a1, b1, c1
    <3> QED BY <2>10 DEF Holds
  <2>14. ASSUME NEW x \in Outputs, c1[x] = id PROVE a1[x] = ShownRGB(x, Grey(0), a1[x])
    <3> HIDE DEF a1, c1
    <3>1. CASE x = here BY <2>3, <3>1, BlackIs DEF Painted
    <3>2. CASE x # here
      <4>1. a1[x] = s.out[x] /\ s.writer[x] = id BY <2>3, <2>14, <3>2 DEF Painted
      <4>2. s.out[x] = ShownRGB(x, Grey(0), s.out[x]) BY <1>1, <3>2, <4>1, OthersDark
      <4> QED BY <4>1, <4>2
    <3> QED BY <3>1, <3>2
  <2>15. \A x \in Outputs : c1[x] # id => a1[x] = s.out[x] /\ c1[x] = s.writer[x]
    <3> HIDE DEF a1, c1
    <3> QED BY <2>3 DEF Painted
  <2>16. Canvas(a1, c1)
    <3> HIDE DEF a1, c1
    <3> QED BY <2>3 DEF Painted
  <2>17. CASE there \notin Outputs
    <3> HIDE DEF m, a1, c1, q, rgb
    <3>1. tick = Stopped(m, id, m.program[id])
      <4> HIDE DEF tick, there
      <4>1. ~m.raised BY <2>13
      <4>2. Then(Write(m, id, there, rgb), id, q) = Stopped(m, id, m.program[id])
        BY <2>11, <2>17, <4>1, WritesThen
      <4> QED BY <2>12, <4>2
    <3>2. m.program[id] = half BY <1>1, <2>13
    <3>3. tick = Made(a1, [b0 EXCEPT ![id] = half], c1, TRUE)
      <4> HIDE DEF tick, half
      <4>1. [b1 EXCEPT ![id] = half] = b1 BY <1>1
      <4> QED BY <2>13, <3>1, <3>2, <4>1 DEF Stopped
    <3>4. \A x \in Outputs : Level(half, x) = 0 BY <2>7, <2>9, <2>17 DEF Level, OutputOf
    <3>5. \A x \in Outputs : /\ c1[x] = id => a1[x] = ShownRGB(x, Grey(Level(half, x)), a1[x])
                             /\ c1[x] # id => a1[x] = s.out[x] /\ c1[x] = s.writer[x]
      BY <2>14, <2>15, <3>4
    <3> DEFINE b == TRUE
    <3>6. Misfit /\ b \in BOOLEAN BY <1>5, <2>17
    <3> HIDE DEF half, b
    <3>7. Ticked(s, Made(a1, [s.program EXCEPT ![id] = half], c1, b), id, t)
      BY <1>4, <2>7, <2>9, <2>16, <3>5, <3>6, SequenceMoves
    <3> QED BY <3>3, <3>7 DEF b
  <2>18. CASE there \in Outputs
    <3> DEFINE a == Paint(a1, there, rgb)
               c == Sign(c1, there, id)
    <3> HIDE DEF m, a1, c1, q, half
    <3>1. tick = Lit(m, id, q, there, rgb)
      <4> HIDE DEF tick
      <4> QED BY <2>11, <2>12, <2>13, <2>18, WritesThen
    <3>2. tick = Made(a, [b0 EXCEPT ![id] = q], c, d)
      <4> HIDE DEF tick
      <4>1. [b1 EXCEPT ![id] = q] = [b0 EXCEPT ![id] = q] BY <1>1
      <4> HIDE DEF b1, b0, d
      <4> QED BY <2>13, <3>1, <4>1 DEF Lit, Paint, Sign
    <3>3. Painted(a1, c1, a, c, there, rgb, id) BY <1>5, <2>16, <2>18, Paints
    <3> HIDE DEF a, c
    <3>4. ASSUME NEW x \in Outputs, c[x] = id PROVE a[x] = ShownRGB(x, Grey(Level(q, x)), a[x])
      <4>1. CASE x = there
        <5>1. Grey(Level(q, x)) = rgb BY <2>8, <2>9, <4>1 DEF Level, OutputOf, GreyOf
        <5> QED BY <3>3, <4>1, <5>1 DEF Painted
      <4>2. CASE x # there
        <5>1. Level(q, x) = 0 BY <2>8, <2>9, <4>2 DEF Level, OutputOf
        <5>2. a[x] = a1[x] /\ c1[x] = id BY <3>3, <3>4, <4>2 DEF Painted
        <5> QED BY <2>14, <5>1, <5>2
      <4> QED BY <4>1, <4>2
    <3>5. \A x \in Outputs : c[x] # id => a[x] = s.out[x] /\ c[x] = s.writer[x]
      <4> SUFFICES ASSUME NEW x \in Outputs, c[x] # id PROVE a[x] = s.out[x] /\ c[x] = s.writer[x] OBVIOUS
      <4>1. x # there /\ a[x] = a1[x] /\ c[x] = c1[x] BY <3>3 DEF Painted
      <4> QED BY <2>15, <4>1
    <3>6. Canvas(a, c) BY <3>3 DEF Painted
    <3>7. d \in BOOLEAN /\ (d => Misfit) BY <1>1
    <3> HIDE DEF d
    <3>8. Ticked(s, Made(a, [s.program EXCEPT ![id] = q], c, d), id, t)
      BY <1>4, <2>8, <2>9, <3>4, <3>5, <3>6, <3>7, SequenceMoves
    <3> QED BY <3>2, <3>8
  <2> QED BY <2>17, <2>18
<1> QED BY <1>6, <1>7
LEMMA SequenceKeeps ==
  ASSUME NEW s, NEW t \in Nat, During(s, t), ~s.raised, NEW k \in Slots, NEW id \in Ids, Seated(k, id),
         s.program[id].kind = "sequence"
  PROVE  Ticked(s, TickSequence(s, id, k, t), id, t)
<1>1. CASE k \in Outputs BY <1>1, SequenceMisfit
<1>2. CASE k = NO_OUTPUT
  <2>1. CASE ~s.program[id].started BY <1>2, <2>1, SequenceBegins
  <2>2. CASE s.program[id].started /\ t < s.program[id].next
    <3>1. TickSequence(s, id, NO_OUTPUT, t) = s BY <2>2, TickSequenceIs
    <3> QED BY <1>2, <3>1, Unticked
  <2>3. CASE s.program[id].started /\ ~(t < s.program[id].next) BY <1>2, <2>3, SequenceTurns
  <2> QED BY <2>1, <2>2, <2>3
<1> QED BY <1>1, <1>2 DEF Slots

-----------------------------------------------------------------------------
(* One tick.                                                                *)
SlotsFit ==
  /\ slot \in [Slots -> Ids \cup {NULL}]
  /\ \A k \in Slots : slot[k] # NULL => Seated(k, slot[k])
Used == \A id \in Ids : program[id].kind = "none" <=> ~InUse(id)
LEMMA TickKeeps ==
  ASSUME NEW s, NEW t \in Nat, During(s, t), SlotsFit, Used, NEW k \in Slots
  PROVE  /\ During(Tick(s, k, t), t)
         /\ \A o \in Outputs : (k = o \/ Ended(s, o, t)) /\ ~Tick(s, k, t).raised => Ended(Tick(s, k, t), o, t)
<1> DEFINE id == slot[k]
           r == Tick(s, k, t)
<1>1. CASE s.raised
  <2>1. r = s BY <1>1 DEF Tick
  <2> HIDE DEF r
  <2> QED BY <1>1, <2>1 DEF r
<1>2. CASE id = NULL
  <2>1. r = s BY <1>2 DEF Tick
  <2>2. Ended(s, k, t) BY <1>2, OutputFacts DEF Ended, Ids
  <2> HIDE DEF r
  <2> QED BY <2>1, <2>2 DEF r
<1>3. CASE ~s.raised /\ id # NULL
  <2>1. id \in Ids /\ Seated(k, id) /\ InUse(id) BY <1>3 DEF SlotsFit, InUse
  <2>2. program[id].kind # "none" /\ program[id].kind = s.program[id].kind /\ s.program[id] \in Programs
    BY <2>1 DEF Used, During, Good, Well
  <2>3. \/ program[id].kind = "blink" \/ program[id].kind = "timed" \/ program[id].kind = "fade"
        \/ program[id].kind = "sequence"
    BY <2>2 DEF Programs, Kinds
  <2>4. Ticked(s, r, id, t) /\ (s.program[id].kind = "fade" /\ k \in Outputs => Ended(r, k, t))
    <3>1. CASE program[id].kind = "blink"
      <4>1. r = TickBlink(s, id, k, t) BY <1>3, <3>1 DEF Tick
      <4> HIDE DEF r, id
      <4> QED BY <1>3, <2>1, <2>2, <3>1, <4>1, BlinkKeeps
    <3>2. CASE program[id].kind = "timed"
      <4>1. r = TickTimed(s, id, k, t) BY <1>3, <3>2 DEF Tick
      <4> HIDE DEF r, id
      <4> QED BY <1>3, <2>1, <2>2, <3>2, <4>1, TimedKeeps
    <3>3. CASE program[id].kind = "fade"
      <4>1. r = TickFade(s, id, k, t) BY <1>3, <3>3 DEF Tick
      <4> HIDE DEF r, id
      <4> QED BY <1>3, <2>1, <2>2, <3>3, <4>1, FadeKeeps
    <3>4. CASE program[id].kind = "sequence"
      <4>1. r = TickSequence(s, id, k, t) BY <1>3, <3>4 DEF Tick
      <4> HIDE DEF r, id
      <4> QED BY <1>3, <2>1, <2>2, <3>4, <4>1, SequenceKeeps
    <3> QED BY <2>3, <3>1, <3>2, <3>3, <3>4
  <2>5. During(r, t) /\ Confined(s, r, id) BY <2>4 DEF Ticked
  <2> HIDE DEF r
  <2>6. ASSUME NEW o \in Outputs, k = o \/ Ended(s, o, t) PROVE Ended(r, o, t)
    <3> SUFFICES ASSUME r.writer[o] = o, slot[o] = o, r.program[o].kind = "fade" PROVE Ended(r, o, t)
      BY DEF Ended
    <3>1. CASE k = o
      <4>1. id = o BY <3>1
      <4>2. s.program[id].kind = "fade" BY <2>1, <2>2, <2>5, <4>1 DEF During
      <4> QED BY <2>4, <3>1, <4>2
    <3>2. CASE k # o
      <4>1. id # o BY <2>1, <3>2, OutputFacts DEF Seated
      <4>2. o \in Ids BY OutputFacts
      <4>3. r.program[o] = s.program[o] /\ r.out[o] = s.out[o] /\ r.writer[o] = s.writer[o]
        BY <2>5, <4>1, <4>2 DEF Confined
      <4>4. Ended(s, o, t) BY <2>6, <3>2
      <4> QED BY <4>3, <4>4 DEF Ended
    <3> QED BY <3>1, <3>2
  <2> QED BY <2>5, <2>6 DEF r
<1> QED BY <1>1, <1>2, <1>3

(* A run of all the programs.                                               *)
TicksFrom(run, t) ==
  /\ run[0] = Untouched
  /\ \A i \in 0 .. N : During(run[i], t) /\ run[i + 1] = Tick(run[i], SlotOrder[i + 1], t)
  /\ During(run[N + 1], t)
LEMMA OrderIs == \A i \in 1 .. N + 1 : SlotOrder[i] \in Slots /\ (i <= N => SlotOrder[i] = i - 1)
<1>1. N \in 1 .. 8 BY OutputFacts
<1>2. ASSUME NEW i \in 1 .. N + 1 PROVE SlotOrder[i] \in Slots /\ (i <= N => SlotOrder[i] = i - 1)
  <2>1. SlotOrder[i] = IF i <= N THEN i - 1 ELSE NO_OUTPUT BY DEF SlotOrder
  <2>2. i <= N => i - 1 \in Outputs BY <1>1 DEF Outputs
  <2> QED BY <2>1, <2>2 DEF Slots
<1> QED BY <1>2
LEMMA TicksRun ==
  ASSUME NEW t \in Nat, During(Untouched, t), SlotsFit, Used
  PROVE  TicksFrom(TicksUpTo(t), t)
<1> DEFINE n == N + 1
           e(f, i) == IF i = 0 THEN Untouched ELSE Tick(f[i - 1], SlotOrder[i], t)
           Same(f) == f = [i \in 0 .. n |-> e(f, i)]
           run == CHOOSE f : Same(f)
           R == {s \in TickStates : During(s, t)}
           step == [x \in Int \X R |-> IF x[1] \in 1 .. n THEN Tick(x[2], SlotOrder[x[1]], t) ELSE x[2]]
<1>1. n \in Nat /\ n \in Int /\ 0 \in Int /\ n = N + 1 /\ N \in Nat BY OutputFacts
<1>2. \A s \in R : \A i \in 1 .. n : Tick(s, SlotOrder[i], t) \in R
  <2> SUFFICES ASSUME NEW s \in R, NEW i \in 1 .. n PROVE Tick(s, SlotOrder[i], t) \in R OBVIOUS
  <2> DEFINE k == SlotOrder[i]
             r == Tick(s, k, t)
  <2>1. k \in Slots /\ During(s, t) BY OrderIs
  <2> HIDE DEF k
  <2>2. During(r, t) BY <2>1, TickKeeps
  <2> HIDE DEF r
  <2>3. r \in R BY <2>2 DEF During, Good
  <2> QED BY <2>3 DEF r, k
<1>3. step \in [Int \X R -> R]
  <2> SUFFICES ASSUME NEW i \in Int, NEW s \in R
               PROVE  (IF i \in 1 .. n THEN Tick(s, SlotOrder[i], t) ELSE s) \in R
    OBVIOUS
  <2> HIDE DEF n, R
  <2> QED BY <1>2
<1>4. Untouched \in R BY DEF During, Good
<1> HIDE DEF R, n
<1>5. PICK g \in [0 .. n -> R] : Recurs(g, Untouched, step, 0, n)
  <2> DEFINE base == Untouched
  <2>1. Iterates(R, base, step, 0, n) BY <1>1, <1>3, <1>4 DEF Iterates
  <2> HIDE DEF step, base
  <2>2. \E g \in [0 .. n -> R] : Recurs(g, base, step, 0, n) BY <2>1, Recursion
  <2> QED BY <2>2 DEF base
<1>6. \A i \in 0 .. n : g[i] = e(g, i)
  <2> SUFFICES ASSUME NEW i \in 0 .. n PROVE g[i] = IF i = 0 THEN Untouched ELSE Tick(g[i - 1], SlotOrder[i], t)
    OBVIOUS
  <2>1. g[i] = IF i = 0 THEN Untouched ELSE step[<<i, g[i - 1]>>]
    <3> HIDE DEF step
    <3> QED BY <1>5 DEF Recurs
  <2>2. CASE i = 0
    <3> HIDE DEF step
    <3> QED BY <2>1, <2>2
  <2>3. CASE i # 0
    <3>1. i - 1 \in 0 .. n /\ i \in Int /\ i \in 1 .. n BY <1>1, <2>3
    <3>2. g[i - 1] \in R BY <3>1
    <3>3. step[<<i, g[i - 1]>>] = Tick(g[i - 1], SlotOrder[i], t) BY <3>1, <3>2
    <3> HIDE DEF step
    <3> QED BY <2>1, <2>3, <3>3
  <2> QED BY <2>2, <2>3
<1> HIDE DEF step
<1>7. Same(g)
  <2> HIDE DEF e
  <2>2. g = [i \in 0 .. n |-> g[i]] OBVIOUS
  <2> QED BY <1>6, <2>2
<1>8. Same(run)
  <2> HIDE DEF Same
  <2> QED BY <1>7
<1>9. TicksUpTo(t) = run BY DEF TicksUpTo, n
<1>10. \A i \in 0 .. n : run[i] = e(run, i)
  <2>1. run = [i \in 0 .. n |-> e(run, i)] BY <1>8
  <2> HIDE DEF run, e
  <2> QED BY <2>1
<1> HIDE DEF run
<1>11. \A i \in 0 .. n : run[i] \in R
  <2> DEFINE S == {i \in Nat : i <= n => run[i] \in R}
  <2>1. 0 \in S
    <3>1. 0 \in 0 .. n BY <1>1
    <3>2. run[0] = Untouched BY <1>10, <3>1
    <3> QED BY <1>4, <3>2
  <2>2. ASSUME NEW i \in Nat, i \in S PROVE i + 1 \in S
    <3> SUFFICES ASSUME i + 1 <= n PROVE run[i + 1] \in R OBVIOUS
    <3>1. i + 1 \in 0 .. n /\ i + 1 \in 1 .. n /\ i + 1 # 0 /\ (i + 1) - 1 = i /\ i <= n BY <1>1
    <3>2. run[i] \in R BY <2>2, <3>1
    <3>3. run[i + 1] = Tick(run[i], SlotOrder[i + 1], t) BY <1>10, <3>1
    <3> QED BY <1>2, <3>1, <3>2, <3>3
  <2>3. Nat \subseteq S
    <3> HIDE DEF S
    <3> QED BY <2>1, <2>2, Induction
  <2> QED BY <2>3
<1>12. run[0] = Untouched
  <2>1. 0 \in 0 .. n BY <1>1
  <2> QED BY <1>10, <2>1
<1>13. ASSUME NEW i \in 0 .. N PROVE During(run[i], t) /\ run[i + 1] = Tick(run[i], SlotOrder[i + 1], t)
  <2>1. i \in 0 .. n /\ i + 1 \in 0 .. n /\ i + 1 # 0 /\ (i + 1) - 1 = i BY <1>1
  <2>2. During(run[i], t) BY <1>11, <2>1 DEF R
  <2>3. run[i + 1] = Tick(run[i], SlotOrder[i + 1], t) BY <1>10, <2>1
  <2> QED BY <2>2, <2>3
<1>14. During(run[N + 1], t)
  <2>1. N + 1 \in 0 .. n BY <1>1
  <2> QED BY <1>11, <2>1 DEF R
<1> QED BY <1>9, <1>12, <1>13, <1>14 DEF TicksFrom
LEMMA RunKeeps ==
  ASSUME NEW t \in Nat, During(Untouched, t), SlotsFit, Used
  PROVE  /\ During(RunPrograms(t), t)
         /\ ~RunPrograms(t).raised => \A o \in Outputs : Ended(RunPrograms(t), o, t)
<1> DEFINE run == TicksUpTo(t)
           Done(i) == ~run[i].raised => \A o \in Outputs : o < i => Ended(run[i], o, t)
           S == {i \in Nat : i <= N + 1 => Done(i)}
<1>1. TicksFrom(run, t) BY TicksRun
<1> HIDE DEF run
<1>2. N \in Nat /\ \A o \in Outputs : o \in Nat /\ o < N BY OutputFacts DEF Outputs
<1>3. 0 \in S BY <1>2
<1>4. ASSUME NEW i \in Nat, i \in S PROVE i + 1 \in S
  <2> SUFFICES ASSUME i + 1 <= N + 1, ~run[i + 1].raised, NEW o \in Outputs, o < i + 1
               PROVE  Ended(run[i + 1], o, t)
    OBVIOUS
  <2> DEFINE k == SlotOrder[i + 1]
             s == run[i]
             r == Tick(s, k, t)
  <2>1. i \in 0 .. N /\ i + 1 \in 1 .. N + 1 BY <1>2
  <2>2. k \in Slots /\ (o = i => k = o)
    <3>1. SlotOrder[i + 1] \in Slots /\ (i + 1 <= N => SlotOrder[i + 1] = (i + 1) - 1) BY <2>1, OrderIs
    <3> QED BY <1>2, <3>1
  <2>3. During(s, t) /\ run[i + 1] = r BY <1>1, <2>1 DEF TicksFrom
  <2>4. s.raised => r = s BY DEF Tick
  <2>5. ~r.raised /\ ~s.raised
    <3> HIDE DEF r
    <3> QED BY <2>3, <2>4
  <2>6. k = o \/ Ended(s, o, t)
    <3>1. CASE o = i BY <2>2, <3>1
    <3>2. CASE o # i
      <4>1. o < i /\ i <= N + 1 BY <1>2, <3>2
      <4> QED BY <1>4, <2>5, <4>1
    <3> QED BY <3>1, <3>2
  <2> HIDE DEF k, s
  <2>7. Ended(r, o, t) BY <2>2, <2>3, <2>5, <2>6, TickKeeps
  <2> HIDE DEF r
  <2> QED BY <2>3, <2>7
<1>5. Nat \subseteq S
  <2> HIDE DEF S
  <2> QED BY <1>3, <1>4, Induction
<1>6. N + 1 \in Nat /\ \A o \in Outputs : o < N + 1 BY <1>2
<1>7. Done(N + 1) BY <1>5, <1>6
<1>8. RunPrograms(t) = run[N + 1] BY DEF RunPrograms, run
<1> QED BY <1>1, <1>6, <1>7, <1>8 DEF TicksFrom

-----------------------------------------------------------------------------
(* The inductive invariant: the types; an object is in the slot it was      *)
(* installed for, or in every output's; the objects no slot refers to are   *)
(* blank; every object's state is one its program goes through, and what it *)
(* wrote last shows that state; and unless the last run was cut short every *)
(* fade whose time is over shows where it ends.                             *)
Basic ==
  /\ virtual \in BOOLEAN /\ ticking \in BOOLEAN /\ cut \in BOOLEAN /\ now \in 0 .. MaxNow
  /\ reply \in {"ok", "error"} /\ (~virtual => reply = "ok")
Wrote1(id, o) == writer[o] = id /\ id # NULL /\ id # ALL_OUTPUTS /\ InUse(id)
Sound ==
  /\ out \in [Outputs -> Looks] /\ program \in [Ids -> Programs] /\ writer \in [Outputs -> Ids \cup {NULL}]
  /\ \A o \in Outputs : Fits(o, out[o])
  /\ \A id \in Ids : Well(program[id], now)
  /\ \A o \in Outputs : \A id \in Ids :
       Wrote1(id, o) => Own(program[id], id, o) /\ PhaseOf(program[id], o, out[o])
Finished(o) ==
  writer[o] = o /\ slot[o] = o /\ program[o].kind = "fade" /\ Over(program[o], now) =>
    out[o] = ShownRGB(o, RGB(program[o].arg.stop_value), out[o])
Finishes == ~cut => \A o \in Outputs : Finished(o)
IInv == Basic /\ SlotsFit /\ Used /\ Sound /\ Finishes

LEMMA UntouchedIs ==
  Untouched.out = out /\ Untouched.program = program /\ Untouched.writer = writer /\ ~Untouched.raised
BY DEF Untouched
LEMMA SoundStarts == ASSUME Sound, now \in Nat, NEW t \in Nat, now <= t PROVE During(Untouched, t)
<1>1. Untouched \in TickStates BY DEF Sound, Untouched, TickStates
<1>2. ASSUME NEW id \in Ids PROVE Well(program[id], t)
  <2>1. Well(program[id], now) BY DEF Sound
  <2>2. program[id].origin \in Nat BY <2>1 DEF Well, Programs
  <2> QED BY <2>1, <2>2 DEF Well
<1>3. \A o \in Outputs : \A id \in Ids :
        Wrote(Untouched, id, o) => Own(program[id], id, o) /\ PhaseOf(program[id], o, out[o])
  BY UntouchedIs DEF Wrote, Wrote1, Sound
<1>4. \A o \in Outputs : Fits(o, out[o]) BY DEF Sound
<1>5. Good(Untouched, t) BY <1>1, <1>2, <1>3, <1>4, UntouchedIs DEF Good
<1> QED BY <1>5, UntouchedIs DEF During

LEMMA BlankIs ==
  /\ Blank \in Programs /\ Blank.kind = "none"
  /\ \A t \in Nat : Well(Blank, t)
<1>1. /\ Blank.kind = "none" /\ Blank.arg = NULL /\ Blank.started = FALSE /\ Blank.on = TRUE /\ Blank.next = 0
      /\ Blank.current = 1 /\ Blank.origin = 0
  BY DEF Blank
<1>2. Blank \in Programs
  <2>1. NULL \in Args BY DEF Args
  <2>2. "none" \in Kinds BY DEF Kinds
  <2>3. FALSE \in BOOLEAN /\ TRUE \in BOOLEAN /\ 0 \in Nat /\ 1 \in 1 .. 8 OBVIOUS
  <2> QED BY <2>1, <2>2, <2>3 DEF Blank, Programs
<1>3. \A t \in Nat : Well(Blank, t) BY <1>1, <1>2 DEF Well, ArgFits, NoDrift
<1> QED BY <1>1, <1>2, <1>3
LEMMA ParsedIs ==
  ASSUME NEW q \in Requests, Received[q].type = 3, Received[q].program # NULL, NEW t \in Nat
  PROVE  Well(Received[q].program, t) /\ Received[q].program.kind # "none"
<1> DEFINE p == Received[q].program
<1>1. Parsed(p) BY ReceivedFits
<1>2. p.arg \in Args BY DEF Args
<1> HIDE DEF p
<1>a. PICK kind \in {"blink", "timed", "fade", "sequence"} :
        \E arg : p = [Blank EXCEPT !.kind = kind, !.arg = arg] /\ ArgFits(kind, arg)
  BY <1>1 DEF Parsed
<1>3. PICK arg : p = [Blank EXCEPT !.kind = kind, !.arg = arg] /\ ArgFits(kind, arg) BY <1>a
<1>4. /\ p.kind = kind /\ p.arg = arg /\ p.started = FALSE /\ p.on = TRUE /\ p.next = 0
      /\ p.current = 1 /\ p.origin = 0
      /\ p = [kind |-> kind, arg |-> arg, started |-> FALSE, on |-> TRUE, next |-> 0, current |-> 1, origin |-> 0]
  BY <1>3 DEF Blank
<1>5. p \in Programs
  <2>1. kind \in Kinds /\ arg \in Args BY <1>2, <1>4 DEF Kinds
  <2>2. FALSE \in BOOLEAN /\ TRUE \in BOOLEAN /\ 0 \in Nat /\ 1 \in 1 .. 8 OBVIOUS
  <2> QED BY <1>4, <2>1, <2>2 DEF Programs
<1>6. kind = "sequence" => 1 \in 1 .. StepCount(arg) BY <1>3 DEF ArgFits
<1>7. Well(p, t) BY <1>3, <1>4, <1>5, <1>6 DEF Well, NoDrift
<1>8. p.kind # "none" BY <1>4
<1> QED BY <1>7, <1>8 DEF p

LEMMA Starts == Init => IInv
<1> SUFFICES ASSUME Init PROVE IInv OBVIOUS
<1> USE DEF Init
<1>1. Basic
  <2>1. now \in 0 .. MaxNow /\ virtual \in BOOLEAN BY EmulatorAssumption
  <2>2. reply = "ok" /\ ticking = TRUE /\ cut = FALSE OBVIOUS
  <2> QED BY <2>1, <2>2 DEF Basic
<1>2. SlotsFit BY DEF SlotsFit
<1>3. \A id \in Ids : program[id] = Blank /\ id # NULL /\ ~InUse(id) BY OutputFacts DEF InUse
<1>4. Used BY <1>3, BlankIs DEF Used
<1>5. now \in Nat OBVIOUS
<1>6. \A o \in Outputs : Fits(o, out[o]) /\ out[o] \in Looks BY EmulatorAssumption, FitsLooks DEF Fits
<1>7. Sound
  <2>1. out \in [Outputs -> Looks]
    <3>1. out = [o \in Outputs |-> out[o]] BY EmulatorAssumption
    <3> HIDE DEF Init
    <3> QED BY <1>6, <3>1
  <2>2. program \in [Ids -> Programs] BY BlankIs
  <2>3. writer \in [Outputs -> Ids \cup {NULL}] OBVIOUS
  <2>4. \A id \in Ids : Well(program[id], now) BY <1>3, <1>5, BlankIs
  <2>5. \A o \in Outputs : \A id \in Ids : ~Wrote1(id, o) BY DEF Wrote1
  <2> QED BY <1>6, <2>1, <2>2, <2>3, <2>4, <2>5 DEF Sound
<1>8. Finishes
  <2>1. \A o \in Outputs : writer[o] # o BY OutputFacts, <1>3 DEF Ids, Slots
  <2> QED BY <2>1 DEF Finishes, Finished
<1> QED BY <1>1, <1>2, <1>4, <1>7, <1>8 DEF IInv

(* Messages.                                                                *)
LEMMA SetKeeps ==
  ASSUME IInv, NEW m, NEW shown, Set(m, shown), \A o \in Outputs : Fits(o, shown[o]),
         now' = now
  PROVE  SlotsFit' /\ Used' /\ Sound' /\ (cut' = cut => Finishes')
<1> DEFINE hit == Targets(m)
           out2 == [o \in Outputs |-> IF o \in hit THEN shown[o] ELSE out[o]]
           writer2 == [o \in Outputs |-> IF o \in hit THEN NULL ELSE writer[o]]
<1>1. out' = out2 /\ writer' = writer2 /\ slot' = slot /\ program' = program BY DEF Set
<1>2. Sound /\ SlotsFit /\ Used /\ Finishes BY DEF IInv
<1>3. /\ \A o \in Outputs : Fits(o, out2[o]) /\ (o \notin hit => out2[o] = out[o] /\ writer2[o] = writer[o])
      /\ \A o \in hit \cap Outputs : writer2[o] = NULL
  <2> HIDE DEF hit
  <2> QED BY <1>2 DEF Sound
<1>4. out2 \in [Outputs -> Looks] /\ writer2 \in [Outputs -> Ids \cup {NULL}]
  <2>1. \A o \in Outputs : out2[o] \in Looks BY <1>3, FitsLooks
  <2>2. \A o \in Outputs : writer2[o] \in Ids \cup {NULL}
    <3> HIDE DEF hit
    <3> QED BY <1>2 DEF Sound
  <2> HIDE DEF hit
  <2> QED BY <2>1, <2>2
<1> HIDE DEF out2, writer2, hit
<1>5. SlotsFit' BY <1>1, <1>2 DEF SlotsFit, Seated
<1>6. Used' BY <1>1, <1>2 DEF Used, InUse
<1>7. ASSUME NEW o \in Outputs, writer'[o] # NULL PROVE out'[o] = out[o] /\ writer'[o] = writer[o]
  BY <1>1, <1>3, <1>7
<1>8. Sound'
  <2>1. ASSUME NEW o \in Outputs, NEW id \in Ids, Wrote1(id, o)'
        PROVE  (Own(program[id], id, o) /\ PhaseOf(program[id], o, out[o]))'
    <3>1. writer'[o] = id /\ id # NULL /\ id # ALL_OUTPUTS /\ InUse(id) BY <1>1, <2>1 DEF Wrote1, InUse
    <3>2. writer'[o] = writer[o] /\ out'[o] = out[o] BY <1>7, <3>1
    <3>3. Wrote1(id, o) BY <3>1, <3>2 DEF Wrote1
    <3>4. Own(program[id], id, o) /\ PhaseOf(program[id], o, out[o]) BY <1>2, <3>3 DEF Sound
    <3>5. program'[id] = program[id] BY <1>1
    <3> QED BY <3>2, <3>4, <3>5
  <2>2. \A o \in Outputs : Fits(o, out'[o]) BY <1>1, <1>3
  <2>3. \A id \in Ids : Well(program'[id], now') BY <1>1, <1>2 DEF Sound
  <2>4. program' \in [Ids -> Programs] BY <1>1, <1>2 DEF Sound
  <2> QED BY <1>1, <1>4, <2>1, <2>2, <2>3, <2>4 DEF Sound
<1>9. ASSUME cut' = cut, ~cut', NEW o \in Outputs PROVE Finished(o)'
  <2>1. Finished(o) BY <1>2, <1>9 DEF Finishes
  <2>2. writer'[o] = o => out'[o] = out[o] /\ writer'[o] = writer[o] BY <1>7, OutputFacts
  <2> QED BY <1>1, <2>1, <2>2 DEF Finished
<1> QED BY <1>5, <1>6, <1>8, <1>9 DEF Finishes
LEMMA ValueFits ==
  ASSUME NEW o \in Outputs, NEW v \in Nat, NEW old, Fits(o, old) PROVE Fits(o, ShownValue(o, v % 8192, old))
<1> DEFINE w == v % 8192
<1>1. w \in Levels /\ w % 8192 \in Levels BY SMT DEF Levels
<1> HIDE DEF w
<1>2. <<w, w, w>> \in [1 .. 3 -> Levels] BY <1>1
<1>3. CASE Kind[o] = "value"
  <2>1. ShownValue(o, w, old) = w % 8192 BY <1>3 DEF ShownValue
  <2> QED BY <1>1, <1>3, <2>1 DEF Fits, Showable, w
<1>4. CASE Kind[o] # "value"
  <2>1. ShownValue(o, w, old) = ShownRGB(o, <<w, w, w>>, old) BY <1>4 DEF ShownValue
  <2>2. Fits(o, ShownRGB(o, <<w, w, w>>, old)) BY <1>2, ShownFits
  <2> QED BY <2>1, <2>2 DEF w
<1> QED BY <1>3, <1>4
LEMMA ValueKeeps ==
  ASSUME IInv, NEW q \in Requests, HandleValue(Received[q]), now' = now
  PROVE  SlotsFit' /\ Used' /\ Sound' /\ (cut' = cut => Finishes')
<1> DEFINE m == Received[q]
           n == Number(SubSeq(m.payload, 1, 2))
           shown == [o \in Outputs |-> ShownValue(o, n % 8192, out[o])]
<1>1. m.type = 1 /\ Set(m, shown) BY DEF HandleValue
<1>2. n \in Nat BY <1>1, ReceivedFits
<1>3. \A o \in Outputs : Fits(o, out[o]) BY DEF IInv, Sound
<1> HIDE DEF m, n
<1>4. \A o \in Outputs : Fits(o, shown[o]) BY <1>2, <1>3, ValueFits
<1> HIDE DEF shown
<1> QED BY <1>1, <1>4, SetKeeps
LEMMA RGBKeeps ==
  ASSUME IInv, NEW q \in Requests, HandleRGB(Received[q]), now' = now
  PROVE  SlotsFit' /\ Used' /\ Sound' /\ (cut' = cut => Finishes')
<1> DEFINE m == Received[q]
           rgb == SubSeq(m.payload, 1, 3)
           shown == [o \in Outputs |-> ShownRGB(o, rgb, out[o])]
<1>1. m.type = 2 /\ Set(m, shown) BY DEF HandleRGB
<1>2. rgb \in Bright BY <1>1, ReceivedFits DEF Bright, Byte
<1>3. \A o \in Outputs : Fits(o, out[o]) BY DEF IInv, Sound
<1> HIDE DEF m, rgb
<1>4. \A o \in Outputs : Fits(o, shown[o]) BY <1>2, <1>3, Colours, ShownFits
<1> HIDE DEF shown
<1> QED BY <1>1, <1>4, SetKeeps

LEMMA InOwnSlot == ASSUME SlotsFit, NEW o \in Outputs, InUse(o) PROVE slot[o] = o
<1>1. PICK k \in Slots : slot[k] = o BY DEF InUse
<1>2. Seated(k, o) BY <1>1, OutputFacts DEF SlotsFit
<1> QED BY <1>1, <1>2, OutputFacts DEF Seated
Refers(slots, id) == \E k \in Slots : slots[k] = id
LEMMA KeepKeeps ==
  ASSUME IInv, NEW objects, NEW slots, Keep(objects, slots), out' = out, now' = now,
         slots \in [Slots -> Ids \cup {NULL}],
         \A k \in Slots : slots[k] # NULL => slots[k] = k \/ (slots[k] = ALL_OUTPUTS /\ k \in Outputs),
         \A id \in Ids : Refers(slots, id) => Well(objects[id], now) /\ objects[id].kind # "none",
         writer' \in [Outputs -> Ids \cup {NULL}],
         \A o \in Outputs : \A id \in Ids : writer'[o] = id /\ Refers(slots, id) =>
           writer[o] = id /\ InUse(id) /\ objects[id] = program[id]
  PROVE  SlotsFit' /\ Used' /\ Sound' /\ (cut' = cut => Finishes')
<1>1. slot' = slots /\ program' = [id \in Ids |-> IF Refers(slots, id) THEN objects[id] ELSE Blank]
  BY DEF Keep, Refers
<1>2. Sound /\ SlotsFit /\ Used /\ Finishes /\ now \in Nat BY EmulatorAssumption DEF IInv, Basic
<1>3. \A id \in Ids : InUse(id)' <=> Refers(slots, id) BY <1>1 DEF InUse, Refers
<1>4. \A id \in Ids : program'[id] = IF Refers(slots, id) THEN objects[id] ELSE Blank BY <1>1
<1>5. SlotsFit' BY <1>1 DEF SlotsFit, Seated
<1>6. Used' BY <1>3, <1>4, BlankIs DEF Used
<1>7. \A id \in Ids : Well(program'[id], now) BY <1>2, <1>4, BlankIs
<1>8. ASSUME NEW o \in Outputs, NEW id \in Ids, writer'[o] = id, Refers(slots, id)
      PROVE  writer[o] = id /\ InUse(id) /\ program'[id] = program[id]
  BY <1>4, <1>8
<1>9. Sound'
  <2>1. program' \in [Ids -> Programs]
    <3>1. \A id \in Ids : program'[id] \in Programs BY <1>7 DEF Well
    <3>2. program' = [id \in Ids |-> program'[id]] BY <1>1
    <3> QED BY <3>1, <3>2
  <2>2. ASSUME NEW o \in Outputs, NEW id \in Ids, Wrote1(id, o)'
        PROVE  (Own(program[id], id, o) /\ PhaseOf(program[id], o, out[o]))'
    <3>1. writer'[o] = id /\ Refers(slots, id) BY <1>3, <2>2 DEF Wrote1
    <3>2. writer[o] = id /\ InUse(id) /\ program'[id] = program[id] BY <1>8, <3>1
    <3>3. Wrote1(id, o) BY <2>2, <3>2 DEF Wrote1
    <3>4. Own(program[id], id, o) /\ PhaseOf(program[id], o, out[o]) BY <1>2, <3>3 DEF Sound
    <3> QED BY <3>2, <3>4
  <2>3. \A o \in Outputs : Fits(o, out'[o]) BY <1>2 DEF Sound
  <2>4. out' \in [Outputs -> Looks] BY <1>2 DEF Sound
  <2>5. \A id \in Ids : Well(program'[id], now') BY <1>7
  <2> QED BY <2>1, <2>2, <2>3, <2>4, <2>5 DEF Sound
<1>10. ASSUME cut' = cut, ~cut', NEW o \in Outputs PROVE Finished(o)'
  <2> SUFFICES ASSUME writer'[o] = o, slot'[o] = o PROVE Finished(o)' BY DEF Finished
  <2>1. o \in Ids /\ o \in Slots /\ Refers(slots, o) BY <1>1, OutputFacts DEF Refers
  <2>2. writer[o] = o /\ InUse(o) /\ program'[o] = program[o] BY <1>8, <2>1
  <2>3. slot[o] = o BY <1>2, <2>2, InOwnSlot
  <2>4. Finished(o) BY <1>2, <1>10 DEF Finishes
  <2> QED BY <2>2, <2>3, <2>4 DEF Finished
<1> QED BY <1>5, <1>6, <1>9, <1>10 DEF Finishes
LEMMA CancelKeeps ==
  ASSUME IInv, NEW m, HandleCancel(m), now' = now
  PROVE  SlotsFit' /\ Used' /\ Sound' /\ (cut' = cut => Finishes')
<1> DEFINE where == Where(m)
           slots == [k \in Slots |-> IF k \in where THEN NULL ELSE slot[k]]
<1>1. Keep(program, slots) /\ out' = out /\ writer' = writer BY DEF HandleCancel, Install
<1>2. Sound /\ SlotsFit /\ Used BY DEF IInv
<1> HIDE DEF where
<1>3. \A k \in Slots : slots[k] # NULL => slots[k] = slot[k] OBVIOUS
<1>4. slots \in [Slots -> Ids \cup {NULL}] BY <1>2 DEF SlotsFit
<1> HIDE DEF slots
<1>5. \A k \in Slots : slots[k] # NULL => slots[k] = k \/ (slots[k] = ALL_OUTPUTS /\ k \in Outputs)
  BY <1>2, <1>3 DEF SlotsFit, Seated
<1>6. \A id \in Ids : Refers(slots, id) => InUse(id)
  <2> SUFFICES ASSUME NEW id \in Ids, NEW k \in Slots, slots[k] = id PROVE InUse(id) BY DEF Refers
  <2>1. slot[k] = id BY <1>3, OutputFacts
  <2> QED BY <2>1 DEF InUse
<1>7. \A id \in Ids : Refers(slots, id) => Well(program[id], now) /\ program[id].kind # "none"
  BY <1>2, <1>6 DEF Sound, Used
<1>8. writer' \in [Outputs -> Ids \cup {NULL}] BY <1>1, <1>2 DEF Sound
<1>9. \A o \in Outputs : \A id \in Ids : writer'[o] = id /\ Refers(slots, id) =>
        writer[o] = id /\ InUse(id) /\ program[id] = program[id]
  BY <1>1, <1>6
<1> QED BY <1>1, <1>4, <1>5, <1>7, <1>8, <1>9, KeepKeeps
LEMMA ProgramKeeps ==
  ASSUME IInv, NEW q \in Requests, HandleProgram(Received[q]), now' = now
  PROVE  SlotsFit' /\ Used' /\ Sound' /\ (cut' = cut => Finishes')
<1> DEFINE m == Received[q]
           d == m.output
           new == m.program
           where == Where(m)
           slots == [k \in Slots |-> IF k \in where THEN d ELSE slot[k]]
           objects == [id \in Ids |-> IF id = d THEN new ELSE program[id]]
           writer2 == [o \in Outputs |-> IF writer[o] = d THEN NULL ELSE writer[o]]
<1>1. /\ Keep(objects, slots) /\ out' = out /\ writer' = writer2 /\ m.type = 3 /\ new # NULL
  BY DEF HandleProgram, Install
<1>2. Sound /\ SlotsFit /\ Used /\ now \in Nat BY EmulatorAssumption DEF IInv, Basic
<1>3. Well(new, now) /\ new.kind # "none" BY <1>1, <1>2, ParsedIs
<1>4. \A k \in Slots : k \in where => d \in Ids /\ (d = k \/ (d = ALL_OUTPUTS /\ k \in Outputs))
  BY OutputFacts DEF Where, Targets
<1> HIDE DEF m, d, new, where
<1>5. \A k \in Slots : slots[k] = IF k \in where THEN d ELSE slot[k] OBVIOUS
<1>6. \A id \in Ids : objects[id] = IF id = d THEN new ELSE program[id] OBVIOUS
<1>7. slots \in [Slots -> Ids \cup {NULL}] BY <1>2, <1>4 DEF SlotsFit
<1>8. writer2 \in [Outputs -> Ids \cup {NULL}] /\ \A o \in Outputs : writer2[o] # NULL => writer2[o] = writer[o] /\ writer2[o] # d
  BY <1>2 DEF Sound
<1> HIDE DEF slots, objects, writer2
<1>9. \A k \in Slots : slots[k] # NULL => slots[k] = k \/ (slots[k] = ALL_OUTPUTS /\ k \in Outputs)
  BY <1>2, <1>4, <1>5 DEF SlotsFit, Seated
<1>10. \A id \in Ids : Refers(slots, id) => id = d \/ InUse(id) BY <1>5 DEF Refers, InUse
<1>11. \A id \in Ids : Refers(slots, id) => Well(objects[id], now) /\ objects[id].kind # "none"
  BY <1>2, <1>3, <1>6, <1>10 DEF Sound, Used
<1>12. \A o \in Outputs : \A id \in Ids : writer'[o] = id /\ Refers(slots, id) =>
         writer[o] = id /\ InUse(id) /\ objects[id] = program[id]
  <2> SUFFICES ASSUME NEW o \in Outputs, NEW id \in Ids, writer'[o] = id, Refers(slots, id)
               PROVE  writer[o] = id /\ InUse(id) /\ objects[id] = program[id]
    OBVIOUS
  <2>1. writer2[o] = id /\ id # NULL BY <1>1, OutputFacts
  <2>2. writer[o] = id /\ id # d BY <1>8, <2>1
  <2> QED BY <1>6, <1>10, <2>2
<1>13. writer' \in [Outputs -> Ids \cup {NULL}] BY <1>1, <1>8
<1> QED BY <1>1, <1>7, <1>9, <1>11, <1>12, <1>13, KeepKeeps
LEMMA NothingKeeps ==
  ASSUME IInv, NEW m, HandleNothing(m), now' = now
  PROVE  SlotsFit' /\ Used' /\ Sound' /\ (cut' = cut => Finishes')
BY DEF IInv, HandleNothing, SlotsFit, Seated, Used, InUse, Sound, Wrote1, Finishes, Finished
LEMMA HandleKeeps == ASSUME IInv, NEW q \in Requests, Handle(q) PROVE IInv'
<1> DEFINE m == Received[q]
<1>1. /\ HandleValue(m) \/ HandleRGB(m) \/ HandleCancel(m) \/ HandleProgram(m) \/ HandleNothing(m)
      /\ reply' = IF virtual THEN "ok" ELSE reply
      /\ virtual' = virtual /\ now' = now /\ ticking' = ticking /\ cut' = cut
  BY DEF Handle
<1>2. SlotsFit' /\ Used' /\ Sound' /\ (cut' = cut => Finishes')
  <2>1. CASE HandleValue(m) BY <1>1, <2>1, ValueKeeps
  <2>2. CASE HandleRGB(m) BY <1>1, <2>2, RGBKeeps
  <2>3. CASE HandleCancel(m) BY <1>1, <2>3, CancelKeeps
  <2>4. CASE HandleProgram(m) BY <1>1, <2>4, ProgramKeeps
  <2>5. CASE HandleNothing(m) BY <1>1, <2>5, NothingKeeps
  <2> QED BY <1>1, <2>1, <2>2, <2>3, <2>4, <2>5
<1>3. Basic' BY <1>1 DEF IInv, Basic
<1> QED BY <1>1, <1>2, <1>3 DEF IInv

(* Ticks and resets.                                                        *)
LEMMA RanKeeps ==
  ASSUME IInv, NEW t \in Nat, now <= t, Ran(t)
  PROVE  /\ SlotsFit' /\ Used' /\ Sound' /\ Finishes'
         /\ RunPrograms(t).raised \in BOOLEAN /\ (RunPrograms(t).raised => Misfit)
<1> DEFINE s == RunPrograms(t)
<1>1. /\ out' = s.out /\ program' = s.program /\ writer' = s.writer /\ cut' = s.raised /\ now' = t
      /\ slot' = slot
  BY DEF Ran
<1>2. Sound /\ SlotsFit /\ Used /\ now \in Nat BY EmulatorAssumption DEF IInv, Basic
<1>3. During(Untouched, t) BY <1>2, SoundStarts
<1>4. During(s, t) /\ (~s.raised => \A o \in Outputs : Ended(s, o, t)) BY <1>2, <1>3, RunKeeps
<1> HIDE DEF s
<1>5. /\ s \in TickStates /\ \A o \in Outputs : Fits(o, s.out[o])
      /\ \A id \in Ids : Well(s.program[id], t) /\ s.program[id].kind = program[id].kind
      /\ \A o \in Outputs : \A id \in Ids :
           Wrote(s, id, o) => Own(s.program[id], id, o) /\ PhaseOf(s.program[id], o, s.out[o])
      /\ s.raised => Misfit
  BY <1>4 DEF During, Good
<1>6. SlotsFit' BY <1>1, <1>2 DEF SlotsFit, Seated
<1>7. Used' BY <1>1, <1>2, <1>5 DEF Used, InUse
<1>8. Sound'
  <2>1. s.out \in [Outputs -> Looks] /\ s.program \in [Ids -> Programs] /\ s.writer \in [Outputs -> Ids \cup {NULL}]
    BY <1>5 DEF TickStates
  <2>2. ASSUME NEW o \in Outputs, NEW id \in Ids, Wrote1(id, o)'
        PROVE  (Own(program[id], id, o) /\ PhaseOf(program[id], o, out[o]))'
    <3>1. Wrote(s, id, o) BY <1>1, <2>2 DEF Wrote, Wrote1, InUse
    <3> QED BY <1>1, <1>5, <3>1
  <2>3. \A id \in Ids : Well(program'[id], now') BY <1>1, <1>5
  <2>4. \A o \in Outputs : Fits(o, out'[o]) BY <1>1, <1>5
  <2> QED BY <1>1, <2>1, <2>2, <2>3, <2>4 DEF Sound
<1>9. ASSUME ~cut', NEW o \in Outputs PROVE Finished(o)'
  <2>1. Ended(s, o, t) BY <1>1, <1>4, <1>9
  <2> QED BY <1>1, <2>1 DEF Finished, Ended
<1>10. s.raised \in BOOLEAN BY <1>5 DEF TickStates
<1> QED BY <1>5, <1>6, <1>7, <1>8, <1>9, <1>10 DEF Finishes, s
LEMMA LaterIs == ASSUME IInv, NEW ms \in Steps, now + ms <= MaxNow PROVE now + ms \in Nat /\ now <= now + ms /\ now + ms \in 0 .. MaxNow
<1>1. now \in 0 .. MaxNow /\ MaxNow \in Nat /\ ms \in Nat BY EmulatorAssumption DEF IInv, Basic
<1> QED BY <1>1
LEMMA AdvanceKeeps ==
  ASSUME IInv, NEW ms \in Steps, Advance(ms)
  PROVE  IInv' /\ ticking' = ticking /\ (reply' = "error" => Misfit)
<1> DEFINE t == now + ms
           b == RunPrograms(t).raised
<1>1. /\ virtual /\ t <= MaxNow /\ Ran(t) /\ reply' = (IF b THEN "error" ELSE "ok")
      /\ ticking' = ticking /\ now' = t /\ virtual' = virtual /\ cut' = b
  BY DEF Advance, Ran
<1>2. t \in Nat /\ now <= t /\ t \in 0 .. MaxNow BY <1>1, LaterIs
<1> HIDE DEF t
<1>3. SlotsFit' /\ Used' /\ Sound' /\ Finishes' /\ b \in BOOLEAN /\ (b => Misfit) BY <1>1, <1>2, RanKeeps
<1> HIDE DEF b
<1>4. reply' \in {"ok", "error"} /\ (reply' = "error" => b) BY <1>1
<1>5. Basic' BY <1>1, <1>2, <1>3, <1>4 DEF IInv, Basic
<1> QED BY <1>1, <1>3, <1>4, <1>5 DEF IInv
LEMMA TickLoopKeeps ==
  ASSUME IInv, NEW ms \in Steps, TickLoop(ms)
  PROVE  IInv' /\ reply' = "ok" /\ (ticking' # ticking => Misfit)
<1> DEFINE t == now + ms
           b == RunPrograms(t).raised
<1>1. /\ ~virtual /\ ticking /\ t <= MaxNow /\ Ran(t) /\ ticking' = ~b
      /\ reply' = reply /\ now' = t /\ virtual' = virtual /\ cut' = b
  BY DEF TickLoop, Ran
<1>2. t \in Nat /\ now <= t /\ t \in 0 .. MaxNow BY <1>1, LaterIs
<1> HIDE DEF t
<1>3. SlotsFit' /\ Used' /\ Sound' /\ Finishes' /\ b \in BOOLEAN /\ (b => Misfit) BY <1>1, <1>2, RanKeeps
<1> HIDE DEF b
<1>4. reply = "ok" /\ ticking \in BOOLEAN BY <1>1 DEF IInv, Basic
<1>5. Basic'
  <2>1. ticking' \in BOOLEAN /\ cut' \in BOOLEAN BY <1>1, <1>3
  <2> QED BY <1>1, <1>2, <1>4, <2>1 DEF IInv, Basic
<1>6. ticking' # ticking => b BY <1>1, <1>3, <1>4
<1> QED BY <1>1, <1>3, <1>4, <1>5, <1>6 DEF IInv
LEMMA ResetKeeps == ASSUME IInv, Reset PROVE IInv' /\ ticking' = ticking /\ reply' = "ok"
<1> DEFINE out2 == [o \in Outputs |-> ShownRGB(o, Black, out[o])]
<1>1. /\ virtual /\ virtual' = virtual /\ ticking' = ticking /\ now' = 0 /\ reply' = "ok" /\ cut' = FALSE
      /\ slot' = [k \in Slots |-> NULL] /\ program' = [id \in Ids |-> Blank]
      /\ out' = out2 /\ writer' = [o \in Outputs |-> NULL]
  BY DEF Reset
<1>2. Sound BY DEF IInv
<1>3. ASSUME NEW o \in Outputs PROVE Fits(o, out2[o]) /\ out2[o] \in Looks
  <2> DEFINE look == ShownRGB(o, Black, out[o])
  <2>1. Fits(o, look) BY <1>2, BlackIs, ShownFits DEF Sound
  <2>2. out2[o] = look OBVIOUS
  <2> HIDE DEF look, out2
  <2>3. look \in Looks BY <2>1, FitsLooks
  <2> QED BY <2>1, <2>2, <2>3
<1>4. out2 \in [Outputs -> Looks] BY <1>3
<1> HIDE DEF out2
<1>5. SlotsFit' BY <1>1 DEF SlotsFit
<1>6. \A id \in Ids : program'[id] = Blank /\ id # NULL /\ ~InUse(id)' BY <1>1, OutputFacts DEF InUse
<1>7. Used' BY <1>6, BlankIs DEF Used
<1>8. Sound'
  <2>1. program' \in [Ids -> Programs] BY <1>1, BlankIs
  <2>2. writer' \in [Outputs -> Ids \cup {NULL}] BY <1>1
  <2>3. \A id \in Ids : Well(program'[id], now')
    <3>1. 0 \in Nat OBVIOUS
    <3> QED BY <1>1, <1>6, <3>1, BlankIs
  <2>4. \A o \in Outputs : \A id \in Ids : ~Wrote1(id, o)' BY <1>6 DEF Wrote1
  <2>5. \A o \in Outputs : Fits(o, out'[o]) BY <1>1, <1>3
  <2> QED BY <1>1, <1>4, <2>1, <2>2, <2>3, <2>4, <2>5 DEF Sound
<1>9. Finishes'
  <2>1. \A o \in Outputs : writer'[o] # o BY <1>1, <1>6, OutputFacts
  <2> QED BY <2>1 DEF Finishes, Finished
<1>10. Basic'
  <2>1. 0 \in 0 .. MaxNow BY EmulatorAssumption
  <2> QED BY <1>1, <2>1 DEF IInv, Basic
<1> QED BY <1>1, <1>5, <1>7, <1>8, <1>9, <1>10 DEF IInv
LEMMA StutterKeeps == ASSUME IInv, UNCHANGED vars PROVE IInv'
BY DEF IInv, vars, Basic, SlotsFit, Seated, Used, InUse, Sound, Wrote1, Finishes, Finished

(* One step of the emulator keeps the invariant, and fails only on a misfit. *)
LEMMA StepKeeps ==
  ASSUME IInv, [Next]_vars
  PROVE  IInv' /\ (ticking' # ticking \/ (reply' = "error" /\ now' # now) => Misfit)
<1>1. ASSUME NEW q \in Requests, Handle(q)
      PROVE  IInv' /\ ticking' = ticking /\ now' = now
  <2>1. ticking' = ticking /\ now' = now BY <1>1 DEF Handle
  <2> QED BY <1>1, <2>1, HandleKeeps
<1>2. CASE UNCHANGED vars
  <2>1. ticking' = ticking /\ now' = now BY <1>2 DEF vars
  <2> QED BY <1>2, <2>1, StutterKeeps
<1>3. CASE Reset BY <1>3, ResetKeeps
<1>4. ASSUME NEW ms \in Steps, Advance(ms) PROVE IInv' /\ ticking' = ticking /\ (reply' = "error" => Misfit)
  BY <1>4, AdvanceKeeps
<1>5. ASSUME NEW ms \in Steps, TickLoop(ms) PROVE IInv' /\ reply' = "ok" /\ (ticking' # ticking => Misfit)
  BY <1>5, TickLoopKeeps
<1> QED BY <1>1, <1>2, <1>3, <1>4, <1>5 DEF Next
LEMMA Invariant == Spec => []IInv
<1>1. IInv /\ [Next]_vars => IInv' BY StepKeeps
<1> QED BY <1>1, Starts, PTL DEF Spec
-----------------------------------------------------------------------------
(* The emulated outputs, clock and slots keep to the values they can have,  *)
(* and an object that no slot refers to is gone (emulator.py:66-110).       *)
THEOREM TypeCorrect == Spec => []TypeOK
<1>1. IInv => TypeOK
  <2> SUFFICES ASSUME IInv PROVE TypeOK OBVIOUS
  <2>1. Basic /\ SlotsFit /\ Used /\ Sound BY DEF IInv
  <2>2. \A o \in Outputs :
          IF Kind[o] \in {"value", "rgb", "pixels"} THEN Showable(o, out[o]) ELSE out[o] = Configured[o]
    BY <2>1 DEF Sound, Fits
  <2> QED BY <2>1, <2>2 DEF TypeOK, Basic, SlotsFit, Used, Sound
<1> QED BY <1>1, Invariant, PTL

(* A blink changes at the times its periods set from its first tick on,     *)
(* however late the ticks are and whoever shares it (programs.py:24-43).    *)
THEOREM BlinkCorrect == Spec => []BlinkDoesNotDrift
<1>1. IInv => BlinkDoesNotDrift
  <2> SUFFICES ASSUME IInv, NEW id \in Ids, program[id].kind = "blink" /\ program[id].started
               PROVE  LET p == program[id] IN
                      \E cycles \in 0 .. p.next - p.origin :
                        p.next = p.origin + cycles * (p.arg.on_period + p.arg.off_period)
                                   + IF p.on THEN p.arg.on_period ELSE 0
    BY DEF BlinkDoesNotDrift
  <2>1. NoDrift(program[id]) BY DEF IInv, Sound, Well
  <2> QED BY <2>1 DEF NoDrift, Cycle
<1> QED BY <1>1, Invariant, PTL

(* What a program wrote last shows what its state stands for, and a fade    *)
(* whose time is over shows where it ends (emulator.py:237-249).            *)
THEOREM PhaseCorrect == Spec => []ShowsItsPhase
<1>1. IInv => ShowsItsPhase
  <2> SUFFICES ASSUME IInv, NEW o \in Outputs, writer[o] # NULL, InUse(writer[o]), writer[o] # ALL_OUTPUTS
               PROVE  Phase(program[writer[o]], o)
    BY DEF ShowsItsPhase
  <2> DEFINE id == writer[o]
             p == program[id]
  <2>1. Sound /\ SlotsFit /\ Finishes BY DEF IInv
  <2>2. id \in Ids BY <2>1 DEF Sound
  <2>3. Own(p, id, o) /\ PhaseOf(p, o, out[o]) BY <2>1, <2>2 DEF Sound, Wrote1
  <2>4. p.kind = "blink" \/ p.kind = "timed" \/ p.kind = "fade" \/ p.kind = "sequence"
    BY <2>3 DEF Own, Single
  <2>5. CASE p.kind = "blink" BY <2>3, <2>5 DEF PhaseOf, Phase, Shows
  <2>6. CASE p.kind = "timed" BY <2>3, <2>6 DEF PhaseOf, Phase, Shows
  <2>7. CASE p.kind = "sequence" BY <2>3, <2>7 DEF PhaseOf, Phase, Shows, Level, Grey
  <2>8. CASE p.kind = "fade"
    <3>1. id = o BY <2>3, <2>8 DEF Own
    <3>2. slot[o] = o BY <2>1, <3>1, InOwnSlot
    <3>3. CASE p.arg.flags = 0 /\ ~cut /\ now - p.origin >= p.arg.period
      <4>1. Shows(o, RGB(p.arg.stop_value)) BY <2>1, <2>8, <3>1, <3>2, <3>3 DEF Finishes, Finished, Over, Shows
      <4> QED BY <2>8, <3>3, <4>1 DEF Phase
    <3>4. CASE ~(p.arg.flags = 0 /\ ~cut /\ now - p.origin >= p.arg.period)
      <4>1. Lights(o, out[o]) = Channels(o) BY DEF Lights, Channels
      <4>2. Faded(p, o, out[o]) BY <2>3, <2>8 DEF PhaseOf
      <4> SUFFICES Phase(p, o) OBVIOUS
      <4> HIDE DEF p
      <4>3. \A i \in DOMAIN Channels(o) :
              Between(Channels(o)[i], RGB(p.arg.start_value)[i], RGB(p.arg.stop_value)[i])
        BY <4>1, <4>2 DEF Faded
      <4> QED BY <2>8, <3>4, <4>3 DEF Phase
    <3> QED BY <3>3, <3>4
  <2> QED BY <2>4, <2>5, <2>6, <2>7, <2>8
<1> QED BY <1>1, Invariant, PTL

(* The thread of the programs dies, and an advance is answered with an      *)
(* error, only for a program in a slot of the other kind and a sequence     *)
(* that names an output there is not (emulator.py:237-249, 285-289).        *)
THEOREM FailsCorrect == Spec => FailsOnlyOnMisfit
<1>1. IInv /\ [Next]_vars => [ticking' # ticking \/ (reply' = "error" /\ now' # now) => Misfit]_vars BY StepKeeps
<1> QED BY <1>1, Invariant, PTL DEF Spec, FailsOnlyOnMisfit
-----------------------------------------------------------------------------
(* Packing. First what FlattenSeq computes.                                 *)
Flattens(f, u) == f = [i \in 1 .. Len(u) |-> IF i = 1 THEN u[i] ELSE f[i - 1] \o u[i]]
LEMMA FlattenStep ==
  ASSUME NEW u, Len(u) \in Nat, NEW f, Flattens(f, u)
  PROVE  \A i \in 1 .. Len(u) : f[i] = IF i = 1 THEN u[i] ELSE f[i - 1] \o u[i]
<1>1. \A i \in 1 .. Len(u) :
        [j \in 1 .. Len(u) |-> IF j = 1 THEN u[j] ELSE f[j - 1] \o u[j]][i]
          = IF i = 1 THEN u[i] ELSE f[i - 1] \o u[i]
  OBVIOUS
<1> QED BY <1>1 DEF Flattens

LEMMA FlattenUnfolds ==
  ASSUME NEW T, NEW u \in Seq(Seq(T)), u # <<>>
  PROVE  \E f \in [1 .. Len(u) -> Seq(T)] : Flattens(f, u) /\ FlattenSeq(u) = f[Len(u)]
<1> DEFINE n == Len(u)
           step == [p \in Int \X Seq(T) |-> p[2] \o (IF p[1] \in 1 .. n THEN u[p[1]] ELSE <<>>)]
           all == CHOOSE f : Flattens(f, u)
<1>1. n \in Nat /\ n >= 1 /\ 1 \in 1 .. n OBVIOUS
<1>2. \A i \in 1 .. n : u[i] \in Seq(T) OBVIOUS
<1>3. step \in [Int \X Seq(T) -> Seq(T)]
  <2> SUFFICES ASSUME NEW i \in Int, NEW s \in Seq(T)
               PROVE  s \o (IF i \in 1 .. n THEN u[i] ELSE <<>>) \in Seq(T)
    OBVIOUS
  <2>1. (IF i \in 1 .. n THEN u[i] ELSE <<>>) \in Seq(T) BY <1>2
  <2> HIDE DEF n
  <2> QED BY <2>1
<1>4. u[1] \in Seq(T) /\ 1 \in Int /\ n \in Int BY <1>1, <1>2
<1>5. PICK g \in [1 .. n -> Seq(T)] : \A i \in 1 .. n : g[i] = IF i = 1 THEN u[1] ELSE step[<<i, g[i - 1]>>]
  <2>1. Iterates(Seq(T), u[1], step, 1, n) BY <1>3, <1>4 DEF Iterates
  <2> HIDE DEF n, step
  <2>2. \E g \in [1 .. n -> Seq(T)] : Recurs(g, u[1], step, 1, n) BY <2>1, Recursion
  <2> QED BY <2>2 DEF Recurs
<1>6. Flattens(g, u)
  <2>1. ASSUME NEW i \in 1 .. n, i # 1 PROVE step[<<i, g[i - 1]>>] = g[i - 1] \o u[i]
    <3>1. i - 1 \in 1 .. n /\ i \in Int BY <1>1, <2>1
    <3>2. g[i - 1] \in Seq(T) BY <3>1
    <3> QED BY <3>1, <3>2
  <2> HIDE DEF n, step
  <2>2. \A i \in 1 .. n : g[i] = IF i = 1 THEN u[i] ELSE g[i - 1] \o u[i] BY <1>5, <2>1
  <2>3. g = [i \in 1 .. n |-> g[i]] OBVIOUS
  <2>4. g = [i \in 1 .. n |-> IF i = 1 THEN u[i] ELSE g[i - 1] \o u[i]] BY <2>2, <2>3
  <2> QED BY <2>4 DEF Flattens, n
<1>7. Flattens(all, u)
  <2> HIDE DEF Flattens
  <2> QED BY <1>6
<1>10. \A i \in 1 .. n : all[i] = IF i = 1 THEN u[i] ELSE all[i - 1] \o u[i] BY <1>1, <1>7, FlattenStep
<1>8. FlattenSeq(u) = all[n]
  <2>1. Len(u) # 0 BY <1>1
  <2> QED BY <2>1 DEF FlattenSeq, Flattens
<1>9. all \in [1 .. n -> Seq(T)]
  <2>1. all = [i \in 1 .. n |-> all[i]]
    <3> DEFINE e(i) == IF i = 1 THEN u[i] ELSE all[i - 1] \o u[i]
    <3>1. all = [i \in 1 .. n |-> e(i)] BY <1>7 DEF Flattens
    <3> HIDE DEF all, e, n
    <3> QED BY <3>1
  <2> DEFINE S == {i \in Nat : i + 1 \in 1 .. n => all[i + 1] \in Seq(T)}
  <2> HIDE DEF all
  <2>2. 0 \in S BY <1>1, <1>2, <1>7 DEF Flattens
  <2>3. ASSUME NEW i \in Nat, i \in S PROVE i + 1 \in S
    <3> SUFFICES ASSUME i + 2 \in 1 .. n PROVE all[i + 2] \in Seq(T) OBVIOUS
    <3>0. i + 2 # 1 /\ (i + 2) - 1 = i + 1 /\ i + 1 \in 1 .. n BY <1>1
    <3>1. all[i + 2] = all[i + 1] \o u[i + 2] BY <1>1, <1>10, <3>0
    <3>2. all[i + 1] \in Seq(T) /\ u[i + 2] \in Seq(T) BY <2>3, <1>2, <3>0
    <3> QED BY <3>1, <3>2
  <2>4. Nat \subseteq S
    <3> HIDE DEF S
    <3> QED BY <2>2, <2>3, Induction
  <2>5. \A i \in 1 .. n : all[i] \in Seq(T)
    <3> SUFFICES ASSUME NEW i \in 1 .. n PROVE all[i] \in Seq(T) OBVIOUS
    <3>1. i - 1 \in Nat /\ (i - 1) + 1 = i OBVIOUS
    <3> QED BY <2>4, <3>1
  <2> QED BY <2>1, <2>5
<1> QED BY <1>7, <1>8, <1>9

(* The fields of a packed struct lie where the layout says.                 *)
Placed(data, a, layout, val, k) ==
  \A j \in 1 .. layout[k].width :
    data[a + Ends(layout)[k - 1] + j] = Bytes(val[layout[k].name], layout[k].width)[j]
BytesAt(val, layout, k) == Bytes(val[layout[k].name], layout[k].width)
LEMMA BytesList ==
  ASSUME NEW n, NEW w \in Nat PROVE List(Bytes(n, w), w)
<1>1. Bytes(n, w) = [i \in 1 .. w |-> Bytes(n, w)[i]] BY DEF Bytes
<1> QED BY <1>1, Listed
LEMMA PackPlaces ==
  ASSUME NEW layout, IsLayout(layout), NEW val
  PROVE  /\ List(Pack(layout, val), Size(layout)) /\ Size(layout) \in Nat
         /\ \A k \in 1 .. Len(layout) : Placed(Pack(layout, val), 0, layout, val, k)
<1> DEFINE n == Len(layout)
           u == [k \in DOMAIN layout |-> BytesAt(val, layout, k)]
           end == Ends(layout)
           T == UNION {{u[k][j] : j \in 1 .. layout[k].width} : k \in 1 .. n}
<1>0. n \in Nat /\ DOMAIN layout = 1 .. n /\ \A k \in 1 .. n : layout[k].width \in 1 .. 4 /\ layout[k].width \in Nat
  BY DEF IsLayout
<1>1. Pack(layout, val) = FlattenSeq(u) BY DEF Pack, BytesAt
<1>2. end \in [0 .. n -> Nat] /\ EndsAt(end, layout) BY EndsRecur
<1>3. ASSUME NEW k \in 1 .. n PROVE u[k] \in Seq(T) /\ List(u[k], layout[k].width) /\ u[k] = BytesAt(val, layout, k)
  <2>1. u[k] = BytesAt(val, layout, k) BY <1>0
  <2>2. List(u[k], layout[k].width) BY <1>0, <2>1, BytesList DEF BytesAt
  <2>3. \A j \in 1 .. layout[k].width : u[k][j] \in T OBVIOUS
  <2> DEFINE b == u[k]
             w == layout[k].width
  <2>4. b = [i \in 1 .. w |-> b[i]] BY <2>2 DEF List
  <2>5. \A j \in 1 .. w : b[j] \in T BY <2>3
  <2>6. w \in Nat BY <1>0
  <2> HIDE DEF b, w, T
  <2>7. b \in [1 .. w -> T] BY <2>4, <2>5
  <2>8. b \in Seq(T) BY <2>6, <2>7
  <2> QED BY <2>1, <2>2, <2>8 DEF b, w
<1>4. u = [k \in 1 .. n |-> u[k]] BY <1>0
<1> HIDE DEF u, T
<1>5. u \in [1 .. n -> Seq(T)] BY <1>3, <1>4
<1>6. u \in Seq(Seq(T)) /\ Len(u) = n BY <1>0, <1>4, <1>5, Listed DEF List
<1>7. CASE n = 0
  <2>1. Len(u) = 0 BY <1>6, <1>7
  <2>2. FlattenSeq(u) = u BY <2>1 DEF FlattenSeq
  <2>3. Size(layout) = 0 BY <1>2, <1>7 DEF Size, EndsAt
  <2>4. List(u, 0) BY <1>4, <1>7, <2>1 DEF List
  <2> QED BY <1>1, <1>7, <2>2, <2>3, <2>4
<1>8. CASE n # 0
  <2>0. n \in 1 .. n /\ u # <<>> BY <1>0, <1>6, <1>8
  <2>1. PICK f \in [1 .. n -> Seq(T)] : Flattens(f, u) /\ FlattenSeq(u) = f[n]
    BY <1>6, <2>0, FlattenUnfolds
  <2>2. \A i \in 1 .. n : f[i] = IF i = 1 THEN u[i] ELSE f[i - 1] \o u[i]
    <3>1. Len(u) \in Nat BY <1>0, <1>6
    <3>2. Flattens(f, u) BY <2>1
    <3>3. \A i \in 1 .. Len(u) : f[i] = IF i = 1 THEN u[i] ELSE f[i - 1] \o u[i] BY <3>1, <3>2, FlattenStep
    <3> QED BY <1>6, <3>3
  <2> DEFINE Lasts(i) == /\ List(f[i], end[i])
                        /\ \A k \in 1 .. i : \A j \in 1 .. layout[k].width : f[i][end[k - 1] + j] = u[k][j]
             S == {i \in Nat : i + 1 \in 1 .. n => Lasts(i + 1)}
  <2>e. \A k \in 1 .. n : /\ end[k - 1] \in Nat /\ end[k] = end[k - 1] + layout[k].width /\ end[k] \in Nat
    <3> SUFFICES ASSUME NEW k \in 1 .. n
                 PROVE  end[k - 1] \in Nat /\ end[k] = end[k - 1] + layout[k].width /\ end[k] \in Nat
      OBVIOUS
    <3> HIDE DEF end
    <3>1. k \in 0 .. n /\ k - 1 \in 0 .. n /\ k # 0 BY <1>0
    <3> QED BY <1>2, <3>1 DEF EndsAt
  <2>z. end[0] = 0
    <3> HIDE DEF end
    <3>1. 0 \in 0 .. n BY <1>0
    <3> QED BY <1>2, <3>1 DEF EndsAt
  <2> HIDE DEF end
  <2>3. 0 \in S
    <3> SUFFICES Lasts(1) OBVIOUS
    <3>0. 1 \in 1 .. n BY <1>0, <1>8
    <3>1. f[1] = u[1] BY <2>2, <3>0
    <3>2. end[1] = layout[1].width
      <4>1. end[1] = end[1 - 1] + layout[1].width BY <2>e, <3>0
      <4>2. layout[1].width \in Nat BY <1>0, <3>0
      <4> QED BY <2>z, <4>1, <4>2
    <3>3. List(f[1], end[1]) BY <1>3, <3>0, <3>1, <3>2
    <3>4. ASSUME NEW k \in 1 .. 1, NEW j \in 1 .. layout[k].width PROVE f[1][end[k - 1] + j] = u[k][j]
      <4>1. k = 1 /\ end[k - 1] + j = j BY <2>z
      <4> QED BY <3>1, <4>1
    <3> QED BY <3>3, <3>4
  <2>4. ASSUME NEW i \in Nat, i \in S PROVE i + 1 \in S
    <3> SUFFICES ASSUME (i + 1) + 1 \in 1 .. n PROVE Lasts((i + 1) + 1) OBVIOUS
    <3> DEFINE m == i + 1
    <3>0. m \in 1 .. n /\ m + 1 \in 1 .. n /\ m + 1 # 1 /\ (m + 1) - 1 = m BY <1>0
    <3>1. Lasts(m) BY <2>4, <3>0
    <3> HIDE DEF m
    <3>2. f[m + 1] = f[m] \o u[m + 1] BY <2>2, <3>0
    <3>3. end[m + 1] = end[m] + layout[m + 1].width /\ end[m] \in Nat /\ layout[m + 1].width \in Nat
      BY <1>0, <2>e, <3>0
    <3>4. List(u[m + 1], layout[m + 1].width) BY <1>3, <3>0
    <3>5. /\ List(f[m] \o u[m + 1], end[m] + layout[m + 1].width)
          /\ Follows(f[m] \o u[m + 1], f[m], u[m + 1], end[m], layout[m + 1].width)
      BY <3>1, <3>3, <3>4, Joined
    <3>6. ASSUME NEW k \in 1 .. m + 1, NEW j \in 1 .. layout[k].width PROVE f[m + 1][end[k - 1] + j] = u[k][j]
      <4>1. CASE k = m + 1
        <5>1. end[k - 1] = end[m] BY <3>0, <4>1
        <5> QED BY <3>2, <3>5, <4>1, <5>1 DEF Follows
      <4>2. CASE k # m + 1
        <5>1. k \in 1 .. m /\ k \in 1 .. n BY <1>0, <3>0, <4>2
        <5>2. end[k] <= end[m] /\ end[k] = end[k - 1] + layout[k].width /\ end[k - 1] \in Nat /\ layout[k].width \in Nat
          <6>1. m \in k .. n BY <1>0, <3>0, <5>1
          <6> QED BY <1>0, <2>e, <5>1, <6>1, EndsGrow DEF end
        <5>3. end[k - 1] + j \in 1 .. end[m] BY <3>3, <5>2
        <5>4. f[m + 1][end[k - 1] + j] = f[m][end[k - 1] + j] BY <3>2, <3>5, <5>3 DEF Follows
        <5> QED BY <3>1, <5>1, <5>4
      <4> QED BY <4>1, <4>2
    <3> QED BY <3>2, <3>3, <3>5, <3>6 DEF m
  <2>5. Nat \subseteq S
    <3> HIDE DEF S
    <3> QED BY <2>3, <2>4, Induction
  <2>6. Lasts(n)
    <3>1. n - 1 \in Nat /\ (n - 1) + 1 = n BY <1>0, <1>8
    <3>2. n - 1 \in S
      <4> HIDE DEF S
      <4> QED BY <2>5, <3>1
    <3>3. Lasts((n - 1) + 1) BY <2>0, <3>1, <3>2
    <3> HIDE DEF Lasts
    <3> QED BY <3>1, <3>3
  <2>7. Size(layout) = end[n] /\ end[n] \in Nat BY <2>0, <2>e DEF Size, end
  <2> DEFINE pack == Pack(layout, val)
  <2>8. pack = f[n] BY <1>1, <2>1
  <2> HIDE DEF pack
  <2>9. ASSUME NEW k \in 1 .. n PROVE Placed(pack, 0, layout, val, k)
    <3> SUFFICES ASSUME NEW j \in 1 .. layout[k].width
                 PROVE  pack[0 + end[k - 1] + j] = BytesAt(val, layout, k)[j]
      BY DEF Placed, BytesAt, end
    <3>1. 0 + end[k - 1] + j = end[k - 1] + j BY <2>e
    <3> QED BY <1>3, <2>6, <2>8, <3>1
  <2> QED BY <2>6, <2>7, <2>8, <2>9 DEF pack
<1> QED BY <1>7, <1>8
(* What is packed is read back, where the reader's layout is the writer's.  *)
Narrow(v, w) ==
  /\ v \in Nat
  /\ w = 1 => v <= 255
  /\ w = 2 => v <= 65535
  /\ w = 3 => v <= 16777215
  /\ w = 4 => v \div 16777216 <= 255
LEMMA PowerIs == Power[1] = 1 /\ Power[2] = 256 /\ Power[3] = 65536 /\ Power[4] = 16777216
BY DEF Power
ByteByByte(b, v, w) ==
  /\ b[1] = v % 256
  /\ w >= 2 => b[2] = (v \div 256) % 256
  /\ w >= 3 => b[3] = (v \div 65536) % 256
  /\ w >= 4 => b[4] = (v \div 16777216) % 256
LEMMA BytesAre == ASSUME NEW v \in Int, NEW w \in 1 .. 4 PROVE ByteByByte(Bytes(v, w), v, w)
<1>1. ASSUME NEW i \in 1 .. w PROVE Bytes(v, w)[i] = (v \div Power[i]) % 256 BY DEF Bytes
<1>2. v \div 1 = v BY SMT
<1>3. 1 \in 1 .. w /\ (w >= 2 => 2 \in 1 .. w) /\ (w >= 3 => 3 \in 1 .. w) /\ (w >= 4 => 4 \in 1 .. w) OBVIOUS
<1>4. Bytes(v, w)[1] = v % 256
  <2>1. Bytes(v, w)[1] = (v \div Power[1]) % 256 BY <1>1, <1>3
  <2> QED BY <1>2, <2>1, PowerIs
<1>5. w >= 2 => Bytes(v, w)[2] = (v \div 256) % 256 BY <1>1, <1>3, PowerIs
<1>6. w >= 3 => Bytes(v, w)[3] = (v \div 65536) % 256 BY <1>1, <1>3, PowerIs
<1>7. w >= 4 => Bytes(v, w)[4] = (v \div 16777216) % 256 BY <1>1, <1>3, PowerIs
<1> QED BY <1>4, <1>5, <1>6, <1>7 DEF ByteByByte
LEMMA Decimals ==
  ASSUME NEW v \in Nat
  PROVE  /\ v <= 255 => v % 256 = v
         /\ v <= 65535 => (v % 256) + 256 * ((v \div 256) % 256) = v
         /\ v <= 16777215 => (v % 256) + 256 * (((v \div 256) % 256) + 256 * ((v \div 65536) % 256)) = v
         /\ v \div 16777216 <= 255 =>
              (v % 256) + 256 * (((v \div 256) % 256) + 256 * (((v \div 65536) % 256) + 256 * ((v \div 16777216) % 256))) = v
<1>1. v <= 255 => v % 256 = v BY SMT
<1>2. v <= 65535 => (v % 256) + 256 * ((v \div 256) % 256) = v BY SMT
<1>3. v <= 16777215 => (v % 256) + 256 * (((v \div 256) % 256) + 256 * ((v \div 65536) % 256)) = v BY SMT
<1>4. v \div 16777216 <= 255 =>
        (v % 256) + 256 * (((v \div 256) % 256) + 256 * (((v \div 65536) % 256) + 256 * ((v \div 16777216) % 256))) = v
  BY SMT
<1> QED BY <1>1, <1>2, <1>3, <1>4
LEMMA NumberOfBytes ==
  ASSUME NEW w \in 1 .. 4, NEW v, Narrow(v, w), NEW s, DOMAIN s = 1 .. w, \A j \in 1 .. w : s[j] = Bytes(v, w)[j]
  PROVE  Number(s) = v
<1> DEFINE Digit(i) == IF i \in DOMAIN s THEN s[i] ELSE 0
<1>1. Number(s) = Digit(1) + 256 * (Digit(2) + 256 * (Digit(3) + 256 * Digit(4))) BY DEF Number
<1>2. v \in Nat /\ v \in Int BY DEF Narrow
<1>3. /\ Digit(1) = v % 256
      /\ Digit(2) = IF w >= 2 THEN (v \div 256) % 256 ELSE 0
      /\ Digit(3) = IF w >= 3 THEN (v \div 65536) % 256 ELSE 0
      /\ Digit(4) = IF w >= 4 THEN (v \div 16777216) % 256 ELSE 0
  <2>1. ByteByByte(Bytes(v, w), v, w) BY <1>2, BytesAre
  <2> DEFINE b == Bytes(v, w)
  <2>2. \A j \in 1 .. w : s[j] = b[j] OBVIOUS
  <2>3. ASSUME NEW i \in 1 .. 4 PROVE Digit(i) = IF w >= i THEN b[i] ELSE 0
    <3> HIDE DEF b
    <3>1. CASE w >= i
      <4>1. i \in 1 .. w /\ i \in DOMAIN s BY <3>1
      <4>2. s[i] = b[i] BY <2>2, <4>1
      <4> QED BY <3>1, <4>1, <4>2
    <3>2. CASE ~(w >= i)
      <4>1. i \notin DOMAIN s BY <3>2
      <4> QED BY <3>2, <4>1
    <3> QED BY <3>1, <3>2
  <2>4. /\ Digit(1) = IF w >= 1 THEN b[1] ELSE 0
        /\ Digit(2) = IF w >= 2 THEN b[2] ELSE 0
        /\ Digit(3) = IF w >= 3 THEN b[3] ELSE 0
        /\ Digit(4) = IF w >= 4 THEN b[4] ELSE 0
    <3> HIDE DEF Digit, b
    <3> QED BY <2>3
  <2>5. w >= 1 OBVIOUS
  <2>6. ByteByByte(b, v, w) BY <2>1
  <2> HIDE DEF Digit, b
  <2> QED BY <2>4, <2>5, <2>6 DEF ByteByByte
<1>4. /\ v % 256 \in Nat /\ (v \div 256) % 256 \in Nat /\ (v \div 65536) % 256 \in Nat
  BY <1>2, SMT
<1> HIDE DEF Digit
<1>5. CASE w = 1
  <2>1. Digit(1) = v % 256 /\ Digit(2) = 0 /\ Digit(3) = 0 /\ Digit(4) = 0 BY <1>3, <1>5
  <2>2. v % 256 = v BY <1>2, <1>5, Decimals DEF Narrow
  <2> QED BY <1>1, <1>2, <2>1, <2>2
<1>6. CASE w = 2
  <2> DEFINE a == v % 256
             b == (v \div 256) % 256
  <2>1. Digit(1) = a /\ Digit(2) = b /\ Digit(3) = 0 /\ Digit(4) = 0 BY <1>3, <1>6
  <2>2. a + 256 * b = v BY <1>2, <1>6, Decimals DEF Narrow
  <2>3. b \in Nat BY <1>4
  <2> HIDE DEF a, b
  <2> QED BY <1>1, <2>1, <2>2, <2>3
<1>7. CASE w = 3
  <2> DEFINE a == v % 256
             b == (v \div 256) % 256
             c == (v \div 65536) % 256
  <2>1. Digit(1) = a /\ Digit(2) = b /\ Digit(3) = c /\ Digit(4) = 0 BY <1>3, <1>7
  <2>2. a + 256 * (b + 256 * c) = v BY <1>2, <1>7, Decimals DEF Narrow
  <2>3. c \in Nat BY <1>4
  <2> HIDE DEF a, b, c
  <2> QED BY <1>1, <2>1, <2>2, <2>3
<1>8. CASE w = 4
  <2>1. (v % 256) + 256 * (((v \div 256) % 256) + 256 * (((v \div 65536) % 256) + 256 * ((v \div 16777216) % 256))) = v
    BY <1>2, <1>8, Decimals DEF Narrow
  <2> QED BY <1>1, <1>3, <1>8, <2>1
<1> QED BY <1>5, <1>6, <1>7, <1>8

LEMMA Unpacked ==
  ASSUME NEW layout, IsLayout(layout), NEW n \in Nat, NEW data, List(data, n), NEW a \in Nat,
         a + Size(layout) <= n, NEW val, NEW k \in 1 .. Len(layout), Placed(data, a, layout, val, k),
         Narrow(val[layout[k].name], layout[k].width)
  PROVE  Unpack(layout, data, a)[layout[k].name] = val[layout[k].name]
<1> DEFINE name == layout[k].name
           Index == CHOOSE i \in DOMAIN layout : layout[i].name = name
           end == Ends(layout)
           w == layout[k].width
           v == val[name]
           T == {data[i] : i \in 1 .. n}
<1>1. DOMAIN layout = 1 .. Len(layout) /\ w \in 1 .. 4 BY DEF IsLayout
<1>2. Index = k
  <2>1. Index \in DOMAIN layout /\ layout[Index].name = name BY <1>1
  <2> HIDE DEF Index
  <2> QED BY <1>1, <2>1 DEF IsLayout
<1>3. name \in {layout[i].name : i \in DOMAIN layout} BY <1>1
<1>4. Unpack(layout, data, a)[name] = Number(SubSeq(data, a + end[Index - 1] + 1, a + end[Index]))
  BY <1>3 DEF Unpack
<1>5. end[k - 1] \in Nat /\ end[k] = end[k - 1] + w /\ end[k] <= Size(layout) BY EndsGrow
<1>6. Size(layout) \in Nat BY PackPlaces
<1>7. \A j \in 1 .. w : data[a + end[k - 1] + j] = Bytes(v, w)[j] BY DEF Placed
<1>8. data \in Seq(T) /\ Len(data) = n
  <2>1. data = [i \in 1 .. n |-> data[i]] /\ Len(data) = n BY DEF List
  <2>2. \A i \in 1 .. n : data[i] \in T OBVIOUS
  <2> HIDE DEF T
  <2>3. data \in [1 .. n -> T] BY <2>1, <2>2
  <2> QED BY <2>1, <2>3
<1>9. Narrow(v, w) OBVIOUS
<1> HIDE DEF end, Index, T, w, v
<1> DEFINE b == a + end[k - 1]
<1>10. b + 1 \in Nat \ {0} /\ b + w \in 0 .. Len(data) /\ a + end[k] = b + w
  <2> DEFINE e == end[k - 1]
             z == Size(layout)
             t == end[k]
  <2>1. e \in Nat /\ t = e + w /\ t <= z /\ z \in Nat /\ w \in Nat /\ a + z <= n /\ Len(data) = n
    BY <1>1, <1>5, <1>6, <1>8
  <2> HIDE DEF e, z, t
  <2>2. a + e + 1 \in Nat \ {0} /\ a + e + w \in 0 .. Len(data) /\ a + t = a + e + w BY <2>1
  <2> QED BY <2>2 DEF e, t
<1> HIDE DEF b
<1> DEFINE s == SubSeq(data, b + 1, b + w)
<1>11. /\ Len(s) = (IF b + 1 <= b + w THEN (b + w) - (b + 1) + 1 ELSE 0) /\ DOMAIN s = 1 .. Len(s)
       /\ \A i \in 1 .. (b + w) - (b + 1) + 1 : s[i] = data[(b + 1) + i - 1]
  BY <1>8, <1>10, Slice
<1>12. b \in Nat BY <1>5 DEF b
<1> HIDE DEF s
<1>13. DOMAIN s = 1 .. w
  <2>1. Len(s) = w BY <1>1, <1>11, <1>12
  <2> QED BY <1>11, <2>1
<1>14. ASSUME NEW j \in 1 .. w PROVE s[j] = Bytes(v, w)[j]
  <2>1. j \in 1 .. (b + w) - (b + 1) + 1 /\ (b + 1) + j - 1 = b + j BY <1>1, <1>12
  <2>2. s[j] = data[b + j] BY <1>11, <2>1
  <2> QED BY <1>7, <2>2 DEF b
<1>15. Number(s) = v BY <1>1, <1>9, <1>13, <1>14, NumberOfBytes
<1>16. Unpack(layout, data, a)[name] = Number(s) BY <1>2, <1>4, <1>10 DEF b, s
<1> QED BY <1>15, <1>16 DEF v
(* A struct within other bytes, and all of its fields read back.            *)
Sits(data, a, layout, val) == \A k \in 1 .. Len(layout) : Placed(data, a, layout, val, k)
Fitting(layout, val) ==
  /\ val = [name \in {f.name : f \in ToSet(layout)} |-> val[name]]
  /\ \A k \in 1 .. Len(layout) : Narrow(val[layout[k].name], layout[k].width)
InWidth(v, w) == /\ w < 4 => v \in 0 .. Power[w + 1] - 1
                 /\ w = 4 => v \in Nat /\ v \div Power[4] \in 0 .. 255
LEMMA Upto == ASSUME NEW h \in Int, NEW v \in 0 .. h PROVE v \in Nat /\ v <= h
OBVIOUS
LEMMA NarrowIs == ASSUME NEW w \in 1 .. 4, NEW v, InWidth(v, w) PROVE Narrow(v, w)
<1>1. CASE w = 1
  <2>1. v \in 0 .. Power[2] - 1 BY <1>1 DEF InWidth
  <2>2. Power[2] - 1 = 255 BY PowerIs, SMT
  <2>3. Power[2] - 1 \in Int BY PowerIs, SMT
  <2>4. v \in Nat /\ v <= Power[2] - 1 BY <2>1, <2>3, Upto
  <2> QED BY <1>1, <2>2, <2>4, SMT DEF Narrow
<1>2. CASE w = 2
  <2>1. v \in 0 .. Power[3] - 1 BY <1>2 DEF InWidth
  <2>2. Power[3] - 1 = 65535 BY PowerIs, SMT
  <2>3. Power[3] - 1 \in Int BY PowerIs, SMT
  <2>4. v \in Nat /\ v <= Power[3] - 1 BY <2>1, <2>3, Upto
  <2> QED BY <1>2, <2>2, <2>4, SMT DEF Narrow
<1>3. CASE w = 3
  <2>1. v \in 0 .. Power[4] - 1 BY <1>3 DEF InWidth
  <2>2. Power[4] - 1 = 16777215 BY PowerIs, SMT
  <2>3. Power[4] - 1 \in Int BY PowerIs, SMT
  <2>4. v \in Nat /\ v <= Power[4] - 1 BY <2>1, <2>3, Upto
  <2> QED BY <1>3, <2>2, <2>4, SMT DEF Narrow
<1>4. CASE w = 4
  <2>1. v \in Nat /\ v \div Power[4] \in 0 .. 255 BY <1>4 DEF InWidth
  <2>2. v \div 16777216 \in 0 .. 255 BY <2>1, PowerIs, SMT
  <2>3. v \div 16777216 <= 255 BY <2>2, SMT
  <2> QED BY <1>4, <2>1, <2>3, SMT DEF Narrow
<1> QED BY <1>1, <1>2, <1>3, <1>4
LEMMA FilledFits ==
  ASSUME NEW layout, IsLayout(layout), NEW arg, Filled(layout, arg)
  PROVE  Fitting(layout, arg)
<1>1. ASSUME NEW k \in 1 .. Len(layout) PROVE Narrow(arg[layout[k].name], layout[k].width)
  <2>1. layout[k] \in ToSet(layout) /\ layout[k].width \in 1 .. 4 BY DEF IsLayout, ToSet
  <2>2. InWidth(arg[layout[k].name], layout[k].width) BY <2>1 DEF Filled, Packs, Carries, InWidth
  <2> QED BY <2>1, <2>2, NarrowIs
<1> QED BY <1>1 DEF Fitting, Filled, Carries
LEMMA UnpackedAll ==
  ASSUME NEW layout, IsLayout(layout), NEW n \in Nat, NEW data, List(data, n), NEW a \in Nat,
         a + Size(layout) <= n, NEW val, Sits(data, a, layout, val), Fitting(layout, val)
  PROVE  Unpack(layout, data, a) = val
<1> DEFINE u == Unpack(layout, data, a)
           Names == {f.name : f \in ToSet(layout)}
<1>1. \A k \in 1 .. Len(layout) : u[layout[k].name] = val[layout[k].name]
  <2> SUFFICES ASSUME NEW k \in 1 .. Len(layout) PROVE u[layout[k].name] = val[layout[k].name] OBVIOUS
  <2>1. Placed(data, a, layout, val, k) BY DEF Sits
  <2>2. Narrow(val[layout[k].name], layout[k].width) BY DEF Fitting
  <2> QED BY <2>1, <2>2, Unpacked
<1>2. Names = {layout[k].name : k \in 1 .. Len(layout)} /\ DOMAIN layout = 1 .. Len(layout)
  <2>1. DOMAIN layout = 1 .. Len(layout) BY DEF IsLayout
  <2> QED BY <2>1 DEF ToSet
<1>3. u = [name \in Names |-> u[name]]
  <2>1. u = [name \in {layout[k].name : k \in DOMAIN layout} |-> u[name]] BY DEF Unpack
  <2> HIDE DEF u, Names
  <2> QED BY <1>2, <2>1
<1>4. val = [name \in Names |-> val[name]] BY DEF Fitting
<1>5. \A name \in Names : u[name] = val[name] BY <1>1, <1>2
<1> HIDE DEF u, Names
<1>6. u = val BY <1>3, <1>4, <1>5
<1> QED BY <1>6 DEF u
LEMMA Within ==
  ASSUME NEW layout, IsLayout(layout), NEW k \in 1 .. Len(layout), NEW j \in 1 .. layout[k].width
  PROVE  Ends(layout)[k - 1] + j \in 1 .. Size(layout)
<1> DEFINE e == Ends(layout)[k - 1]
           t == Ends(layout)[k]
           w == layout[k].width
           z == Size(layout)
<1>1. e \in Nat /\ t = e + w /\ t <= z BY EndsGrow
<1>2. w \in Nat /\ z \in Nat
  <2>1. z \in Nat BY PackPlaces
  <2>2. w \in 1 .. 4 BY DEF IsLayout
  <2> HIDE DEF w, z
  <2> QED BY <2>1, <2>2
<1>3. j \in 1 .. w OBVIOUS
<1> HIDE DEF e, t, w, z
<1>4. e + j \in 1 .. z BY <1>1, <1>2, <1>3
<1> QED BY <1>4 DEF e, z
LEMMA SitsLeft ==
  ASSUME NEW layout, IsLayout(layout), NEW val, NEW m \in Nat, NEW n \in Nat, NEW s, NEW t, List(s, m), List(t, n),
         NEW a \in Nat, a + Size(layout) <= m, Sits(s, a, layout, val)
  PROVE  Sits(s \o t, a, layout, val)
<1> SUFFICES ASSUME NEW k \in 1 .. Len(layout), NEW j \in 1 .. layout[k].width
             PROVE  (s \o t)[a + Ends(layout)[k - 1] + j] = Bytes(val[layout[k].name], layout[k].width)[j]
  BY DEF Sits, Placed
<1> DEFINE e == Ends(layout)[k - 1]
           u == s \o t
<1>1. s[a + e + j] = Bytes(val[layout[k].name], layout[k].width)[j] BY DEF Sits, Placed
<1>2. e + j \in 1 .. Size(layout) /\ Size(layout) \in Nat /\ e \in Nat BY Within, PackPlaces, EndsGrow
<1>3. Follows(u, s, t, m, n) BY Joined
<1> HIDE DEF e, u
<1>5. j \in Nat BY DEF IsLayout
<1>4. a + e + j \in 1 .. m BY <1>2, <1>5
<1>6. u[a + e + j] = s[a + e + j] BY <1>3, <1>4 DEF Follows
<1> QED BY <1>1, <1>6 DEF u, e
LEMMA SitsRight ==
  ASSUME NEW layout, IsLayout(layout), NEW val, NEW m \in Nat, NEW n \in Nat, NEW s, NEW t, List(s, m), List(t, n),
         NEW a \in Nat, a + Size(layout) <= n, Sits(t, a, layout, val)
  PROVE  Sits(s \o t, m + a, layout, val)
<1> SUFFICES ASSUME NEW k \in 1 .. Len(layout), NEW j \in 1 .. layout[k].width
             PROVE  (s \o t)[m + a + Ends(layout)[k - 1] + j] = Bytes(val[layout[k].name], layout[k].width)[j]
  BY DEF Sits, Placed
<1> DEFINE e == Ends(layout)[k - 1]
           u == s \o t
<1>1. t[a + e + j] = Bytes(val[layout[k].name], layout[k].width)[j] BY DEF Sits, Placed
<1>2. e + j \in 1 .. Size(layout) /\ Size(layout) \in Nat /\ e \in Nat BY Within, PackPlaces, EndsGrow
<1>3. Follows(u, s, t, m, n) BY Joined
<1> HIDE DEF e, u
<1>5. j \in Nat BY DEF IsLayout
<1>4. a + e + j \in 1 .. n /\ m + a + e + j = m + (a + e + j) BY <1>2, <1>5
<1>6. u[m + a + e + j] = t[a + e + j] BY <1>3, <1>4 DEF Follows
<1> QED BY <1>1, <1>6 DEF u, e
LEMMA Packed ==
  ASSUME NEW layout, IsLayout(layout), NEW val
  PROVE  List(Pack(layout, val), Size(layout)) /\ Size(layout) \in Nat /\ Sits(Pack(layout, val), 0, layout, val)
BY PackPlaces DEF Sits
(* What is left of some bytes without the first c of them.                  *)
Shifted(t, s, c, n) == \A i \in 1 .. n - c : t[i] = s[c + i]
LEMMA Dropped ==
  ASSUME NEW n \in Nat, NEW s, List(s, n), NEW c \in 0 .. n
  PROVE  /\ List(SubSeq(s, c + 1, n), n - c)
         /\ Shifted(SubSeq(s, c + 1, n), s, c, n)
<1> DEFINE T == {s[i] : i \in 1 .. n}
           t == SubSeq(s, c + 1, n)
<1>1. s \in Seq(T) /\ Len(s) = n
  <2>1. s = [i \in 1 .. n |-> s[i]] /\ Len(s) = n BY DEF List
  <2>2. \A i \in 1 .. n : s[i] \in T OBVIOUS
  <2> HIDE DEF T
  <2>3. s \in [1 .. n -> T] BY <2>1, <2>2
  <2> QED BY <2>1, <2>3
<1>2. c + 1 \in Nat \ {0} /\ n \in 0 .. Len(s) BY <1>1
<1> HIDE DEF T
<1>3. /\ t \in Seq(T) /\ Len(t) = (IF c + 1 <= n THEN n - (c + 1) + 1 ELSE 0)
      /\ \A i \in 1 .. n - (c + 1) + 1 : t[i] = s[(c + 1) + i - 1]
  BY <1>1, <1>2, Slice
<1> HIDE DEF t
<1>4. Len(t) = n - c /\ n - c \in Nat BY <1>3
<1>5. t = [i \in 1 .. n - c |-> t[i]] BY <1>3, <1>4
<1>6. ASSUME NEW i \in 1 .. n - c PROVE t[i] = s[c + i]
  <2>1. i \in 1 .. n - (c + 1) + 1 /\ (c + 1) + i - 1 = c + i OBVIOUS
  <2> QED BY <1>3, <2>1
<1>7. List(t, n - c) BY <1>4, <1>5, Listed
<1> QED BY <1>6, <1>7 DEF t, Shifted
Reaches(layout, n, c, a, z) == n \in Nat /\ c \in 0 .. n /\ a \in Nat /\ z = c + a /\ z + Size(layout) <= n
LEMMA SitsShifted ==
  ASSUME NEW layout, IsLayout(layout), NEW val, NEW n, NEW s, NEW c, NEW t, Shifted(t, s, c, n),
         NEW a, NEW z, Reaches(layout, n, c, a, z), Sits(s, z, layout, val)
  PROVE  Sits(t, a, layout, val)
<1>9. n \in Nat /\ c \in 0 .. n /\ a \in Nat /\ z = c + a /\ z + Size(layout) <= n BY DEF Reaches
<1> SUFFICES ASSUME NEW k \in 1 .. Len(layout), NEW j \in 1 .. layout[k].width
             PROVE  t[a + Ends(layout)[k - 1] + j] = Bytes(val[layout[k].name], layout[k].width)[j]
  BY DEF Sits, Placed
<1>0. \A i \in 1 .. n - c : t[i] = s[c + i] BY DEF Shifted
<1> DEFINE e == Ends(layout)[k - 1]
<1>1. s[c + a + e + j] = Bytes(val[layout[k].name], layout[k].width)[j] BY <1>9 DEF Sits, Placed
<1>2. e + j \in 1 .. Size(layout) /\ Size(layout) \in Nat /\ e \in Nat BY Within, PackPlaces, EndsGrow
<1> HIDE DEF e
<1>5. j \in Nat BY DEF IsLayout
<1>4. a + e + j \in 1 .. n - c /\ c + a + e + j = c + (a + e + j) BY <1>2, <1>5, <1>9
<1>6. t[a + e + j] = s[c + a + e + j] BY <1>0, <1>4
<1> QED BY <1>1, <1>6 DEF e
LEMMA DroppedIs ==
  ASSUME NEW m \in Nat, NEW n \in Nat, NEW s, NEW t, List(s, m), List(t, n)
  PROVE  SubSeq(s \o t, m + 1, m + n) = t
<1> DEFINE u == s \o t
           r == SubSeq(u, m + 1, m + n)
<1>1. List(u, m + n) /\ Follows(u, s, t, m, n) BY Joined
<1> HIDE DEF u
<1>2. m + n \in Nat /\ m \in 0 .. m + n /\ (m + n) - m = n OBVIOUS
<1>3. List(r, (m + n) - m) /\ Shifted(r, u, m, m + n) BY <1>1, <1>2, Dropped
<1> HIDE DEF r
<1>4. \A i \in 1 .. n : r[i] = t[i] BY <1>1, <1>2, <1>3 DEF Shifted, Follows
<1>5. r = [i \in 1 .. n |-> r[i]] /\ t = [i \in 1 .. n |-> t[i]] BY <1>2, <1>3 DEF List
<1>6. r = t BY <1>4, <1>5
<1> QED BY <1>6 DEF r, u
LEMMA TailIs ==
  ASSUME NEW n \in Nat, n > 0, NEW s, List(s, n) PROVE List(Tail(s), n - 1) /\ Shifted(Tail(s), s, 1, n)
<1> DEFINE T == {s[i] : i \in 1 .. n}
           t == Tail(s)
<1>1. s \in Seq(T) /\ Len(s) = n
  <2>1. s = [i \in 1 .. n |-> s[i]] /\ Len(s) = n BY DEF List
  <2>2. \A i \in 1 .. n : s[i] \in T OBVIOUS
  <2> HIDE DEF T
  <2>3. s \in [1 .. n -> T] BY <2>1, <2>2
  <2> QED BY <2>1, <2>3
<1> HIDE DEF T
<1>2. s # <<>> BY <1>1
<1>3. t \in Seq(T) /\ Len(t) = n - 1 /\ \A i \in 1 .. Len(t) : t[i] = s[i + 1] BY <1>1, <1>2, HeadTailProperties
<1> HIDE DEF t
<1>4. n - 1 \in Nat /\ t = [i \in 1 .. n - 1 |-> t[i]] BY <1>3
<1>5. List(t, n - 1) BY <1>4, Listed
<1>6. ASSUME NEW i \in 1 .. n - 1 PROVE t[i] = s[1 + i]
  <2>1. i + 1 = 1 + i OBVIOUS
  <2> QED BY <1>3, <2>1
<1> QED BY <1>5, <1>6 DEF Shifted, t
-----------------------------------------------------------------------------
(* The layouts: how long each is, and that no two of its fields share a     *)
(* name.                                                                    *)
Sums(g, layout) == g[0] = 0 /\ \A k \in 1 .. Len(layout) : g[k] = g[k - 1] + layout[k].width
LEMMA EndsAlone ==
  ASSUME NEW layout, IsLayout(layout), NEW g, Sums(g, layout)
  PROVE  \A k \in 0 .. Len(layout) : Ends(layout)[k] = g[k]
<1> DEFINE n == Len(layout)
           end == Ends(layout)
           S == {k \in Nat : k <= n => end[k] = g[k]}
<1>0. n \in Nat BY DEF IsLayout
<1>1. EndsAt(end, layout) BY EndsRecur
<1> HIDE DEF end
<1>2. 0 \in S
  <2>1. 0 \in 0 .. n BY <1>0
  <2>2. end[0] = 0 BY <1>1, <2>1 DEF EndsAt
  <2> QED BY <2>2 DEF Sums
<1>3. ASSUME NEW k \in Nat, k \in S PROVE k + 1 \in S
  <2> SUFFICES ASSUME k + 1 <= n PROVE end[k + 1] = g[k + 1] OBVIOUS
  <2>1. k + 1 \in 0 .. n /\ k + 1 \in 1 .. n /\ k + 1 # 0 /\ (k + 1) - 1 = k /\ k <= n BY <1>0
  <2>2. end[k + 1] = end[k] + layout[k + 1].width BY <1>1, <2>1 DEF EndsAt
  <2>3. g[k + 1] = g[k] + layout[k + 1].width BY <2>1 DEF Sums
  <2> QED BY <1>3, <2>1, <2>2, <2>3
<1>4. Nat \subseteq S
  <2> HIDE DEF S
  <2> QED BY <1>2, <1>3, Induction
<1>5. \A k \in 0 .. n : end[k] = g[k] BY <1>0, <1>4
<1> QED BY <1>5 DEF end
NamesOf(layout) == {layout[k].name : k \in 1 .. Len(layout)}
LayoutOf(layout, size, names) ==
  IsLayout(layout) /\ List(layout, Len(layout)) /\ Size(layout) = size /\ NamesOf(layout) = names
Named(names, n) ==
  n \in Nat /\ names = [i \in 1 .. n |-> names[i]] /\ \A i, j \in 1 .. n : names[i] = names[j] => i = j
LEMMA FieldsLayout ==
  ASSUME NEW w \in 1 .. 4, NEW n, NEW names, Named(names, n)
  PROVE  LayoutOf(F(w, names), n * w, {names[i] : i \in 1 .. n})
<1>0. n \in Nat /\ names = [i \in 1 .. n |-> names[i]] /\ \A i, j \in 1 .. n : names[i] = names[j] => i = j
  BY DEF Named
<1> DEFINE L == F(w, names)
           g == [k \in 0 .. n |-> k * w]
<1>1. List(L, n) /\ FieldsAre(L, w, names, n) BY <1>0, Fields
<1> HIDE DEF L
<1>2. Len(L) = n /\ DOMAIN L = 1 .. n BY <1>1 DEF List
<1>3. \A k \in 1 .. n : L[k].name = names[k] /\ L[k].width = w
  <2> SUFFICES ASSUME NEW k \in 1 .. n PROVE L[k].name = names[k] /\ L[k].width = w OBVIOUS
  <2>1. L[k] = [name |-> names[k], width |-> w] BY <1>1 DEF FieldsAre
  <2> QED BY <2>1
<1>4. IsLayout(L) BY <1>0, <1>2, <1>3 DEF IsLayout
<1>5. Sums(g, L)
  <2>1. g[0] = 0
    <3>1. 0 * w = 0 /\ 0 \in 0 .. n BY <1>0, SMT
    <3> QED BY <3>1
  <2>2. ASSUME NEW k \in 1 .. n PROVE g[k] = g[k - 1] + L[k].width
    <3>1. k \in 0 .. n /\ k - 1 \in 0 .. n BY <1>0
    <3>2. k * w = (k - 1) * w + w BY <1>0, SMT
    <3>3. g[k] = k * w /\ g[k - 1] = (k - 1) * w BY <3>1
    <3> QED BY <1>3, <3>2, <3>3
  <2> QED BY <1>2, <2>1, <2>2 DEF Sums
<1>6. Size(L) = n * w
  <2>1. n \in 0 .. Len(L) /\ n \in 0 .. n BY <1>0, <1>2
  <2>2. Ends(L)[n] = g[n] BY <1>4, <1>5, <2>1, EndsAlone
  <2>3. g[n] = n * w BY <2>1
  <2> QED BY <1>2, <2>2, <2>3 DEF Size
<1>7. NamesOf(L) = {names[i] : i \in 1 .. n} BY <1>2, <1>3 DEF NamesOf
<1> QED BY <1>1, <1>2, <1>4, <1>6, <1>7 DEF LayoutOf, L
LEMMA JoinLayout ==
  ASSUME NEW a, NEW b, NEW size, NEW more, NEW names, NEW others,
         LayoutOf(a, size, names), LayoutOf(b, more, others), names \cap others = {}
  PROVE  LayoutOf(a \o b, size + more, names \cup others)
<1> DEFINE m == Len(a)
           n == Len(b)
           L == a \o b
           ea == Ends(a)
           eb == Ends(b)
           g == [k \in 0 .. m + n |-> IF k <= m THEN ea[k] ELSE size + eb[k - m]]
<1>0. m \in Nat /\ n \in Nat /\ List(a, m) /\ List(b, n) /\ IsLayout(a) /\ IsLayout(b) /\ size = ea[m] /\ more = eb[n]
  BY DEF LayoutOf, IsLayout, Size
<1>1. List(L, m + n) /\ Follows(L, a, b, m, n) BY <1>0, Joined
<1> HIDE DEF L
<1>2. Len(L) = m + n /\ DOMAIN L = 1 .. m + n BY <1>1 DEF List
<1>3. ASSUME NEW k \in 1 .. m + n
      PROVE  (k \in 1 .. m /\ L[k] = a[k]) \/ (k - m \in 1 .. n /\ L[k] = b[k - m] /\ ~(k <= m))
  <2>1. k \in 1 .. m \/ (k - m \in 1 .. n /\ k = m + (k - m) /\ ~(k <= m)) BY <1>0
  <2> QED BY <1>1, <2>1 DEF Follows
<1>4. \A k \in 1 .. m + n : L[k].width \in 1 .. 4
  <2>1. (\A k \in 1 .. m : a[k].width \in 1 .. 4) /\ \A k \in 1 .. n : b[k].width \in 1 .. 4 BY <1>0 DEF IsLayout
  <2> QED BY <1>3, <2>1
<1>5. ASSUME NEW i \in 1 .. m + n, NEW j \in 1 .. m + n, L[i].name = L[j].name PROVE i = j
  <2>1. /\ \A k \in 1 .. m : a[k].name \in names
        /\ \A k \in 1 .. n : b[k].name \in others
    BY DEF LayoutOf, NamesOf
  <2>2. /\ \A k, l \in 1 .. m : a[k].name = a[l].name => k = l
        /\ \A k, l \in 1 .. n : b[k].name = b[l].name => k = l
    BY <1>0 DEF IsLayout
  <2>3. (i \in 1 .. m /\ L[i] = a[i]) \/ (i - m \in 1 .. n /\ L[i] = b[i - m]) BY <1>3
  <2>4. (j \in 1 .. m /\ L[j] = a[j]) \/ (j - m \in 1 .. n /\ L[j] = b[j - m]) BY <1>3
  <2>5. CASE i \in 1 .. m /\ L[i] = a[i]
    <3>1. j \in 1 .. m /\ L[j] = a[j] BY <1>5, <2>1, <2>4, <2>5
    <3> QED BY <1>5, <2>2, <2>5, <3>1
  <2>6. CASE i - m \in 1 .. n /\ L[i] = b[i - m]
    <3>1. j - m \in 1 .. n /\ L[j] = b[j - m] BY <1>5, <2>1, <2>4, <2>6
    <3>2. i - m = j - m BY <1>5, <2>2, <2>6, <3>1
    <3> QED BY <1>0, <3>2
  <2> QED BY <2>3, <2>5, <2>6
<1>6. IsLayout(L) BY <1>0, <1>2, <1>4, <1>5 DEF IsLayout
<1>7. ea \in [0 .. m -> Nat] /\ eb \in [0 .. n -> Nat] /\ EndsAt(ea, a) /\ EndsAt(eb, b) BY <1>0, EndsRecur
<1> HIDE DEF ea, eb
<1>8. Sums(g, L)
  <2>0. 0 \in 0 .. m /\ 0 \in 0 .. n /\ m \in 0 .. m BY <1>0
  <2>1. g[0] = 0
    <3>1. ea[0] = 0 BY <1>7, <2>0 DEF EndsAt
    <3>2. 0 \in 0 .. m + n /\ 0 <= m BY <1>0
    <3> QED BY <3>1, <3>2
  <2>2. ASSUME NEW k \in 1 .. m + n PROVE g[k] = g[k - 1] + L[k].width
    <3>1. k \in 0 .. m + n /\ k - 1 \in 0 .. m + n BY <1>0
    <3>2. /\ g[k] = IF k <= m THEN ea[k] ELSE size + eb[k - m]
          /\ g[k - 1] = IF k - 1 <= m THEN ea[k - 1] ELSE size + eb[(k - 1) - m]
      BY <3>1
    <3> HIDE DEF g
    <3>3. CASE k \in 1 .. m /\ L[k] = a[k]
      <4>1. k \in 0 .. m /\ k # 0 /\ k <= m /\ k - 1 <= m BY <3>3, <1>0
      <4>2. ea[k] = ea[k - 1] + a[k].width BY <1>7, <4>1 DEF EndsAt
      <4> QED BY <3>2, <3>3, <4>1, <4>2
    <3>4. CASE k - m \in 1 .. n /\ L[k] = b[k - m] /\ ~(k <= m)
      <4>1. k - m \in 0 .. n /\ k - m # 0 /\ (k - m) - 1 \in 0 .. n BY <3>4, <1>0
      <4>2. eb[k - m] = eb[(k - m) - 1] + b[k - m].width BY <1>7, <4>1 DEF EndsAt
      <4>3. g[k] = size + eb[k - m] BY <3>2, <3>4
      <4>4. g[k - 1] = size + eb[(k - m) - 1]
        <5>1. CASE k - 1 <= m
          <6>1. k - 1 = m /\ (k - m) - 1 = 0 BY <1>0, <3>4, <5>1
          <6>2. eb[0] = 0 BY <1>7, <2>0 DEF EndsAt
          <6>3. g[k - 1] = ea[m] BY <3>2, <5>1, <6>1
          <6>4. ea[m] \in Nat /\ ea[m] = size BY <1>0, <1>7, <2>0 DEF ea
          <6> QED BY <6>1, <6>2, <6>3, <6>4
        <5>2. CASE ~(k - 1 <= m)
          <6>1. (k - 1) - m = (k - m) - 1 BY <1>0
          <6> QED BY <3>2, <5>2, <6>1
        <5> QED BY <5>1, <5>2
      <4>5. size \in Nat BY <1>0, <1>7, <2>0 DEF ea
      <4>6. eb[k - m] \in Nat /\ eb[(k - m) - 1] \in Nat BY <1>7, <4>1
      <4>7. b[k - m].width \in Nat BY <1>0, <3>4 DEF IsLayout
      <4> HIDE DEF m
      <4> QED BY <3>4, <4>2, <4>3, <4>4, <4>5, <4>6, <4>7
    <3> QED BY <1>3, <3>3, <3>4
  <2> QED BY <1>2, <2>1, <2>2 DEF Sums
<1>9. Size(L) = size + more
  <2>1. m + n \in 0 .. Len(L) /\ m + n \in 0 .. m + n BY <1>0, <1>2
  <2>2. Ends(L)[m + n] = g[m + n] BY <1>6, <1>8, <2>1, EndsAlone
  <2>3. g[m + n] = IF m + n <= m THEN ea[m + n] ELSE size + eb[(m + n) - m] BY <2>1
  <2>4. (m + n) - m = n /\ m \in 0 .. m /\ n \in 0 .. n /\ 0 \in 0 .. n BY <1>0
  <2>5. size = ea[m] /\ more = eb[n] /\ ea[m] \in Nat BY <1>0, <1>7, <2>4 DEF ea, eb
  <2>6. eb[0] = 0 BY <1>7, <2>4 DEF EndsAt
  <2>7. m + n <= m => n = 0 /\ m + n = m BY <1>0
  <2>8. g[m + n] = size + more BY <2>3, <2>4, <2>5, <2>6, <2>7
  <2> QED BY <1>2, <2>2, <2>8 DEF Size
<1>10. NamesOf(L) = names \cup others
  <2>1. names = {a[k].name : k \in 1 .. m} /\ others = {b[k].name : k \in 1 .. n} BY DEF LayoutOf, NamesOf
  <2>2. \A k \in 1 .. m : k \in 1 .. m + n /\ L[k] = a[k] BY <1>0, <1>1 DEF Follows
  <2>3. \A k \in 1 .. n : m + k \in 1 .. m + n /\ L[m + k] = b[k] BY <1>0, <1>1 DEF Follows
  <2>4. \A k \in 1 .. m + n : L[k].name \in names \cup others BY <1>3, <2>1
  <2>5. \A x \in names \cup others : \E k \in 1 .. m + n : x = L[k].name
    <3> SUFFICES ASSUME NEW x \in names \cup others PROVE \E k \in 1 .. m + n : x = L[k].name OBVIOUS
    <3>1. CASE x \in names
      <4>1. PICK k \in 1 .. m : x = a[k].name BY <2>1, <3>1
      <4>2. k \in 1 .. m + n /\ x = L[k].name BY <2>2, <4>1
      <4> QED BY <4>2
    <3>2. CASE x \in others
      <4>1. PICK k \in 1 .. n : x = b[k].name BY <2>1, <3>2
      <4>2. m + k \in 1 .. m + n /\ x = L[m + k].name BY <2>3, <4>1
      <4> QED BY <4>2
    <3> QED BY <3>1, <3>2
  <2> QED BY <1>2, <2>4, <2>5 DEF NamesOf
<1>11. List(L, Len(L)) BY <1>1, <1>2
<1> QED BY <1>6, <1>9, <1>10, <1>11 DEF LayoutOf, L
LEMMA FieldOne == ASSUME NEW w \in 1 .. 4, NEW a PROVE LayoutOf(F(w, <<a>>), w, {a})
<1> DEFINE names == <<a>>
<1>1. names = [i \in 1 .. 1 |-> names[i]] /\ names[1] = a OBVIOUS
<1> HIDE DEF names
<1>2. \A i, j \in 1 .. 1 : names[i] = names[j] => i = j OBVIOUS
<1>4. Named(names, 1) /\ 1 \in 1 .. 4 BY <1>1, <1>2 DEF Named
<1>3. LayoutOf(F(w, names), 1 * w, {names[i] : i \in 1 .. 1}) BY <1>4, FieldsLayout
<1>6. 1 * w = w BY SMT
<1>5. {names[i] : i \in 1 .. 1} = {a} BY <1>1
<1> QED BY <1>3, <1>5, <1>6 DEF names
LEMMA FieldTwo == ASSUME NEW w \in 1 .. 4, NEW a, NEW b, a # b PROVE LayoutOf(F(w, <<a, b>>), 2 * w, {a, b})
<1> DEFINE names == <<a, b>>
<1>1. names = [i \in 1 .. 2 |-> names[i]] /\ names[1] = a /\ names[2] = b OBVIOUS
<1> HIDE DEF names
<1>0. 1 .. 2 = {1, 2} OBVIOUS
<1>2. \A i, j \in 1 .. 2 : names[i] = names[j] => i = j BY <1>0, <1>1
<1>4. Named(names, 2) /\ 1 \in 1 .. 4 BY <1>1, <1>2 DEF Named
<1>3. LayoutOf(F(w, names), 2 * w, {names[i] : i \in 1 .. 2}) BY <1>4, FieldsLayout
<1>5. {names[i] : i \in 1 .. 2} = {a, b} BY <1>0, <1>1
<1> QED BY <1>3, <1>5 DEF names
LEMMA FieldThree ==
  ASSUME NEW w \in 1 .. 4, NEW a, NEW b, NEW c, a # b, b # c, a # c
  PROVE  LayoutOf(F(w, <<a, b, c>>), 3 * w, {a, b, c})
<1> DEFINE names == <<a, b, c>>
<1>1. names = [i \in 1 .. 3 |-> names[i]] /\ names[1] = a /\ names[2] = b /\ names[3] = c OBVIOUS
<1> HIDE DEF names
<1>0. 1 .. 3 = {1, 2, 3} OBVIOUS
<1>2. \A i, j \in 1 .. 3 : names[i] = names[j] => i = j BY <1>0, <1>1
<1>4. Named(names, 3) /\ 1 \in 1 .. 4 BY <1>1, <1>2 DEF Named
<1>3. LayoutOf(F(w, names), 3 * w, {names[i] : i \in 1 .. 3}) BY <1>4, FieldsLayout
<1>5. {names[i] : i \in 1 .. 3} = {a, b, c} BY <1>0, <1>1
<1> QED BY <1>3, <1>5 DEF names
LEMMA FieldsSix ==
  LayoutOf(F(1, <<"startcode", "crc", "version", "length", "mtype", "flags">>), 6,
           {"startcode", "crc", "version", "length", "mtype", "flags"})
<1> DEFINE names == <<"startcode", "crc", "version", "length", "mtype", "flags">>
<1>1. /\ names = [i \in 1 .. 6 |-> names[i]]
      /\ names[1] = "startcode" /\ names[2] = "crc" /\ names[3] = "version" /\ names[4] = "length"
      /\ names[5] = "mtype" /\ names[6] = "flags"
  OBVIOUS
<1> HIDE DEF names
<1>0. 1 .. 6 = {1, 2, 3, 4, 5, 6} OBVIOUS
<1>2. \A i, j \in 1 .. 6 : names[i] = names[j] => i = j BY <1>0, <1>1
<1>4. Named(names, 6) /\ 1 \in 1 .. 4 BY <1>1, <1>2 DEF Named
<1>3. LayoutOf(F(1, names), 6 * 1, {names[i] : i \in 1 .. 6}) BY <1>4, FieldsLayout
<1>5. {names[i] : i \in 1 .. 6} = {"startcode", "crc", "version", "length", "mtype", "flags"} BY <1>0, <1>1
<1> QED BY <1>3, <1>5 DEF names
LEMMA FieldsOfModule ==
  LayoutOf(F(1, <<"magic", "protocol_version", "hardware_version", "baud", "num_outputs", "flags">>), 6,
           {"magic", "protocol_version", "hardware_version", "baud", "num_outputs", "flags"})
<1> DEFINE names == <<"magic", "protocol_version", "hardware_version", "baud", "num_outputs", "flags">>
<1>1. /\ names = [i \in 1 .. 6 |-> names[i]]
      /\ names[1] = "magic" /\ names[2] = "protocol_version" /\ names[3] = "hardware_version" /\ names[4] = "baud"
      /\ names[5] = "num_outputs" /\ names[6] = "flags"
  OBVIOUS
<1> HIDE DEF names
<1>0. 1 .. 6 = {1, 2, 3, 4, 5, 6} OBVIOUS
<1>2. \A i, j \in 1 .. 6 : names[i] = names[j] => i = j BY <1>0, <1>1
<1>4. Named(names, 6) /\ 1 \in 1 .. 4 BY <1>1, <1>2 DEF Named
<1>3. LayoutOf(F(1, names), 6 * 1, {names[i] : i \in 1 .. 6}) BY <1>4, FieldsLayout
<1>5. {names[i] : i \in 1 .. 6} = {"magic", "protocol_version", "hardware_version", "baud", "num_outputs", "flags"}
  BY <1>0, <1>1
<1> QED BY <1>3, <1>5 DEF names
LEMMA FieldsOfSparkle ==
  LayoutOf(F(1, <<"sparkle_threshold", "bg_threshold", "hue_min", "hue_max", "sat_min", "sat_max", "val_min", "val_max">>),
           8, {"sparkle_threshold", "bg_threshold", "hue_min", "hue_max", "sat_min", "sat_max", "val_min", "val_max"})
<1> DEFINE names == <<"sparkle_threshold", "bg_threshold", "hue_min", "hue_max",
                      "sat_min", "sat_max", "val_min", "val_max">>
<1>1. /\ names = [i \in 1 .. 8 |-> names[i]]
      /\ names[1] = "sparkle_threshold" /\ names[2] = "bg_threshold" /\ names[3] = "hue_min" /\ names[4] = "hue_max"
      /\ names[5] = "sat_min" /\ names[6] = "sat_max" /\ names[7] = "val_min" /\ names[8] = "val_max"
  OBVIOUS
<1> HIDE DEF names
<1>0. 1 .. 8 = {1, 2, 3, 4, 5, 6, 7, 8} OBVIOUS
<1>2. \A i, j \in 1 .. 8 : names[i] = names[j] => i = j BY <1>0, <1>1
<1>4. Named(names, 8) /\ 1 \in 1 .. 4 BY <1>1, <1>2 DEF Named
<1>3. LayoutOf(F(1, names), 8 * 1, {names[i] : i \in 1 .. 8}) BY <1>4, FieldsLayout
<1>5. {names[i] : i \in 1 .. 8} =
        {"sparkle_threshold", "bg_threshold", "hue_min", "hue_max", "sat_min", "sat_max", "val_min", "val_max"}
  BY <1>0, <1>1
<1> QED BY <1>3, <1>5 DEF names
LEMMA ThresholdFields ==
  LayoutOf(F(1, Thresholds), 12, {"t1", "t2", "t3", "t4", "t5", "t6", "t7", "t8", "t9", "t10", "t11", "t12"})
<1> DEFINE names == Thresholds
<1>1. /\ names = [i \in 1 .. 12 |-> names[i]]
      /\ names[1] = "t1" /\ names[2] = "t2" /\ names[3] = "t3" /\ names[4] = "t4"
      /\ names[5] = "t5" /\ names[6] = "t6" /\ names[7] = "t7" /\ names[8] = "t8"
      /\ names[9] = "t9" /\ names[10] = "t10" /\ names[11] = "t11" /\ names[12] = "t12"
  BY DEF Thresholds
<1> HIDE DEF names
<1>0. 1 .. 12 = {1, 2, 3, 4, 5, 6, 7, 8, 9, 10, 11, 12} OBVIOUS
<1>2. \A i, j \in 1 .. 12 : names[i] = names[j] => i = j BY <1>0, <1>1
<1>4. Named(names, 12) /\ 1 \in 1 .. 4 BY <1>1, <1>2 DEF Named
<1>3. LayoutOf(F(1, names), 12 * 1, {names[i] : i \in 1 .. 12}) BY <1>4, FieldsLayout
<1>5. {names[i] : i \in 1 .. 12} = {"t1", "t2", "t3", "t4", "t5", "t6", "t7", "t8", "t9", "t10", "t11", "t12"}
  BY <1>0, <1>1
<1> QED BY <1>3, <1>5 DEF names
Each(n) == [k \in 1 .. SEQUENCE_MAX |-> <<n, k>>]
Keys(n) == {<<n, k>> : k \in 1 .. 8}
LEMMA EachLayout == ASSUME NEW w \in 1 .. 4, NEW n PROVE LayoutOf(F(w, Each(n)), 8 * w, Keys(n))
<1> DEFINE names == Each(n)
<1>1. names = [i \in 1 .. 8 |-> names[i]] /\ \A i \in 1 .. 8 : names[i] = <<n, i>> BY DEF SEQUENCE_MAX, Each
<1> HIDE DEF names
<1>2. \A i, j \in 1 .. 8 : names[i] = names[j] => i = j BY <1>1
<1>4. Named(names, 8) BY <1>1, <1>2 DEF Named
<1>3. LayoutOf(F(w, names), 8 * w, {names[i] : i \in 1 .. 8}) BY <1>4, FieldsLayout
<1>5. {names[i] : i \in 1 .. 8} = Keys(n) BY <1>1 DEF Keys
<1> QED BY <1>3, <1>5 DEF names
LEMMA MsgHdrIs == 
  LayoutOf(MsgHdr, 8,
           {"startcode", "crc", "version", "length", "mtype", "flags", "address"})
<1> DEFINE a == F(1, <<"startcode", "crc", "version", "length", "mtype", "flags">>)
           b == F(2, <<"address">>)
           ab == a \o b
<1>1. LayoutOf(a, 6, {"startcode", "crc", "version", "length", "mtype", "flags"}) BY FieldsSix
<1>2. LayoutOf(b, 2, {"address"}) BY FieldOne
<1> HIDE DEF a, b
<1>3. LayoutOf(ab, 8, {"startcode", "crc", "version", "length", "mtype", "flags", "address"})
  <2>1. {"startcode", "crc", "version", "length", "mtype", "flags"} \cap {"address"} = {} /\ {"startcode", "crc", "version", "length", "mtype", "flags"} \cup {"address"} = {"startcode", "crc", "version", "length", "mtype", "flags", "address"} OBVIOUS
  <2>2. LayoutOf(ab, 6 + 2, {"startcode", "crc", "version", "length", "mtype", "flags"} \cup {"address"}) BY <1>1, <1>2, <2>1, JoinLayout
  <2> QED BY <2>1, <2>2
<1> HIDE DEF ab
<1> QED BY <1>3 DEF a, b, ab, MsgHdr
LEMMA OutputHdrIs == LayoutOf(OutputHdr, 2, {"outputtype", "output"})
BY FieldTwo DEF OutputHdr
LEMMA ProgramHdrIs == LayoutOf(ProgramHdr, 3, {"outputtype", "output", "program"})
<1> DEFINE a == OutputHdr
           b == F(1, <<"program">>)
           ab == a \o b
<1>1. LayoutOf(a, 2, {"outputtype", "output"}) BY OutputHdrIs
<1>2. LayoutOf(b, 1, {"program"}) BY FieldOne
<1> HIDE DEF a, b
<1>3. LayoutOf(ab, 3, {"outputtype", "output", "program"})
  <2>1. {"outputtype", "output"} \cap {"program"} = {} /\ {"outputtype", "output"} \cup {"program"} = {"outputtype", "output", "program"} OBVIOUS
  <2>2. LayoutOf(ab, 2 + 1, {"outputtype", "output"} \cup {"program"}) BY <1>1, <1>2, <2>1, JoinLayout
  <2> QED BY <2>1, <2>2
<1> HIDE DEF ab
<1> QED BY <1>3 DEF a, b, ab, ProgramHdr
LEMMA BlinkIs == LayoutOf(BlinkFormat, 10, {"on_period", "on_value", "off_period", "off_value"})
<1> DEFINE a == F(2, <<"on_period">>)
           b == F(3, <<"on_value">>)
           c == F(2, <<"off_period">>)
           d == F(3, <<"off_value">>)
           ab == a \o b
           abc == ab \o c
           abcd == abc \o d
<1>1. LayoutOf(a, 2, {"on_period"}) BY FieldOne
<1>2. LayoutOf(b, 3, {"on_value"}) BY FieldOne
<1>3. LayoutOf(c, 2, {"off_period"}) BY FieldOne
<1>4. LayoutOf(d, 3, {"off_value"}) BY FieldOne
<1> HIDE DEF a, b, c, d
<1>5. LayoutOf(ab, 5, {"on_period", "on_value"})
  <2>1. {"on_period"} \cap {"on_value"} = {} /\ {"on_period"} \cup {"on_value"} = {"on_period", "on_value"} OBVIOUS
  <2>2. LayoutOf(ab, 2 + 3, {"on_period"} \cup {"on_value"}) BY <1>1, <1>2, <2>1, JoinLayout
  <2> QED BY <2>1, <2>2
<1> HIDE DEF ab
<1>6. LayoutOf(abc, 7, {"on_period", "on_value", "off_period"})
  <2>1. {"on_period", "on_value"} \cap {"off_period"} = {} /\ {"on_period", "on_value"} \cup {"off_period"} = {"on_period", "on_value", "off_period"} OBVIOUS
  <2>2. LayoutOf(abc, 5 + 2, {"on_period", "on_value"} \cup {"off_period"}) BY <1>5, <1>3, <2>1, JoinLayout
  <2> QED BY <2>1, <2>2
<1> HIDE DEF abc
<1>7. LayoutOf(abcd, 10, {"on_period", "on_value", "off_period", "off_value"})
  <2>1. {"on_period", "on_value", "off_period"} \cap {"off_value"} = {} /\ {"on_period", "on_value", "off_period"} \cup {"off_value"} = {"on_period", "on_value", "off_period", "off_value"} OBVIOUS
  <2>2. LayoutOf(abcd, 7 + 3, {"on_period", "on_value", "off_period"} \cup {"off_value"}) BY <1>6, <1>4, <2>1, JoinLayout
  <2> QED BY <2>1, <2>2
<1> HIDE DEF abcd
<1> QED BY <1>7 DEF a, b, c, d, ab, abc, abcd, BlinkFormat
LEMMA TimedIs == LayoutOf(TimedFormat, 10, {"period", "start_value", "stop_value"})
<1> DEFINE a == F(4, <<"period">>)
           b == F(3, <<"start_value", "stop_value">>)
           ab == a \o b
<1>1. LayoutOf(a, 4, {"period"}) BY FieldOne
<1>2. LayoutOf(b, 6, {"start_value", "stop_value"}) BY FieldTwo
<1> HIDE DEF a, b
<1>3. LayoutOf(ab, 10, {"period", "start_value", "stop_value"})
  <2>1. {"period"} \cap {"start_value", "stop_value"} = {} /\ {"period"} \cup {"start_value", "stop_value"} = {"period", "start_value", "stop_value"} OBVIOUS
  <2>2. LayoutOf(ab, 4 + 6, {"period"} \cup {"start_value", "stop_value"}) BY <1>1, <1>2, <2>1, JoinLayout
  <2> QED BY <2>1, <2>2
<1> HIDE DEF ab
<1> QED BY <1>3 DEF a, b, ab, TimedFormat
LEMMA FadeIs == LayoutOf(FadeFormat, 11, {"period", "start_value", "stop_value", "flags"})
<1> DEFINE a == F(4, <<"period">>)
           b == F(3, <<"start_value", "stop_value">>)
           c == F(1, <<"flags">>)
           ab == a \o b
           abc == ab \o c
<1>1. LayoutOf(a, 4, {"period"}) BY FieldOne
<1>2. LayoutOf(b, 6, {"start_value", "stop_value"}) BY FieldTwo
<1>3. LayoutOf(c, 1, {"flags"}) BY FieldOne
<1> HIDE DEF a, b, c
<1>4. LayoutOf(ab, 10, {"period", "start_value", "stop_value"})
  <2>1. {"period"} \cap {"start_value", "stop_value"} = {} /\ {"period"} \cup {"start_value", "stop_value"} = {"period", "start_value", "stop_value"} OBVIOUS
  <2>2. LayoutOf(ab, 4 + 6, {"period"} \cup {"start_value", "stop_value"}) BY <1>1, <1>2, <2>1, JoinLayout
  <2> QED BY <2>1, <2>2
<1> HIDE DEF ab
<1>5. LayoutOf(abc, 11, {"period", "start_value", "stop_value", "flags"})
  <2>1. {"period", "start_value", "stop_value"} \cap {"flags"} = {} /\ {"period", "start_value", "stop_value"} \cup {"flags"} = {"period", "start_value", "stop_value", "flags"} OBVIOUS
  <2>2. LayoutOf(abc, 10 + 1, {"period", "start_value", "stop_value"} \cup {"flags"}) BY <1>4, <1>3, <2>1, JoinLayout
  <2> QED BY <2>1, <2>2
<1> HIDE DEF abc
<1> QED BY <1>5 DEF a, b, c, ab, abc, FadeFormat
LEMMA SparkleIs == 
  LayoutOf(SparkleFormat, 13,
           {"period", "bg", "sparkle_threshold", "bg_threshold", "hue_min", "hue_max", "sat_min", "sat_max", "val_min", "val_max"})
<1> DEFINE a == F(2, <<"period">>)
           b == F(3, <<"bg">>)
           c == F(1, <<"sparkle_threshold", "bg_threshold", "hue_min", "hue_max", "sat_min", "sat_max", "val_min", "val_max">>)
           ab == a \o b
           abc == ab \o c
<1>1. LayoutOf(a, 2, {"period"}) BY FieldOne
<1>2. LayoutOf(b, 3, {"bg"}) BY FieldOne
<1>3. LayoutOf(c, 8, {"sparkle_threshold", "bg_threshold", "hue_min", "hue_max", "sat_min", "sat_max", "val_min", "val_max"}) BY FieldsOfSparkle
<1> HIDE DEF a, b, c
<1>4. LayoutOf(ab, 5, {"period", "bg"})
  <2>1. {"period"} \cap {"bg"} = {} /\ {"period"} \cup {"bg"} = {"period", "bg"} OBVIOUS
  <2>2. LayoutOf(ab, 2 + 3, {"period"} \cup {"bg"}) BY <1>1, <1>2, <2>1, JoinLayout
  <2> QED BY <2>1, <2>2
<1> HIDE DEF ab
<1>5. LayoutOf(abc, 13, {"period", "bg", "sparkle_threshold", "bg_threshold", "hue_min", "hue_max", "sat_min", "sat_max", "val_min", "val_max"})
  <2>1. {"period", "bg"} \cap {"sparkle_threshold", "bg_threshold", "hue_min", "hue_max", "sat_min", "sat_max", "val_min", "val_max"} = {} /\ {"period", "bg"} \cup {"sparkle_threshold", "bg_threshold", "hue_min", "hue_max", "sat_min", "sat_max", "val_min", "val_max"} = {"period", "bg", "sparkle_threshold", "bg_threshold", "hue_min", "hue_max", "sat_min", "sat_max", "val_min", "val_max"} OBVIOUS
  <2>2. LayoutOf(abc, 5 + 8, {"period", "bg"} \cup {"sparkle_threshold", "bg_threshold", "hue_min", "hue_max", "sat_min", "sat_max", "val_min", "val_max"}) BY <1>4, <1>3, <2>1, JoinLayout
  <2> QED BY <2>1, <2>2
<1> HIDE DEF abc
<1> QED BY <1>5 DEF a, b, c, ab, abc, SparkleFormat
LEMMA CircularIs == LayoutOf(CircularFormat, 9, {"period", "length", "bg", "pattern", "flags"})
<1> DEFINE a == F(2, <<"period", "length">>)
           b == F(3, <<"bg">>)
           c == F(1, <<"pattern", "flags">>)
           ab == a \o b
           abc == ab \o c
<1>1. LayoutOf(a, 4, {"period", "length"}) BY FieldTwo
<1>2. LayoutOf(b, 3, {"bg"}) BY FieldOne
<1>3. LayoutOf(c, 2, {"pattern", "flags"}) BY FieldTwo
<1> HIDE DEF a, b, c
<1>4. LayoutOf(ab, 7, {"period", "length", "bg"})
  <2>1. {"period", "length"} \cap {"bg"} = {} /\ {"period", "length"} \cup {"bg"} = {"period", "length", "bg"} OBVIOUS
  <2>2. LayoutOf(ab, 4 + 3, {"period", "length"} \cup {"bg"}) BY <1>1, <1>2, <2>1, JoinLayout
  <2> QED BY <2>1, <2>2
<1> HIDE DEF ab
<1>5. LayoutOf(abc, 9, {"period", "length", "bg", "pattern", "flags"})
  <2>1. {"period", "length", "bg"} \cap {"pattern", "flags"} = {} /\ {"period", "length", "bg"} \cup {"pattern", "flags"} = {"period", "length", "bg", "pattern", "flags"} OBVIOUS
  <2>2. LayoutOf(abc, 7 + 2, {"period", "length", "bg"} \cup {"pattern", "flags"}) BY <1>4, <1>3, <2>1, JoinLayout
  <2> QED BY <2>1, <2>2
<1> HIDE DEF abc
<1> QED BY <1>5 DEF a, b, c, ab, abc, CircularFormat
LEMMA ColorIs == LayoutOf(ColorFormat, 7, {"color", "start", "length"})
<1> DEFINE a == F(3, <<"color">>)
           b == F(2, <<"start", "length">>)
           ab == a \o b
<1>1. LayoutOf(a, 3, {"color"}) BY FieldOne
<1>2. LayoutOf(b, 4, {"start", "length"}) BY FieldTwo
<1> HIDE DEF a, b
<1>3. LayoutOf(ab, 7, {"color", "start", "length"})
  <2>1. {"color"} \cap {"start", "length"} = {} /\ {"color"} \cup {"start", "length"} = {"color", "start", "length"} OBVIOUS
  <2>2. LayoutOf(ab, 3 + 4, {"color"} \cup {"start", "length"}) BY <1>1, <1>2, <2>1, JoinLayout
  <2> QED BY <2>1, <2>2
<1> HIDE DEF ab
<1> QED BY <1>3 DEF a, b, ab, ColorFormat
LEMMA ModuleIs == 
  LayoutOf(FirmwareHeader, 10,
           {"magic", "protocol_version", "hardware_version", "baud", "num_outputs", "flags", "device_id", "address"})
<1> DEFINE a == F(1, <<"magic", "protocol_version", "hardware_version", "baud", "num_outputs", "flags">>)
           b == F(2, <<"device_id", "address">>)
           ab == a \o b
<1>1. LayoutOf(a, 6, {"magic", "protocol_version", "hardware_version", "baud", "num_outputs", "flags"}) BY FieldsOfModule
<1>2. LayoutOf(b, 4, {"device_id", "address"}) BY FieldTwo
<1> HIDE DEF a, b
<1>3. LayoutOf(ab, 10, {"magic", "protocol_version", "hardware_version", "baud", "num_outputs", "flags", "device_id", "address"})
  <2>1. {"magic", "protocol_version", "hardware_version", "baud", "num_outputs", "flags"} \cap {"device_id", "address"} = {} /\ {"magic", "protocol_version", "hardware_version", "baud", "num_outputs", "flags"} \cup {"device_id", "address"} = {"magic", "protocol_version", "hardware_version", "baud", "num_outputs", "flags", "device_id", "address"} OBVIOUS
  <2>2. LayoutOf(ab, 6 + 4, {"magic", "protocol_version", "hardware_version", "baud", "num_outputs", "flags"} \cup {"device_id", "address"}) BY <1>1, <1>2, <2>1, JoinLayout
  <2> QED BY <2>1, <2>2
<1> HIDE DEF ab
<1> QED BY <1>3 DEF a, b, ab, FirmwareHeader
LEMMA PollIs == 
  LayoutOf(FirmwarePoll, 15,
           {"magic", "protocol_version", "hardware_version", "baud", "num_outputs", "flags", "device_id", "address", "object_type", "buffer_size", "msg_version"})
<1> DEFINE a == FirmwareHeader
           b == F(2, <<"object_type", "buffer_size">>)
           c == F(1, <<"msg_version">>)
           ab == a \o b
           abc == ab \o c
<1>1. LayoutOf(a, 10, {"magic", "protocol_version", "hardware_version", "baud", "num_outputs", "flags", "device_id", "address"}) BY ModuleIs
<1>2. LayoutOf(b, 4, {"object_type", "buffer_size"}) BY FieldTwo
<1>3. LayoutOf(c, 1, {"msg_version"}) BY FieldOne
<1> HIDE DEF a, b, c
<1>4. LayoutOf(ab, 14, {"magic", "protocol_version", "hardware_version", "baud", "num_outputs", "flags", "device_id", "address", "object_type", "buffer_size"})
  <2>1. {"magic", "protocol_version", "hardware_version", "baud", "num_outputs", "flags", "device_id", "address"} \cap {"object_type", "buffer_size"} = {} /\ {"magic", "protocol_version", "hardware_version", "baud", "num_outputs", "flags", "device_id", "address"} \cup {"object_type", "buffer_size"} = {"magic", "protocol_version", "hardware_version", "baud", "num_outputs", "flags", "device_id", "address", "object_type", "buffer_size"} OBVIOUS
  <2>2. LayoutOf(ab, 10 + 4, {"magic", "protocol_version", "hardware_version", "baud", "num_outputs", "flags", "device_id", "address"} \cup {"object_type", "buffer_size"}) BY <1>1, <1>2, <2>1, JoinLayout
  <2> QED BY <2>1, <2>2
<1> HIDE DEF ab
<1>5. LayoutOf(abc, 15, {"magic", "protocol_version", "hardware_version", "baud", "num_outputs", "flags", "device_id", "address", "object_type", "buffer_size", "msg_version"})
  <2>1. {"magic", "protocol_version", "hardware_version", "baud", "num_outputs", "flags", "device_id", "address", "object_type", "buffer_size"} \cap {"msg_version"} = {} /\ {"magic", "protocol_version", "hardware_version", "baud", "num_outputs", "flags", "device_id", "address", "object_type", "buffer_size"} \cup {"msg_version"} = {"magic", "protocol_version", "hardware_version", "baud", "num_outputs", "flags", "device_id", "address", "object_type", "buffer_size", "msg_version"} OBVIOUS
  <2>2. LayoutOf(abc, 14 + 1, {"magic", "protocol_version", "hardware_version", "baud", "num_outputs", "flags", "device_id", "address", "object_type", "buffer_size"} \cup {"msg_version"}) BY <1>4, <1>3, <2>1, JoinLayout
  <2> QED BY <2>1, <2>2
<1> HIDE DEF abc
<1> QED BY <1>5 DEF a, b, c, ab, abc, FirmwarePoll
LEMMA ValueIs == LayoutOf(FirmwareConfig["value"], 3, {"pin", "value"})
<1> DEFINE a == F(1, <<"pin">>)
           b == F(2, <<"value">>)
           ab == a \o b
<1>1. LayoutOf(a, 1, {"pin"}) BY FieldOne
<1>2. LayoutOf(b, 2, {"value"}) BY FieldOne
<1> HIDE DEF a, b
<1>3. LayoutOf(ab, 3, {"pin", "value"})
  <2>1. {"pin"} \cap {"value"} = {} /\ {"pin"} \cup {"value"} = {"pin", "value"} OBVIOUS
  <2>2. LayoutOf(ab, 1 + 2, {"pin"} \cup {"value"}) BY <1>1, <1>2, <2>1, JoinLayout
  <2> QED BY <2>1, <2>2
<1> HIDE DEF ab
<1> QED BY <1>3 DEF a, b, ab, FirmwareConfig
LEMMA RGBConfigIs == LayoutOf(FirmwareConfig["rgb"], 6, {"red", "green", "blue", "values"})
<1> DEFINE a == F(1, <<"red", "green", "blue">>)
           b == F(3, <<"values">>)
           ab == a \o b
<1>1. LayoutOf(a, 3, {"red", "green", "blue"}) BY FieldThree
<1>2. LayoutOf(b, 3, {"values"}) BY FieldOne
<1> HIDE DEF a, b
<1>3. LayoutOf(ab, 6, {"red", "green", "blue", "values"})
  <2>1. {"red", "green", "blue"} \cap {"values"} = {} /\ {"red", "green", "blue"} \cup {"values"} = {"red", "green", "blue", "values"} OBVIOUS
  <2>2. LayoutOf(ab, 3 + 3, {"red", "green", "blue"} \cup {"values"}) BY <1>1, <1>2, <2>1, JoinLayout
  <2> QED BY <2>1, <2>2
<1> HIDE DEF ab
<1> QED BY <1>3 DEF a, b, ab, FirmwareConfig
LEMMA PixelsIs == LayoutOf(FirmwareConfig["pixels"], 5, {"clockpin", "datapin", "numpixels", "rgbtype"})
<1> DEFINE a == F(1, <<"clockpin", "datapin">>)
           b == F(2, <<"numpixels">>)
           c == F(1, <<"rgbtype">>)
           ab == a \o b
           abc == ab \o c
<1>1. LayoutOf(a, 2, {"clockpin", "datapin"}) BY FieldTwo
<1>2. LayoutOf(b, 2, {"numpixels"}) BY FieldOne
<1>3. LayoutOf(c, 1, {"rgbtype"}) BY FieldOne
<1> HIDE DEF a, b, c
<1>4. LayoutOf(ab, 4, {"clockpin", "datapin", "numpixels"})
  <2>1. {"clockpin", "datapin"} \cap {"numpixels"} = {} /\ {"clockpin", "datapin"} \cup {"numpixels"} = {"clockpin", "datapin", "numpixels"} OBVIOUS
  <2>2. LayoutOf(ab, 2 + 2, {"clockpin", "datapin"} \cup {"numpixels"}) BY <1>1, <1>2, <2>1, JoinLayout
  <2> QED BY <2>1, <2>2
<1> HIDE DEF ab
<1>5. LayoutOf(abc, 5, {"clockpin", "datapin", "numpixels", "rgbtype"})
  <2>1. {"clockpin", "datapin", "numpixels"} \cap {"rgbtype"} = {} /\ {"clockpin", "datapin", "numpixels"} \cup {"rgbtype"} = {"clockpin", "datapin", "numpixels", "rgbtype"} OBVIOUS
  <2>2. LayoutOf(abc, 4 + 1, {"clockpin", "datapin", "numpixels"} \cup {"rgbtype"}) BY <1>4, <1>3, <2>1, JoinLayout
  <2> QED BY <2>1, <2>2
<1> HIDE DEF abc
<1> QED BY <1>5 DEF a, b, c, ab, abc, FirmwareConfig
LEMMA TouchIs == 
  LayoutOf(FirmwareConfig["mpr121"], 14,
           {"irqpin", "useinterrupt", "t1", "t2", "t3", "t4", "t5", "t6", "t7", "t8", "t9", "t10", "t11", "t12"})
<1> DEFINE a == F(1, <<"irqpin", "useinterrupt">>)
           b == F(1, Thresholds)
           ab == a \o b
<1>1. LayoutOf(a, 2, {"irqpin", "useinterrupt"}) BY FieldTwo
<1>2. LayoutOf(b, 12, {"t1", "t2", "t3", "t4", "t5", "t6", "t7", "t8", "t9", "t10", "t11", "t12"}) BY ThresholdFields
<1> HIDE DEF a, b
<1>3. LayoutOf(ab, 14, {"irqpin", "useinterrupt", "t1", "t2", "t3", "t4", "t5", "t6", "t7", "t8", "t9", "t10", "t11", "t12"})
  <2>1. {"irqpin", "useinterrupt"} \cap {"t1", "t2", "t3", "t4", "t5", "t6", "t7", "t8", "t9", "t10", "t11", "t12"} = {} /\ {"irqpin", "useinterrupt"} \cup {"t1", "t2", "t3", "t4", "t5", "t6", "t7", "t8", "t9", "t10", "t11", "t12"} = {"irqpin", "useinterrupt", "t1", "t2", "t3", "t4", "t5", "t6", "t7", "t8", "t9", "t10", "t11", "t12"} OBVIOUS
  <2>2. LayoutOf(ab, 2 + 12, {"irqpin", "useinterrupt"} \cup {"t1", "t2", "t3", "t4", "t5", "t6", "t7", "t8", "t9", "t10", "t11", "t12"}) BY <1>1, <1>2, <2>1, JoinLayout
  <2> QED BY <2>1, <2>2
<1> HIDE DEF ab
<1> QED BY <1>3 DEF a, b, ab, FirmwareConfig
LEMMA RS485Is == LayoutOf(FirmwareConfig["rs485"], 3, {"recvpin", "xmitpin", "enablepin"})
BY FieldThree DEF FirmwareConfig
LEMMA XbeeIs == LayoutOf(FirmwareConfig["xbee"], 2, {"recvpin", "xmitpin"})
BY FieldTwo DEF FirmwareConfig
LEMMA SequenceIs == IsLayout(ProgramLayout["sequence"]) /\ Size(ProgramLayout["sequence"]) = 32
<1> DEFINE a == F(1, Each("output"))
           b == F(2, Each("duration"))
           c == F(1, Each("value"))
           ab == a \o b
           abc == ab \o c
<1>0. ProgramLayout["sequence"] = abc BY DEF ProgramLayout, SequenceLayout, Each
<1>1. LayoutOf(a, 8 * 1, Keys("output")) BY EachLayout
<1>2. LayoutOf(b, 8 * 2, Keys("duration")) BY EachLayout
<1>3. LayoutOf(c, 8 * 1, Keys("value")) BY EachLayout
<1>4. /\ Keys("output") \cap Keys("duration") = {}
      /\ (Keys("output") \cup Keys("duration")) \cap Keys("value") = {}
  BY DEF Keys
<1> HIDE DEF a, b, c
<1>5. LayoutOf(ab, 8 * 1 + 8 * 2, Keys("output") \cup Keys("duration")) BY <1>1, <1>2, <1>4, JoinLayout
<1> HIDE DEF ab
<1>6. LayoutOf(abc, (8 * 1 + 8 * 2) + 8 * 1, (Keys("output") \cup Keys("duration")) \cup Keys("value"))
  BY <1>3, <1>4, <1>5, JoinLayout
<1> HIDE DEF abc
<1> QED BY <1>0, <1>6 DEF LayoutOf
LEMMA EmptyIs == IsLayout(<<>>) /\ Size(<<>>) = 0
<1> DEFINE L == <<>>
<1>1. Len(L) = 0 /\ DOMAIN L = 1 .. Len(L) OBVIOUS
<1> HIDE DEF L
<1>2. IsLayout(L) BY <1>1 DEF IsLayout
<1>3. EndsAt(Ends(L), L) BY <1>2, EndsRecur
<1>4. Ends(L)[0] = 0
  <2>1. 0 \in 0 .. Len(L) BY <1>1
  <2> QED BY <1>3, <2>1 DEF EndsAt
<1>5. Size(L) = 0 BY <1>1, <1>4 DEF Size
<1> QED BY <1>2, <1>5 DEF L
(* A program's values fit the bytes that are sent for them.                *)
Fills(what) ==
  /\ IsLayout(ProgramLayout[what]) /\ Size(ProgramLayout[what]) \in Nat
  /\ Size(ProgramLayout[what]) <= DataLen(what)
LEMMA LayoutIs == ASSUME NEW layout, NEW size, NEW names, LayoutOf(layout, size, names) PROVE IsLayout(layout) /\ Size(layout) = size
BY DEF LayoutOf
KnownPrograms == {"none", "level", "sound", "blink", "timed", "fade", "sparkle", "circular", "color", "sequence"}
LEMMA KnownIs == DOMAIN ProgramLayout = KnownPrograms \cup Triangles
BY DEF ProgramLayout, KnownPrograms, Triangles
LEMMA ProgramsFit == ASSUME NEW what \in KnownPrograms PROVE Fills(what) /\ DataLen(what) \in 0 .. 32 /\ DeclaredData(what) = DataLen(what)
<1> DEFINE L == ProgramLayout[what]
           Fit(n) == IsLayout(L) /\ Size(L) = n
<1>0. /\ what \in {"none", "blink", "timed"} => DataLen(what) = 12 /\ DeclaredData(what) = 12
      /\ what \notin {"none", "blink", "timed"} => DataLen(what) = 32 /\ DeclaredData(what) = 32
  BY DEF DataLen, DeclaredData, Legacy, Triangles, KnownPrograms
<1>1. CASE what \in {"none", "level", "sound"}
  <2>1. L = <<>> BY <1>1 DEF ProgramLayout
  <2>2. IsLayout(L) /\ Size(L) = 0 BY <2>1, EmptyIs
  <2> HIDE DEF L
  <2> QED BY <1>0, <2>2 DEF Fills, L
<1>2. CASE what = "blink"
  <2>1. L = BlinkFormat BY <1>2 DEF ProgramLayout
  <2>2. Fit(10) BY <2>1, BlinkIs, LayoutIs
  <2> HIDE DEF L
  <2> QED BY <1>0, <1>2, <2>2 DEF Fills, L
<1>3. CASE what = "timed"
  <2>1. L = TimedFormat BY <1>3 DEF ProgramLayout
  <2>2. Fit(10) BY <2>1, TimedIs, LayoutIs
  <2> HIDE DEF L
  <2> QED BY <1>0, <1>3, <2>2 DEF Fills, L
<1>4. CASE what = "fade"
  <2>1. L = FadeFormat BY <1>4 DEF ProgramLayout
  <2>2. Fit(11) BY <2>1, FadeIs, LayoutIs
  <2> HIDE DEF L
  <2> QED BY <1>0, <1>4, <2>2 DEF Fills, L
<1>5. CASE what = "sparkle"
  <2>1. L = SparkleFormat BY <1>5 DEF ProgramLayout
  <2>2. Fit(13) BY <2>1, SparkleIs, LayoutIs
  <2> HIDE DEF L
  <2> QED BY <1>0, <1>5, <2>2 DEF Fills, L
<1>6. CASE what = "circular"
  <2>1. L = CircularFormat BY <1>6 DEF ProgramLayout
  <2>2. Fit(9) BY <2>1, CircularIs, LayoutIs
  <2> HIDE DEF L
  <2> QED BY <1>0, <1>6, <2>2 DEF Fills, L
<1>7. CASE what = "color"
  <2>1. L = ColorFormat BY <1>7 DEF ProgramLayout
  <2>2. Fit(7) BY <2>1, ColorIs, LayoutIs
  <2> HIDE DEF L
  <2> QED BY <1>0, <1>7, <2>2 DEF Fills, L
<1>8. CASE what = "sequence"
  <2>1. Fit(32) BY <1>8, SequenceIs
  <2> HIDE DEF L
  <2> QED BY <1>0, <1>8, <2>1 DEF Fills, L
<1>9. DataLen(what) \in 0 .. 32 /\ DeclaredData(what) = DataLen(what) BY <1>0
<1> QED BY <1>1, <1>2, <1>3, <1>4, <1>5, <1>6, <1>7, <1>8, <1>9 DEF KnownPrograms
-----------------------------------------------------------------------------
(* Messages: a header that declares their length, and what follows it.      *)
LEMMA LengthField == MsgHdr[4] = [name |-> "length", width |-> 1] /\ 4 \in 1 .. Len(MsgHdr)
<1> DEFINE names == <<"startcode", "crc", "version", "length", "mtype", "flags">>
           a == F(1, names)
           b == F(2, <<"address">>)
           L == a \o b
<1>0. MsgHdr = L BY DEF MsgHdr
<1>1. names = [i \in 1 .. 6 |-> names[i]] /\ names[4] = "length" OBVIOUS
<1> HIDE DEF names
<1>3. List(a, 6) /\ FieldsAre(a, 1, names, 6) BY <1>1, Fields
<1>4. List(b, 1) BY One
<1> HIDE DEF a, b
<1>5. List(L, 6 + 1) /\ Follows(L, a, b, 6, 1) BY <1>3, <1>4, Joined
<1> HIDE DEF L
<1>6. Len(L) = 7 BY <1>5 DEF List
<1>7. L[4] = a[4] /\ a[4] = [name |-> names[4], width |-> 1] BY <1>3, <1>5 DEF Follows, FieldsAre
<1> QED BY <1>0, <1>1, <1>6, <1>7
(* The first m bytes of what a header of length n begins.                   *)
Begins(b, n, m) == List(b, m) /\ \E val : val.length = n /\ Sits(b, 0, MsgHdr, val)
LEMMA DeclaredIs ==
  ASSUME NEW n \in 8 .. 255, NEW b, Begins(b, n, n) PROVE Unpack(FirmwareMsg, b, 0).length = Len(b)
<1>1. PICK val : val.length = n /\ Sits(b, 0, MsgHdr, val) BY DEF Begins
<1>2. FirmwareMsg = MsgHdr BY DEF FirmwareMsg, MsgHdr
<1>3. IsLayout(MsgHdr) /\ Size(MsgHdr) = 8 BY MsgHdrIs, LayoutIs
<1>4. Placed(b, 0, MsgHdr, val, 4) BY <1>1, LengthField DEF Sits
<1>5. Narrow(val[MsgHdr[4].name], MsgHdr[4].width)
  <2>1. MsgHdr[4].width = 1 /\ val[MsgHdr[4].name] = n BY <1>1, LengthField
  <2>2. n \in Nat /\ n <= 255 OBVIOUS
  <2>3. Narrow(n, 1) BY <2>2 DEF Narrow
  <2> QED BY <2>1, <2>3
<1>6. List(b, n) /\ n \in Nat /\ 0 + Size(MsgHdr) <= n BY <1>3 DEF Begins
<1>7. Unpack(MsgHdr, b, 0)[MsgHdr[4].name] = val[MsgHdr[4].name]
  BY <1>3, <1>4, <1>5, <1>6, LengthField, Unpacked
<1>8. Len(b) = n BY DEF Begins, List
<1>9. MsgHdr[4].name = "length" BY LengthField
<1> QED BY <1>1, <1>2, <1>7, <1>8, <1>9
LEMMA HeaderHeads ==
  ASSUME NEW n, NEW mtype, NEW flags, NEW address
  PROVE  Begins(Header(n, mtype, flags, address), n, 8)
<1> DEFINE val == [startcode |-> STARTCODE, crc |-> 0, version |-> PROTOCOL_VERSION, length |-> n,
                   mtype |-> mtype, flags |-> flags, address |-> address]
<1>1. val.length = n OBVIOUS
<1>2. Header(n, mtype, flags, address) = Pack(MsgHdr, val) BY DEF Header
<1> HIDE DEF val
<1>3. IsLayout(MsgHdr) /\ Size(MsgHdr) = 8 BY MsgHdrIs, LayoutIs
<1>4. List(Pack(MsgHdr, val), 8) /\ Sits(Pack(MsgHdr, val), 0, MsgHdr, val) BY <1>3, Packed
<1> QED BY <1>1, <1>2, <1>4 DEF Begins
LEMMA BeginsOn ==
  ASSUME NEW n, NEW m \in Nat, m >= 8, NEW k \in Nat, NEW s, NEW t, Begins(s, n, m), List(t, k)
  PROVE  Begins(s \o t, n, m + k)
<1>1. PICK val : val.length = n /\ Sits(s, 0, MsgHdr, val) BY DEF Begins
<1>2. IsLayout(MsgHdr) /\ Size(MsgHdr) = 8 BY MsgHdrIs, LayoutIs
<1>3. List(s, m) /\ 0 \in Nat /\ 0 + Size(MsgHdr) <= m BY <1>2 DEF Begins
<1>4. Sits(s \o t, 0, MsgHdr, val) BY <1>1, <1>2, <1>3, SitsLeft
<1>5. List(s \o t, m + k) BY <1>3, Joined
<1> QED BY <1>1, <1>4, <1>5 DEF Begins
LEMMA ZerosAre == ASSUME NEW n \in Nat PROVE List(Zeros(n), n) /\ \A i \in 1 .. n : Zeros(n)[i] = 0
<1> DEFINE z == Zeros(n)
<1>1. z = [i \in 1 .. n |-> 0] BY DEF Zeros
<1> HIDE DEF z
<1>2. z = [i \in 1 .. n |-> z[i]] /\ \A i \in 1 .. n : z[i] = 0 BY <1>1
<1>3. List(z, n) BY <1>2, Listed
<1> QED BY <1>2, <1>3 DEF z
LEMMA ProgramHdrLast == 3 \in 1 .. Len(ProgramHdr) /\ ProgramHdr[3] = [name |-> "program", width |-> 1] /\ Ends(ProgramHdr)[2] = 2
<1> DEFINE a == OutputHdr
           b == F(1, <<"program">>)
           L == a \o b
<1>0. ProgramHdr = L BY DEF ProgramHdr
<1>1. List(a, 2) BY Two DEF OutputHdr
<1>2. List(b, 1) /\ b[1] = [name |-> "program", width |-> 1] BY One
<1> HIDE DEF a, b
<1>3. List(L, 2 + 1) /\ Follows(L, a, b, 2, 1) BY <1>1, <1>2, Joined
<1> HIDE DEF L
<1>4. Len(L) = 3 BY <1>3 DEF List
<1>5. L[3] = b[1] BY <1>3 DEF Follows
<1>6. IsLayout(ProgramHdr) /\ Size(ProgramHdr) = 3 BY ProgramHdrIs, LayoutIs
<1>7. /\ Ends(ProgramHdr)[3 - 1] \in Nat
      /\ Ends(ProgramHdr)[3] = Ends(ProgramHdr)[3 - 1] + ProgramHdr[3].width
      /\ Ends(ProgramHdr)[3] = 3
  <2>1. 3 \in 1 .. Len(ProgramHdr) BY <1>0, <1>4
  <2>2. Ends(ProgramHdr)[3] = 3 BY <1>0, <1>4, <1>6 DEF Size
  <2> QED BY <1>6, <2>1, <2>2, EndsGrow
<1>8. Ends(ProgramHdr)[2] = 2
  <2>1. ProgramHdr[3].width = 1 /\ 3 - 1 = 2 BY <1>0, <1>2, <1>5
  <2> QED BY <1>7, <2>1
<1> QED BY <1>0, <1>2, <1>4, <1>5, <1>8
ProgramBytes(b, code, data, d, len) ==
  /\ Begins(b, 11 + len, 11 + len)
  /\ code \in 0 .. 255 => b[11] = code
  /\ \A i \in 1 .. d : b[11 + i] = data[i]
  /\ \A i \in d + 1 .. len : b[11 + i] = 0
  /\ \A layout, val : IsLayout(layout) /\ Size(layout) = d /\ Sits(data, 0, layout, val) => Sits(b, 11, layout, val)
LEMMA ProgramIs ==
  ASSUME NEW q, NEW code, NEW data, NEW len \in 0 .. 32, NEW d \in 0 .. len, List(data, d)
  PROVE  ProgramBytes(ProgramMessage(q, code, data, len, len), code, data, d, len)
<1> DEFINE n == Size(MsgHdr) + Size(ProgramHdr) + len
           h == Header(n, 1, 0, q.address)
           val == [outputtype |-> 3, output |-> q.output, program |-> code]
           p == Pack(ProgramHdr, val)
           z == Zeros(len - Len(data))
           hp == h \o p
           hpd == hp \o data
           b == hpd \o z
<1>0. ProgramMessage(q, code, data, len, len) = b BY DEF ProgramMessage
<1>1. n = 11 + len /\ n \in 8 .. 255
  <2>1. Size(MsgHdr) = 8 /\ Size(ProgramHdr) = 3 BY MsgHdrIs, ProgramHdrIs, LayoutIs
  <2> QED BY <2>1
<1> HIDE DEF n
<1>2. Begins(h, n, 8) BY HeaderHeads
<1> HIDE DEF h
<1>3. IsLayout(ProgramHdr) /\ Size(ProgramHdr) = 3 BY ProgramHdrIs, LayoutIs
<1>4. List(p, 3) /\ Sits(p, 0, ProgramHdr, val) BY <1>3, Packed
<1>5. code \in 0 .. 255 => p[3] = code
  <2> SUFFICES ASSUME code \in 0 .. 255 PROVE p[3] = code OBVIOUS
  <2>1. Placed(p, 0, ProgramHdr, val, 3) BY <1>4, ProgramHdrLast DEF Sits
  <2>2. val["program"] = code OBVIOUS
  <2> HIDE DEF val, p
  <2>3. ProgramHdr[3].width = 1 /\ ProgramHdr[3].name = "program" /\ 1 \in 1 .. 1 /\ Ends(ProgramHdr)[3 - 1] = 2
    BY ProgramHdrLast
  <2>4. p[0 + 2 + 1] = Bytes(code, 1)[1] BY <2>1, <2>2, <2>3 DEF Placed
  <2>5. Bytes(code, 1)[1] = code % 256
    <3>1. code \in Int /\ 1 \in 1 .. 4 OBVIOUS
    <3>2. ByteByByte(Bytes(code, 1), code, 1) BY <3>1, BytesAre
    <3> QED BY <3>2 DEF ByteByByte
  <2>6. code % 256 = code BY SMT
  <2> QED BY <2>4, <2>5, <2>6
<1> HIDE DEF p
<1>6. Begins(hp, n, 11) /\ List(hp, 11) /\ Follows(hp, h, p, 8, 3)
  <2>1. Begins(hp, n, 8 + 3) BY <1>2, <1>4, BeginsOn
  <2>2. Follows(hp, h, p, 8, 3) BY <1>2, <1>4, Joined DEF Begins
  <2> QED BY <2>1, <2>2 DEF Begins
<1> HIDE DEF hp
<1>7. Begins(hpd, n, 11 + d) /\ List(hpd, 11 + d) /\ Follows(hpd, hp, data, 11, d)
  <2>1. Begins(hpd, n, 11 + d) BY <1>6, BeginsOn
  <2>2. Follows(hpd, hp, data, 11, d) BY <1>6, Joined
  <2> QED BY <2>1, <2>2 DEF Begins
<1>8. len - Len(data) = len - d /\ len - d \in Nat
  <2>1. Len(data) = d BY DEF List
  <2>2. len - d \in Nat OBVIOUS
  <2> QED BY <2>1, <2>2
<1>9. List(z, len - d) /\ \A i \in 1 .. len - d : z[i] = 0 BY <1>8, ZerosAre
<1>10. ASSUME NEW layout, NEW v, IsLayout(layout), Size(layout) = d, Sits(data, 0, layout, v)
       PROVE  Sits(b, 11, layout, v)
  <2>0. 0 \in Nat /\ 0 + Size(layout) <= d /\ 11 \in Nat /\ d \in Nat BY <1>10
  <2>1. Sits(hpd, 11 + 0, layout, v) BY <1>6, <1>10, <2>0, SitsRight
  <2>2. 11 + 0 = 11 /\ 11 + Size(layout) <= 11 + d /\ 11 + d \in Nat /\ 11 \in Nat BY <1>10
  <2> HIDE DEF hpd, z
  <2>3. Sits(hpd, 11, layout, v) BY <2>1, <2>2
  <2> QED BY <1>7, <1>8, <1>9, <1>10, <2>2, <2>3, SitsLeft
<1> HIDE DEF hpd, z
<1>11. Begins(b, n, 11 + len) /\ Follows(b, hpd, z, 11 + d, len - d)
  <2>0. 11 + d \in Nat /\ 11 + d >= 8 OBVIOUS
  <2>1. Begins(b, n, (11 + d) + (len - d)) BY <1>7, <1>8, <1>9, <2>0, BeginsOn
  <2>2. Follows(b, hpd, z, 11 + d, len - d) BY <1>7, <1>8, <1>9, <2>0, Joined
  <2>3. (11 + d) + (len - d) = 11 + len OBVIOUS
  <2> QED BY <2>1, <2>2, <2>3
<1> HIDE DEF b
<1>12. code \in 0 .. 255 => b[11] = code
  <2>1. b[11] = hpd[11] BY <1>11 DEF Follows
  <2>2. hpd[11] = hp[11] BY <1>7 DEF Follows
  <2>3. hp[8 + 3] = p[3] BY <1>6 DEF Follows
  <2> QED BY <1>5, <2>1, <2>2, <2>3
<1>13. ASSUME NEW i \in 1 .. d PROVE b[11 + i] = data[i]
  <2>1. b[11 + i] = hpd[11 + i] BY <1>11 DEF Follows
  <2>2. hpd[11 + i] = data[i] BY <1>7 DEF Follows
  <2> QED BY <2>1, <2>2
<1>14. ASSUME NEW i \in d + 1 .. len PROVE b[11 + i] = 0
  <2>1. i - d \in 1 .. len - d /\ (11 + d) + (i - d) = 11 + i OBVIOUS
  <2>2. b[(11 + d) + (i - d)] = z[i - d] BY <1>11, <2>1 DEF Follows
  <2> QED BY <1>9, <2>1, <2>2
<1> QED BY <1>0, <1>1, <1>10, <1>11, <1>12, <1>13, <1>14 DEF ProgramBytes
(* What the Python library sends, and what a module answers.                *)
ProgramSent(q) ==
  ProgramBytes(Encode(q), ProgramCode[q.what], Pack(ProgramLayout[q.what], q.arg),
               Size(ProgramLayout[q.what]), DataLen(q.what))
LEMMA EncodesProgram == ASSUME NEW q, q.what \in KnownPrograms PROVE ProgramSent(q)
<1> DEFINE what == q.what
           d == Size(ProgramLayout[what])
           data == Pack(ProgramLayout[what], q.arg)
           len == DataLen(what)
<1>1. Encode(q) = Message(q) BY DEF Encode, KnownPrograms
<1>2. Message(q) = ProgramMessage(q, ProgramCode[what], data, len, DeclaredData(what)) BY DEF Message, KnownPrograms
<1>3. Fills(what) /\ len \in 0 .. 32 /\ DeclaredData(what) = len BY ProgramsFit
<1>4. IsLayout(ProgramLayout[what]) /\ d \in 0 .. len BY <1>3 DEF Fills
<1>5. List(data, d) BY <1>4, Packed
<1> HIDE DEF d, data, len
<1>6. ProgramBytes(ProgramMessage(q, ProgramCode[what], data, len, len), ProgramCode[what], data, d, len)
  BY <1>3, <1>4, <1>5, ProgramIs
<1> QED BY <1>1, <1>2, <1>3, <1>6 DEF ProgramSent, d, data, len
GenericSent(q) == ProgramBytes(Encode(q), q.arg.program, q.arg.data, Len(q.arg.data), 32)
LEMMA EncodesGeneric ==
  ASSUME NEW q, q.what = "generic", q.arg.data \in Seq(0 .. 255), Sendable(q) PROVE GenericSent(q)
<1> DEFINE data == q.arg.data
           d == Len(data)
<1>1. Encode(q) = ProgramMessage(q, q.arg.program, data, 32, 32) BY DEF Encode, Message, GenericMessage
<1>2. d <= 32
  <2>1. q.what \notin DOMAIN ProgramLayout BY KnownIs DEF KnownPrograms, Triangles
  <2>2. Constructs(q) = GenericFits(q.arg) BY <2>1 DEF Constructs
  <2>3. Constructs(q) BY DEF Sendable
  <2> QED BY <2>2, <2>3 DEF GenericFits
<1>3. data \in Seq(0 .. 255) OBVIOUS
<1> HIDE DEF data
<1>7. d \in Nat BY <1>3
<1>4. data = [i \in 1 .. d |-> data[i]] BY <1>3
<1> HIDE DEF d
<1>5. d \in 0 .. 32 /\ List(data, d) /\ 32 \in 0 .. 32
  <2>1. List(data, d) BY <1>4, <1>7, Listed
  <2>2. d \in 0 .. 32 BY <1>2, <1>7
  <2>3. 32 \in 0 .. 32 OBVIOUS
  <2> QED BY <2>1, <2>2, <2>3
<1>6. ProgramBytes(ProgramMessage(q, q.arg.program, data, 32, 32), q.arg.program, data, d, 32) BY <1>5, ProgramIs
<1> QED BY <1>1, <1>6 DEF GenericSent, d, data
(* A module's response: its data behind a header.                           *)
ResponseBytes(b, data, d) ==
  /\ Begins(b, 8 + d, 8 + d)
  /\ SubSeq(b, 9, Len(b)) = data
  /\ \A layout, val : IsLayout(layout) /\ Size(layout) <= d /\ Sits(data, 0, layout, val) => Sits(b, 8, layout, val)
LEMMA ResponseIs ==
  ASSUME NEW mtype, NEW flags, NEW data, NEW d \in 0 .. 100, List(data, d)
  PROVE  ResponseBytes(Response(mtype, flags, data), data, d)
<1> DEFINE n == Size(FirmwareMsg) + Len(data)
           val == [startcode |-> STARTCODE, crc |-> 0, version |-> 2, length |-> n,
                   mtype |-> mtype, flags |-> flags, address |-> 0]
           h == Pack(FirmwareMsg, val)
           b == h \o data
<1>0. Response(mtype, flags, data) = b BY DEF Response
<1>1. FirmwareMsg = MsgHdr BY DEF FirmwareMsg, MsgHdr
<1>2. IsLayout(MsgHdr) /\ Size(MsgHdr) = 8 BY MsgHdrIs, LayoutIs
<1>3. n = 8 + d
  <2>1. Len(data) = d BY DEF List
  <2> QED BY <1>1, <1>2, <2>1
<1>4. val.length = n OBVIOUS
<1> HIDE DEF n, val
<1>5. Begins(h, n, 8)
  <2>1. List(h, 8) /\ Sits(h, 0, MsgHdr, val) BY <1>1, <1>2, Packed
  <2> QED BY <1>4, <2>1 DEF Begins
<1> HIDE DEF h
<1>6. Begins(b, n, 8 + d) BY <1>5, BeginsOn
<1>7. SubSeq(b, 9, Len(b)) = data
  <2>1. List(h, 8) BY <1>5 DEF Begins
  <2>2. SubSeq(b, 8 + 1, 8 + d) = data BY <2>1, DroppedIs
  <2>3. Len(b) = 8 + d BY <1>6 DEF Begins, List
  <2> QED BY <2>2, <2>3
<1>8. ASSUME NEW layout, NEW v, IsLayout(layout), Size(layout) <= d, Sits(data, 0, layout, v)
      PROVE  Sits(b, 8, layout, v)
  <2>1. List(h, 8) BY <1>5 DEF Begins
  <2>2. 0 \in Nat /\ 0 + Size(layout) <= d /\ 8 \in Nat /\ d \in Nat /\ 8 + 0 = 8
    <3>1. Size(layout) \in Nat BY <1>8, PackPlaces
    <3> QED BY <1>8, <3>1
  <2>3. Sits(b, 8 + 0, layout, v) BY <1>8, <2>1, <2>2, SitsRight
  <2> QED BY <2>2, <2>3
<1> QED BY <1>0, <1>3, <1>6, <1>7, <1>8 DEF ResponseBytes
(* An output's configuration behind its header.                             *)
OutputBytes(b, layout, arg) == List(b, 2 + Size(layout)) /\ Sits(b, 2, layout, arg)
LEMMA OutputIs ==
  ASSUME NEW val, NEW layout, IsLayout(layout), NEW arg
  PROVE  LET h == Pack(OutputHdr, val) IN
         OutputBytes(h \o Pack(layout, arg), layout, arg) /\ Sits(h \o Pack(layout, arg), 0, OutputHdr, val)
<1> DEFINE h == Pack(OutputHdr, val)
           p == Pack(layout, arg)
           n == Size(layout)
<1>1. IsLayout(OutputHdr) /\ Size(OutputHdr) = 2 BY OutputHdrIs, LayoutIs
<1>2. List(h, 2) /\ Sits(h, 0, OutputHdr, val) BY <1>1, Packed
<1>3. List(p, n) /\ n \in Nat /\ Sits(p, 0, layout, arg) BY Packed
<1> HIDE DEF h, p
<1>4. List(h \o p, 2 + n) BY <1>2, <1>3, Joined
<1>5. 0 \in Nat /\ 0 + Size(OutputHdr) <= 2 /\ 0 + Size(layout) <= n /\ 2 \in Nat /\ 2 + 0 = 2 BY <1>1, <1>3
<1>6. Sits(h \o p, 2 + 0, layout, arg) BY <1>2, <1>3, <1>5, SitsRight
<1>7. Sits(h \o p, 0, OutputHdr, val) BY <1>1, <1>2, <1>3, <1>5, SitsLeft
<1> QED BY <1>4, <1>5, <1>6, <1>7 DEF OutputBytes, h, p
LEMMA ConfigFits ==
  ASSUME NEW type \in OutputTypes PROVE IsLayout(FirmwareConfig[type]) /\ Size(FirmwareConfig[type]) \in 0 .. 14
<1> DEFINE L == FirmwareConfig[type]
           Fit(n) == IsLayout(L) /\ Size(L) = n
<1>1. CASE type = "value"
  <2>1. Fit(3) BY <1>1, ValueIs, LayoutIs
  <2> QED BY <2>1
<1>2. CASE type = "rgb"
  <2>1. Fit(6) BY <1>2, RGBConfigIs, LayoutIs
  <2> QED BY <2>1
<1>3. CASE type = "pixels"
  <2>1. Fit(5) BY <1>3, PixelsIs, LayoutIs
  <2> QED BY <2>1
<1>4. CASE type = "mpr121"
  <2>1. Fit(14) BY <1>4, TouchIs, LayoutIs
  <2> QED BY <2>1
<1>5. CASE type = "rs485"
  <2>1. Fit(3) BY <1>5, RS485Is, LayoutIs
  <2> QED BY <2>1
<1>6. CASE type = "xbee"
  <2>1. Fit(2) BY <1>6, XbeeIs, LayoutIs
  <2> QED BY <2>1
<1> QED BY <1>1, <1>2, <1>3, <1>4, <1>5, <1>6 DEF OutputTypes
(* Both ends list the same fields.                                          *)
IsList(s) == \E n \in Nat : List(s, n)
LEMMA FieldsJoin ==
  ASSUME NEW w, NEW s, NEW t, IsList(s), IsList(t) PROVE F(w, s \o t) = F(w, s) \o F(w, t)
<1>0. PICK m \in Nat : List(s, m) BY DEF IsList
<1>9. PICK n \in Nat : List(t, n) BY DEF IsList
<1> DEFINE a == F(w, s)
           b == F(w, t)
           u == s \o t
           c == F(w, u)
           L == a \o b
<1>1. List(u, m + n) /\ Follows(u, s, t, m, n) BY <1>0, <1>9, Joined
<1>2. List(a, m) /\ FieldsAre(a, w, s, m)
  <2>1. s = [i \in 1 .. m |-> s[i]] BY <1>0 DEF List
  <2> QED BY <2>1, Fields
<1>3. List(b, n) /\ FieldsAre(b, w, t, n)
  <2>1. t = [i \in 1 .. n |-> t[i]] BY <1>9 DEF List
  <2> QED BY <2>1, Fields
<1>4. List(c, m + n) /\ FieldsAre(c, w, u, m + n)
  <2>1. u = [i \in 1 .. m + n |-> u[i]] /\ m + n \in Nat BY <1>1 DEF List
  <2> HIDE DEF u
  <2> QED BY <2>1, Fields
<1> HIDE DEF a, b, c, u
<1>5. List(L, m + n) /\ Follows(L, a, b, m, n) BY <1>2, <1>3, Joined
<1> HIDE DEF L
<1>6. ASSUME NEW i \in 1 .. m + n PROVE L[i] = c[i]
  <2>1. i \in 1 .. m \/ (i - m \in 1 .. n /\ i = m + (i - m)) OBVIOUS
  <2>2. c[i] = [name |-> u[i], width |-> w] BY <1>4 DEF FieldsAre
  <2>3. CASE i \in 1 .. m
    <3>1. L[i] = a[i] /\ u[i] = s[i] BY <1>1, <1>5, <2>3 DEF Follows
    <3>2. a[i] = [name |-> s[i], width |-> w] BY <1>2, <2>3 DEF FieldsAre
    <3> QED BY <2>2, <3>1, <3>2
  <2>4. CASE i - m \in 1 .. n /\ i = m + (i - m)
    <3>1. L[i] = b[i - m] /\ u[i] = t[i - m] BY <1>1, <1>5, <2>4 DEF Follows
    <3>2. b[i - m] = [name |-> t[i - m], width |-> w] BY <1>3, <2>4 DEF FieldsAre
    <3> QED BY <2>2, <3>1, <3>2
  <2> QED BY <2>1, <2>3, <2>4
<1>7. L = [i \in 1 .. m + n |-> L[i]] /\ c = [i \in 1 .. m + n |-> c[i]] BY <1>4, <1>5 DEF List
<1>8. L = c BY <1>6, <1>7
<1> QED BY <1>8 DEF L, c, a, b, u
LEMMA Regrouped ==
  ASSUME NEW m \in Nat, NEW n \in Nat, NEW k \in Nat, NEW s, NEW t, NEW u, List(s, m), List(t, n), List(u, k)
  PROVE  (s \o t) \o u = s \o (t \o u)
<1> DEFINE S == {s[i] : i \in 1 .. m} \cup {t[i] : i \in 1 .. n} \cup {u[i] : i \in 1 .. k}
<1>1. s \in [1 .. m -> S] /\ t \in [1 .. n -> S] /\ u \in [1 .. k -> S] BY DEF List
<1> HIDE DEF S
<1>2. s \in Seq(S) /\ t \in Seq(S) /\ u \in Seq(S) BY <1>1
<1> QED BY <1>2, ConcatAssociative
LEMMA SameTouch == ConfigMPR121 = FirmwareConfig["mpr121"]
<1> DEFINE s == <<"irqpin", "useinterrupt">>
           t == Thresholds
<1>1. List(s, 2)
  <2>1. s = [i \in 1 .. 2 |-> s[i]] OBVIOUS
  <2> QED BY <2>1, Listed
<1>2. List(t, 12)
  <2>1. t = [i \in 1 .. 12 |-> t[i]] BY DEF Thresholds
  <2> QED BY <2>1, Listed
<1> HIDE DEF s, t
<1>4. IsList(s) /\ IsList(t)
  <2>1. 2 \in Nat /\ 12 \in Nat OBVIOUS
  <2> QED BY <1>1, <1>2, <2>1 DEF IsList
<1>3. F(1, s \o t) = F(1, s) \o F(1, t) BY <1>4, FieldsJoin
<1> QED BY <1>3 DEF ConfigMPR121, FirmwareConfig, s, t
LEMMA SamePoll == PollHdr = FirmwarePoll
<1> DEFINE s == <<"device_id", "address">>
           t == <<"object_type", "buffer_size">>
           st == <<"device_id", "address", "object_type", "buffer_size">>
           a == F(1, <<"magic", "protocol_version", "hardware_version", "baud", "num_outputs", "flags">>)
           b == F(2, s)
           c == F(2, t)
           d == F(1, <<"msg_version">>)
<1>1. List(s, 2) /\ List(t, 2)
  <2>1. s = [i \in 1 .. 2 |-> s[i]] /\ t = [i \in 1 .. 2 |-> t[i]] OBVIOUS
  <2> QED BY <2>1, Listed
<1>2. s \o t = st
  <2> DEFINE u == s \o t
  <2>1. List(u, 2 + 2) /\ Follows(u, s, t, 2, 2) BY <1>1, Joined
  <2> HIDE DEF u
  <2>2. u[1] = s[1] /\ u[2] = s[2] /\ u[2 + 1] = t[1] /\ u[2 + 2] = t[2]
    <3> HIDE DEF s, t
    <3> QED BY <2>1 DEF Follows
  <2>3. u = [i \in 1 .. 4 |-> u[i]]
    <3>1. 2 + 2 = 4 OBVIOUS
    <3> QED BY <2>1, <3>1 DEF List
  <2>4. st = [i \in 1 .. 4 |-> st[i]] OBVIOUS
  <2>5. \A i \in 1 .. 4 : i = 1 \/ i = 2 \/ i = 3 \/ i = 4 OBVIOUS
  <2>6. \A i \in 1 .. 4 : u[i] = st[i] BY <2>2, <2>5
  <2> HIDE DEF st
  <2>7. u = st BY <2>3, <2>4, <2>6
  <2> QED BY <2>7 DEF u
<1>3. List(a, 6) /\ List(b, 2) /\ List(c, 2)
  <2>1. List(b, 2) /\ List(c, 2) BY Two
  <2> DEFINE names == <<"magic", "protocol_version", "hardware_version", "baud", "num_outputs", "flags">>
  <2>2. names = [i \in 1 .. 6 |-> names[i]] OBVIOUS
  <2> HIDE DEF names
  <2>3. List(F(1, names), 6) BY <2>2, Fields
  <2> QED BY <2>1, <2>3 DEF names
<1>4. FirmwarePoll = ((a \o b) \o c) \o d BY DEF FirmwarePoll, FirmwareHeader
<1>5. PollHdr = (a \o F(2, st)) \o d BY DEF PollHdr
<1> HIDE DEF a, b, c, d, s, t, st
<1>6. F(2, st) = b \o c
  <2>0. 2 \in Nat OBVIOUS
  <2>2. IsList(s) /\ IsList(t) BY <1>1, <2>0 DEF IsList
  <2>1. F(2, s \o t) = F(2, s) \o F(2, t) BY <2>2, FieldsJoin
  <2> QED BY <1>2, <2>1 DEF b, c
<1>7. (a \o b) \o c = a \o (b \o c) BY <1>3, Regrouped
<1> QED BY <1>4, <1>5, <1>6, <1>7
LEMMA SamePrograms == \A what \in DOMAIN FirmwareProgram : what \in KnownPrograms /\ FirmwareProgram[what] = ProgramLayout[what]
<1> SUFFICES ASSUME NEW what \in DOMAIN FirmwareProgram
             PROVE  what \in KnownPrograms /\ FirmwareProgram[what] = ProgramLayout[what]
  OBVIOUS
<1>0. what \in {"blink", "timed", "fade", "sparkle", "circular", "color", "sequence"} BY DEF FirmwareProgram
<1>1. CASE what = "blink" BY <1>1 DEF FirmwareProgram, ProgramLayout, BlinkFormat, KnownPrograms
<1>2. CASE what = "timed" BY <1>2 DEF FirmwareProgram, ProgramLayout, TimedFormat, KnownPrograms
<1>3. CASE what = "fade" BY <1>3 DEF FirmwareProgram, ProgramLayout, FadeFormat, KnownPrograms
<1>4. CASE what = "sparkle" BY <1>4 DEF FirmwareProgram, ProgramLayout, SparkleFormat, KnownPrograms
<1>5. CASE what = "circular" BY <1>5 DEF FirmwareProgram, ProgramLayout, CircularFormat, KnownPrograms
<1>6. CASE what = "color" BY <1>6 DEF FirmwareProgram, ProgramLayout, ColorFormat, KnownPrograms
<1>7. CASE what = "sequence" BY <1>7 DEF FirmwareProgram, ProgramLayout, KnownPrograms
<1> QED BY <1>0, <1>1, <1>2, <1>3, <1>4, <1>5, <1>6, <1>7
LEMMA SameParsed ==
  \A what \in DOMAIN ParseCode : /\ what \in KnownPrograms /\ ParseLayout[what] = ProgramLayout[what]
                                 /\ ParseCode[what] = ProgramCode[what] /\ ParseCode[what] \in 0 .. 255
<1> SUFFICES ASSUME NEW what \in DOMAIN ParseCode
             PROVE  /\ what \in KnownPrograms /\ ParseLayout[what] = ProgramLayout[what]
                    /\ ParseCode[what] = ProgramCode[what] /\ ParseCode[what] \in 0 .. 255
  OBVIOUS
<1>0. what \in {"blink", "timed", "fade", "sequence"} BY DEF ParseCode
<1>1. CASE what = "blink" BY <1>1 DEF ParseCode, ProgramCode, ParseLayout, ProgramLayout, BlinkFormat, KnownPrograms
<1>2. CASE what = "timed" BY <1>2 DEF ParseCode, ProgramCode, ParseLayout, ProgramLayout, TimedFormat, KnownPrograms
<1>3. CASE what = "fade" BY <1>3 DEF ParseCode, ProgramCode, ParseLayout, ProgramLayout, FadeFormat, KnownPrograms
<1>4. CASE what = "sequence" BY <1>4 DEF ParseCode, ProgramCode, ParseLayout, ProgramLayout, KnownPrograms
<1> QED BY <1>0, <1>1, <1>2, <1>3, <1>4
LEMMA SameConfigs == \A type \in OutputTypes : ConfigLayout[type] = FirmwareConfig[type]
<1> SUFFICES ASSUME NEW type \in OutputTypes PROVE ConfigLayout[type] = FirmwareConfig[type] OBVIOUS
<1>1. CASE type = "value" BY <1>1 DEF ConfigLayout, FirmwareConfig, ConfigValue
<1>2. CASE type = "rgb" BY <1>2 DEF ConfigLayout, FirmwareConfig, ConfigRGB
<1>3. CASE type = "pixels" BY <1>3 DEF ConfigLayout, FirmwareConfig, ConfigPixels
<1>4. CASE type = "mpr121"
  <2>1. ConfigLayout["mpr121"] = ConfigMPR121 BY DEF ConfigLayout
  <2> QED BY <1>4, <2>1, SameTouch
<1>5. CASE type = "rs485" BY <1>5 DEF ConfigLayout, FirmwareConfig, ConfigRS485
<1>6. CASE type = "xbee" BY <1>6 DEF ConfigLayout, FirmwareConfig, ConfigXbee
<1> QED BY <1>1, <1>2, <1>3, <1>4, <1>5, <1>6 DEF OutputTypes
LEMMA SameHeader == ConfigHeader = FirmwareHeader
BY DEF ConfigHeader, FirmwareHeader
-----------------------------------------------------------------------------
(* What may be sent, by its kind.                                           *)
Written(arg) == [arg EXCEPT !.magic = HEADER_MAGIC, !.baud = arg.baud \div 1200]
LEMMA RequestKinds ==
  ASSUME NEW q, Meaningful(q)
  PROVE  /\ \/ q.what \in {"poll", "dump", "set_addr", "value", "rgb", "update", "generic"}
            \/ q.what \in {"output", "header", "poll_response", "dump_header", "dump_output"}
            \/ q.what \in KnownPrograms \cup Triangles
         /\ q.what \in KnownPrograms => Carries(ProgramLayout[q.what], q.arg)
         /\ q.what = "generic" => q.arg.data \in Seq(0 .. 255) /\ (q.arg.program = ProgramCode.color => Len(q.arg.data) = 5)
         /\ q.what = "output" => q.type \in OutputTypes /\ Carries(ConfigLayout[q.type], q.arg)
         /\ q.what = "header" => Filled(ConfigHeader, Written(q.arg))
         /\ q.what = "poll_response" => Filled(FirmwarePoll, q.arg)
         /\ q.what = "dump_header" => Filled(FirmwareHeader, q.arg) /\ q.arg.magic = HEADER_MAGIC
         /\ q.what = "dump_output" => q.type \in OutputTypes /\ Filled(FirmwareConfig[q.type], q.arg)
<1> DEFINE what == q.what
           P1 == Carries(ProgramLayout[what], q.arg)
           P2 == q.arg.data \in Seq(0 .. 255) /\ (q.arg.program = ProgramCode.color => Len(q.arg.data) = 5)
           P3 == q.type \in OutputTypes /\ Carries(ConfigLayout[q.type], q.arg)
           P4 == Filled(ConfigHeader, Written(q.arg))
           P5 == Filled(FirmwarePoll, q.arg)
           P6 == Filled(FirmwareHeader, q.arg) /\ q.arg.magic = HEADER_MAGIC
           P7 == q.type \in OutputTypes /\ Filled(FirmwareConfig[q.type], q.arg)
<1>1. \/ what \in {"poll", "dump", "set_addr", "value", "rgb", "update"}
      \/ what \in KnownPrograms \cup Triangles /\ P1
      \/ what = "generic" /\ P2
      \/ what = "output" /\ P3
      \/ what = "header" /\ P4
      \/ what = "poll_response" /\ P5
      \/ what = "dump_header" /\ P6
      \/ what = "dump_output" /\ P7
  BY KnownIs DEF Meaningful, Written
<1> HIDE DEF what, P1, P2, P3, P4, P5, P6, P7
<1>2. /\ \/ what \in {"poll", "dump", "set_addr", "value", "rgb", "update", "generic"}
         \/ what \in {"output", "header", "poll_response", "dump_header", "dump_output"}
         \/ what \in KnownPrograms \cup Triangles
      /\ what \in KnownPrograms => P1
      /\ what = "generic" => P2
      /\ what = "output" => P3
      /\ what = "header" => P4
      /\ what = "poll_response" => P5
      /\ what = "dump_header" => P6
      /\ what = "dump_output" => P7
  BY <1>1 DEF KnownPrograms, Triangles
<1> QED BY <1>2 DEF what, P1, P2, P3, P4, P5, P6, P7
LEMMA Declares ==
  ASSUME NEW q, Meaningful(q), Sendable(q), q.what \notin Configs \cup Triangles
  PROVE  Unpack(FirmwareMsg, Encode(q), 0).length = Len(Encode(q))
<1> DEFINE b == Encode(q)
<1> SUFFICES \E n \in 8 .. 255 : Begins(b, n, n) BY DeclaredIs
<1>1. ASSUME q.what \in {"poll", "dump"} PROVE Begins(b, 8, 8)
  <2>1. CASE q.what = "poll"
    <3>1. b = Header(8, 2, 2, q.address) BY <2>1 DEF Encode, Message
    <3> QED BY <3>1, HeaderHeads
  <2>2. CASE q.what = "dump"
    <3>1. b = Header(8, 224, 2, q.address) BY <2>2 DEF Encode, Message
    <3> QED BY <3>1, HeaderHeads
  <2> QED BY <1>1, <2>1, <2>2
<1>2. ASSUME q.what = "set_addr" PROVE Begins(b, 12, 12)
  <2> DEFINE p == Pack(SetAddress, q.arg)
             h == Header(12, 3, 0, q.address)
  <2>1. b = h \o p BY <1>2 DEF Encode, Message, SetAddrMessage
  <2>2. LayoutOf(SetAddress, 2 * 2, {"device_id", "address"}) BY FieldTwo DEF SetAddress
  <2>3. List(p, 4) BY <2>2, LayoutIs, Packed
  <2>4. Begins(h, 12, 8) BY HeaderHeads
  <2> HIDE DEF h, p
  <2>5. Begins(h \o p, 12, 8 + 4) BY <2>3, <2>4, BeginsOn
  <2> QED BY <2>1, <2>5
<1>3. ASSUME NEW n \in {12, 13}, NEW val, NEW layout, IsLayout(layout), 10 + Size(layout) = n, NEW arg,
             b = (Header(n, 1, 0, q.address) \o Pack(OutputHdr, val)) \o Pack(layout, arg)
      PROVE  Begins(b, n, n)
  <2> DEFINE h == Header(n, 1, 0, q.address)
             o == Pack(OutputHdr, val)
             p == Pack(layout, arg)
  <2>1. b = (h \o o) \o p BY <1>3
  <2>2. Begins(h, n, 8) BY HeaderHeads
  <2>3. List(o, 2)
    <3>1. IsLayout(OutputHdr) /\ Size(OutputHdr) = 2 BY OutputHdrIs, LayoutIs
    <3> QED BY <3>1, Packed
  <2>4. List(p, Size(layout)) /\ Size(layout) \in Nat BY <1>3, Packed
  <2> HIDE DEF h, o, p, b
  <2>5. Begins(h \o o, n, 8 + 2) BY <2>2, <2>3, BeginsOn
  <2>6. 10 \in Nat /\ 10 >= 8 /\ 8 + 2 = 10 OBVIOUS
  <2>7. Begins((h \o o) \o p, n, 10 + Size(layout)) BY <2>4, <2>5, <2>6, BeginsOn
  <2> QED BY <1>3, <2>1, <2>7
<1>4. ASSUME q.what = "value" PROVE Begins(b, 12, 12)
  <2>1. LayoutOf(F(2, <<"value">>), 2, {"value"}) BY FieldOne
  <2>2. b = (Header(12, 1, 0, q.address) \o Pack(OutputHdr, [outputtype |-> 1, output |-> q.output]))
              \o Pack(F(2, <<"value">>), q.arg)
    BY <1>4 DEF Encode, Message, ValueMessage
  <2>3. IsLayout(F(2, <<"value">>)) /\ 10 + Size(F(2, <<"value">>)) = 12 BY <2>1, LayoutIs
  <2> HIDE DEF b
  <2> QED BY <1>3, <2>2, <2>3
<1>5. ASSUME q.what = "rgb" PROVE Begins(b, 13, 13)
  <2>1. LayoutOf(F(3, <<"value">>), 3, {"value"}) BY FieldOne
  <2>2. b = (Header(13, 1, 0, q.address) \o Pack(OutputHdr, [outputtype |-> 2, output |-> q.output]))
              \o Pack(F(3, <<"value">>), q.arg)
    BY <1>5 DEF Encode, Message, RGBMessage
  <2>3. IsLayout(F(3, <<"value">>)) /\ 10 + Size(F(3, <<"value">>)) = 13 BY <2>1, LayoutIs
  <2> HIDE DEF b
  <2> QED BY <1>3, <2>2, <2>3
<1>6. ASSUME q.what \in KnownPrograms PROVE \E n \in 8 .. 255 : Begins(b, n, n)
  <2>1. ProgramSent(q) BY <1>6, EncodesProgram
  <2>2. DataLen(q.what) \in 0 .. 32 BY <1>6, ProgramsFit
  <2>3. Begins(b, 11 + DataLen(q.what), 11 + DataLen(q.what)) BY <2>1 DEF ProgramSent, ProgramBytes
  <2>4. 11 + DataLen(q.what) \in 8 .. 255 BY <2>2
  <2> HIDE DEF b
  <2> QED BY <2>3, <2>4
<1>7. ASSUME q.what = "generic" PROVE Begins(b, 11 + 32, 11 + 32)
  <2>1. GenericSent(q) BY <1>7, RequestKinds, EncodesGeneric
  <2> QED BY <2>1 DEF GenericSent, ProgramBytes
<1>8. ASSUME NEW mtype, NEW flags, NEW data, NEW d \in 0 .. 100, List(data, d), b = Response(mtype, flags, data)
      PROVE  \E n \in 8 .. 255 : Begins(b, n, n)
  <2>1. Begins(b, 8 + d, 8 + d) BY <1>8, ResponseIs DEF ResponseBytes
  <2>2. 8 + d \in 8 .. 255 OBVIOUS
  <2> HIDE DEF b
  <2> QED BY <2>1, <2>2
<1>9. ASSUME q.what = "poll_response" PROVE \E n \in 8 .. 255 : Begins(b, n, n)
  <2>1. b = Response(2, 3, Pack(FirmwarePoll, q.arg)) BY <1>9 DEF Encode, PollResponse
  <2>2. IsLayout(FirmwarePoll) /\ Size(FirmwarePoll) = 15 BY PollIs, LayoutIs
  <2>3. List(Pack(FirmwarePoll, q.arg), 15) /\ 15 \in 0 .. 100 BY <2>2, Packed
  <2> HIDE DEF b
  <2> QED BY <1>8, <2>1, <2>3
<1>10. ASSUME q.what = "dump_header" PROVE \E n \in 8 .. 255 : Begins(b, n, n)
  <2>1. b = Response(224, 2, Pack(FirmwareHeader, q.arg)) BY <1>10 DEF Encode, DumpHeader
  <2>2. IsLayout(FirmwareHeader) /\ Size(FirmwareHeader) = 10 BY ModuleIs, LayoutIs
  <2>3. List(Pack(FirmwareHeader, q.arg), 10) /\ 10 \in 0 .. 100 BY <2>2, Packed
  <2> HIDE DEF b
  <2> QED BY <1>8, <2>1, <2>3
<1>11. ASSUME q.what = "dump_output" PROVE \E n \in 8 .. 255 : Begins(b, n, n)
  <2> DEFINE L == FirmwareConfig[q.type]
             data == Pack(OutputHdr, [outputtype |-> ConfigType[q.type], output |-> 0]) \o Pack(L, q.arg)
  <2>1. b = Response(224, 2, data) BY <1>11 DEF Encode, DumpOutput
  <2>2. IsLayout(L) /\ Size(L) \in 0 .. 14 BY <1>11, RequestKinds, ConfigFits
  <2> HIDE DEF L
  <2>3. List(data, 2 + Size(L)) BY <2>2, OutputIs DEF OutputBytes
  <2>4. 2 + Size(L) \in 0 .. 100 BY <2>2
  <2> HIDE DEF b, data
  <2> QED BY <1>8, <2>1, <2>3, <2>4
<1>12. 8 \in 8 .. 255 /\ 12 \in 8 .. 255 /\ 13 \in 8 .. 255 /\ 11 + 32 \in 8 .. 255 OBVIOUS
<1> HIDE DEF b
<1>13. \/ q.what \in {"poll", "dump"} \/ q.what = "set_addr" \/ q.what = "value" \/ q.what = "rgb"
       \/ q.what \in KnownPrograms \/ q.what = "generic"
       \/ q.what = "poll_response" \/ q.what = "dump_header" \/ q.what = "dump_output"
  BY RequestKinds DEF Configs
<1> QED BY <1>1, <1>2, <1>4, <1>5, <1>6, <1>7, <1>9, <1>10, <1>11, <1>12, <1>13
(* What is read of it.                                                      *)
LEMMA ProgramFilled ==
  ASSUME NEW q, Meaningful(q), Sendable(q), q.what \in KnownPrograms PROVE Filled(ProgramLayout[q.what], q.arg)
<1>1. Carries(ProgramLayout[q.what], q.arg) BY RequestKinds
<1>2. Constructs(q) BY DEF Sendable, KnownPrograms
<1>3. Packs(ProgramLayout[q.what], q.arg)
  <2>1. CASE q.what = "color"
    <3>1. ColorIsValid(q.arg)
      <4>1. q.what \notin DOMAIN ProgramLayout \ {"color"} BY <2>1
      <4> QED BY <1>2, <2>1, <4>1 DEF Constructs
    <3>2. ProgramLayout["color"] = ColorFormat BY DEF ProgramLayout
    <3> QED BY <2>1, <3>1, <3>2 DEF ColorIsValid
  <2>2. CASE q.what # "color"
    <3>1. q.what \in DOMAIN ProgramLayout \ {"color"} /\ q.what # "generic" BY <2>2, KnownIs DEF KnownPrograms
    <3> QED BY <1>2, <2>2, <3>1 DEF Constructs
  <2> QED BY <2>1, <2>2
<1> QED BY <1>1, <1>3 DEF Filled
LEMMA ProgramRead ==
  ASSUME NEW q, Meaningful(q), Sendable(q), q.what \in KnownPrograms
  PROVE  /\ Unpack(ProgramLayout[q.what], Encode(q), 11) = q.arg
         /\ Unpack(ProgramLayout[q.what], Tail(SubSeq(Encode(q), 11, Len(Encode(q)))), 0) = q.arg
         /\ ProgramCode[q.what] \in 0 .. 255 => Encode(q)[11] = ProgramCode[q.what]
<1> DEFINE L == ProgramLayout[q.what]
           b == Encode(q)
           len == DataLen(q.what)
           n == 11 + len
           s == SubSeq(b, 11, Len(b))
           t == Tail(s)
<1>1. IsLayout(L) /\ Size(L) \in Nat /\ Size(L) <= len /\ len \in 0 .. 32 BY ProgramsFit DEF Fills
<1>2. Fitting(L, q.arg) BY <1>1, ProgramFilled, FilledFits
<1>3. ProgramSent(q) BY EncodesProgram
<1>4. List(b, n) /\ (ProgramCode[q.what] \in 0 .. 255 => b[11] = ProgramCode[q.what])
  BY <1>3 DEF ProgramSent, ProgramBytes, Begins
<1>5. Sits(b, 11, L, q.arg)
  <2>1. Sits(Pack(L, q.arg), 0, L, q.arg) BY <1>1, Packed
  <2> QED BY <1>1, <1>3, <2>1 DEF ProgramSent, ProgramBytes
<1> HIDE DEF L, b, len
<1>6. n \in Nat /\ 11 \in Nat /\ 11 + Size(L) <= n BY <1>1
<1>7. Unpack(L, b, 11) = q.arg BY <1>1, <1>2, <1>4, <1>5, <1>6, UnpackedAll
<1>8. Len(b) = n BY <1>4 DEF List
<1>9. List(s, n - 10) /\ Shifted(s, b, 10, n)
  <2>1. 10 \in 0 .. n BY <1>1
  <2>2. List(SubSeq(b, 10 + 1, n), n - 10) /\ Shifted(SubSeq(b, 10 + 1, n), b, 10, n) BY <1>4, <1>6, <2>1, Dropped
  <2>3. 10 + 1 = 11 OBVIOUS
  <2> QED BY <1>8, <2>2, <2>3
<1> HIDE DEF s
<1>10. List(t, n - 11) /\ Shifted(t, s, 1, n - 10)
  <2>1. n - 10 \in Nat /\ n - 10 > 0 /\ (n - 10) - 1 = n - 11 BY <1>1
  <2>2. List(t, (n - 10) - 1) /\ Shifted(t, s, 1, n - 10) BY <1>9, <2>1, TailIs
  <2> QED BY <2>1, <2>2
<1> HIDE DEF t
<1>11. Shifted(t, b, 11, n)
  <2> SUFFICES ASSUME NEW i \in 1 .. n - 11 PROVE t[i] = b[11 + i] BY DEF Shifted
  <2>1. i \in 1 .. (n - 10) - 1 /\ 1 + i \in 1 .. n - 10 /\ 10 + (1 + i) = 11 + i BY <1>1
  <2>2. t[i] = s[1 + i] BY <1>10, <2>1 DEF Shifted
  <2>3. s[1 + i] = b[10 + (1 + i)] BY <1>9, <2>1 DEF Shifted
  <2> QED BY <2>1, <2>2, <2>3
<1>12. Sits(t, 0, L, q.arg)
  <2>1. Reaches(L, n, 11, 0, 11) BY <1>1 DEF Reaches
  <2> HIDE DEF n
  <2> QED BY <1>1, <1>5, <1>11, <2>1, SitsShifted
<1>13. Unpack(L, t, 0) = q.arg
  <2>1. n - 11 \in Nat /\ 0 \in Nat /\ 0 + Size(L) <= n - 11 BY <1>1
  <2> HIDE DEF n
  <2> QED BY <1>1, <1>2, <1>10, <1>12, <2>1, UnpackedAll
<1> QED BY <1>4, <1>7, <1>13 DEF L, b, s, t
LEMMA HeadersSizes == Size(MsgHdr) = 8 /\ Size(ProgramHdr) = 3 /\ Size(OutputHdr) = 2
BY MsgHdrIs, ProgramHdrIs, OutputHdrIs, LayoutIs
(* A configuration struct behind a start byte and a type.                   *)
LEMMA StartIs == ASSUME NEW type PROVE List(ConfigStart(type), 2)
<1> DEFINE s == <<CONFIG_START_BYTE, ConfigType[type]>>
<1>1. s = [i \in 1 .. 2 |-> s[i]] OBVIOUS
<1>2. ConfigStart(type) = s BY DEF ConfigStart
<1> HIDE DEF s
<1>3. List(s, 2) BY <1>1, Listed
<1> QED BY <1>2, <1>3
LEMMA HeaderRead ==
  ASSUME NEW q, Meaningful(q), q.what = "header"
  PROVE  Unpack(FirmwareHeader, Encode(q), 2) = Written(q.arg)
<1> DEFINE arg == Written(q.arg)
           s == ConfigStart("header")
           p == Pack(FirmwareHeader, arg)
           b == s \o p
<1>1. Encode(q) = b BY SameHeader DEF Encode, HeaderStruct, Written
<1>2. IsLayout(FirmwareHeader) /\ Size(FirmwareHeader) = 10 BY ModuleIs, LayoutIs
<1>3. Fitting(FirmwareHeader, arg)
  <2>1. Filled(ConfigHeader, arg) BY RequestKinds
  <2> HIDE DEF arg
  <2> QED BY <1>2, <2>1, SameHeader, FilledFits
<1> HIDE DEF arg
<1>4. List(p, 10) /\ Sits(p, 0, FirmwareHeader, arg) BY <1>2, Packed
<1>5. List(s, 2) BY StartIs
<1> HIDE DEF s, p
<1>6. List(b, 2 + 10) BY <1>4, <1>5, Joined
<1>7. 0 \in Nat /\ 2 \in Nat /\ 10 \in Nat /\ 0 + Size(FirmwareHeader) <= 10 /\ 2 + 0 = 2 BY <1>2
<1>8. Sits(b, 2 + 0, FirmwareHeader, arg) BY <1>2, <1>4, <1>5, <1>7, SitsRight
<1> HIDE DEF b
<1>9. 2 + 10 \in Nat /\ 2 + Size(FirmwareHeader) <= 2 + 10 BY <1>2
<1>10. Unpack(FirmwareHeader, b, 2) = arg BY <1>2, <1>3, <1>6, <1>7, <1>8, <1>9, UnpackedAll
<1> QED BY <1>1, <1>10 DEF arg
LEMMA OutputFilled ==
  ASSUME NEW q, Meaningful(q), Sendable(q), q.what = "output", q.type = "value" => Kept(q.arg.value)
  PROVE  q.type \in OutputTypes /\ Filled(FirmwareConfig[q.type], q.arg)
<1>1. q.type \in OutputTypes /\ Carries(ConfigLayout[q.type], q.arg) BY RequestKinds
<1>2. PacksOutput(q.type, q.arg) BY DEF Sendable
<1>3. CASE q.type # "value" BY <1>1, <1>2, <1>3, SameConfigs DEF PacksOutput, Filled
<1>4. CASE q.type = "value"
  <2> DEFINE L == FirmwareConfig["value"]
             arg == q.arg
  <2>1. arg.pin \in 0 .. 255 /\ arg.value \in Nat /\ arg.value < 8192 BY <1>2, <1>4 DEF PacksOutput, Kept
  <2>2. /\ List(L, 2) /\ L[1] = [name |-> "pin", width |-> 1] /\ L[2] = [name |-> "value", width |-> 2]
    <3> DEFINE a == F(1, <<"pin">>)
               b == F(2, <<"value">>)
    <3>0. L = a \o b BY DEF FirmwareConfig
    <3>1. List(a, 1) /\ List(b, 1) /\ a[1] = [name |-> "pin", width |-> 1] /\ b[1] = [name |-> "value", width |-> 2]
      BY One
    <3> HIDE DEF a, b
    <3>2. List(a \o b, 1 + 1) /\ Follows(a \o b, a, b, 1, 1) BY <3>1, Joined
    <3>3. 1 + 1 = 2 /\ 1 \in 1 .. 1 OBVIOUS
    <3> HIDE DEF L
    <3>4. L[1] = a[1] /\ L[1 + 1] = b[1] BY <3>0, <3>2, <3>3 DEF Follows
    <3> QED BY <3>0, <3>1, <3>2, <3>3, <3>4
  <2> HIDE DEF L, arg
  <2>3. DOMAIN L = 1 .. 2 BY <2>2 DEF List
  <2>4. ASSUME NEW f \in ToSet(L), f.width < 4 PROVE arg[f.name] \in 0 .. Power[f.width + 1] - 1
    <3>1. PICK k \in 1 .. 2 : f = L[k] BY <2>3 DEF ToSet
    <3>2. CASE k = 1
      <4>1. f.name = "pin" /\ f.width + 1 = 2 BY <2>2, <3>1, <3>2
      <4>2. Power[2] - 1 = 255 BY PowerIs, SMT
      <4> QED BY <2>1, <4>1, <4>2
    <3>3. CASE k = 2
      <4>1. f.name = "value" /\ f.width + 1 = 3 BY <2>2, <3>1, <3>3
      <4>2. Power[3] - 1 = 65535 /\ Power[3] - 1 \in Int BY PowerIs, SMT
      <4>4. arg.value \in 0 .. Power[3] - 1 BY <2>1, <4>2, SMT
      <4> QED BY <4>1, <4>4
    <3> QED BY <3>1, <3>2, <3>3
  <2>5. Packs(L, arg) BY <2>4 DEF Packs
  <2> QED BY <1>1, <1>4, <2>5, SameConfigs DEF L, arg, Filled
<1> QED BY <1>3, <1>4
LEMMA OutputRead ==
  ASSUME NEW q, Meaningful(q), Sendable(q), q.what = "output", q.type = "value" => Kept(q.arg.value)
  PROVE  Unpack(FirmwareConfig[q.type], Encode(q), 2 + Size(OutputHdr)) = q.arg
<1> DEFINE type == q.type
           L == FirmwareConfig[type]
           val == [outputtype |-> ConfigType[type], output |-> 0]
           s == ConfigStart(type)
           h == Pack(OutputHdr, val)
           p == Pack(L, q.arg)
           b == (s \o h) \o p
           n == Size(L)
<1>1. type \in OutputTypes /\ Filled(L, q.arg) BY OutputFilled
<1>2. Encode(q) = b BY <1>1, SameConfigs DEF Encode, OutputStruct
<1>3. IsLayout(L) /\ n \in 0 .. 14 BY <1>1, ConfigFits
<1> HIDE DEF L
<1>4. Fitting(L, q.arg) BY <1>1, <1>3, FilledFits
<1>5. List(h, 2) BY OutputHdrIs, LayoutIs, Packed
<1>6. List(p, n) /\ Sits(p, 0, L, q.arg) BY <1>3, Packed
<1>7. List(s, 2) BY StartIs
<1> HIDE DEF s, h, p
<1>8. List(s \o h, 2 + 2) BY <1>5, <1>7, Joined
<1>9. 2 + 2 = 4 /\ 4 \in Nat /\ n \in Nat /\ 0 \in Nat /\ 0 + n <= n /\ 4 + 0 = 4 /\ 4 + n \in Nat BY <1>3
<1>10. List(b, 4 + n) BY <1>6, <1>8, <1>9, Joined
<1>11. Sits(b, 4 + 0, L, q.arg) BY <1>3, <1>6, <1>8, <1>9, SitsRight
<1> HIDE DEF b
<1>12. Unpack(L, b, 4) = q.arg
  <2>1. 4 + Size(L) <= 4 + n BY <1>9
  <2> QED BY <1>3, <1>4, <1>9, <1>10, <1>11, <2>1, UnpackedAll
<1> QED BY <1>2, <1>9, <1>12, HeadersSizes DEF L
Heads(layout) == 1 \in 1 .. Len(layout) /\ layout[1].width = 1
LEMMA FirstField ==
  ASSUME NEW layout, IsLayout(layout), Heads(layout), NEW val, NEW b, Sits(b, 0, layout, val),
         val[layout[1].name] \in 0 .. 255
  PROVE  b[1] = val[layout[1].name]
<1> DEFINE v == val[layout[1].name]
<1>1. Ends(layout)[0] = 0
  <2>1. EndsAt(Ends(layout), layout) BY EndsRecur
  <2>2. 0 \in 0 .. Len(layout) BY DEF IsLayout
  <2> QED BY <2>1, <2>2 DEF EndsAt
<1>2. Placed(b, 0, layout, val, 1) BY DEF Sits, Heads
<1>3. layout[1].width = 1 /\ 1 \in 1 .. 1 /\ 1 - 1 = 0 /\ 0 + 0 + 1 = 1 BY DEF Heads
<1>4. b[0 + 0 + 1] = Bytes(v, 1)[1] BY <1>1, <1>2, <1>3 DEF Placed
<1>0. v \in 0 .. 255 OBVIOUS
<1> HIDE DEF v
<1>5. Bytes(v, 1)[1] = v % 256
  <2>1. v \in Int /\ 1 \in 1 .. 4 BY <1>0
  <2>2. ByteByByte(Bytes(v, 1), v, 1) BY <2>1, BytesAre
  <2> QED BY <2>2 DEF ByteByByte
<1>6. v % 256 = v BY <1>0, SMT
<1> QED BY <1>3, <1>4, <1>5, <1>6 DEF v
LEMMA PollRead ==
  ASSUME NEW q, Meaningful(q), q.what = "poll_response" PROVE Unpack(PollHdr, Encode(q), Size(MsgHdr)) = q.arg
<1> DEFINE L == FirmwarePoll
           p == Pack(L, q.arg)
           b == Response(2, 3, p)
<1>1. Encode(q) = b BY DEF Encode, PollResponse
<1>2. IsLayout(L) /\ Size(L) = 15 BY PollIs, LayoutIs
<1>3. Fitting(L, q.arg) BY <1>2, RequestKinds, FilledFits
<1>0. PollHdr = L BY SamePoll
<1> HIDE DEF L
<1>4. List(p, 15) /\ Sits(p, 0, L, q.arg) BY <1>2, Packed
<1>5. 15 \in 0 .. 100 /\ 8 + 15 \in Nat /\ 8 \in Nat /\ 8 + Size(L) <= 8 + 15 /\ Size(L) <= 15 BY <1>2
<1> HIDE DEF p
<1>6. ResponseBytes(b, p, 15) BY <1>4, <1>5, ResponseIs
<1> HIDE DEF b
<1>7. List(b, 8 + 15) BY <1>6 DEF ResponseBytes, Begins
<1>8. Sits(b, 8, L, q.arg) BY <1>2, <1>4, <1>5, <1>6 DEF ResponseBytes
<1>9. Unpack(L, b, 8) = q.arg BY <1>2, <1>3, <1>5, <1>7, <1>8, UnpackedAll
<1> QED BY <1>0, <1>1, <1>9, HeadersSizes
LEMMA MagicFirst == Heads(FirmwareHeader) /\ FirmwareHeader[1].name = "magic"
<1> DEFINE names == <<"magic", "protocol_version", "hardware_version", "baud", "num_outputs", "flags">>
           a == F(1, names)
           b == F(2, <<"device_id", "address">>)
           L == a \o b
<1>0. FirmwareHeader = L BY DEF FirmwareHeader
<1>1. names = [i \in 1 .. 6 |-> names[i]] /\ names[1] = "magic" OBVIOUS
<1> HIDE DEF names
<1>2. List(a, 6) /\ FieldsAre(a, 1, names, 6) BY <1>1, Fields
<1>3. List(b, 2) BY Two
<1> HIDE DEF a, b
<1>4. List(L, 6 + 2) /\ Follows(L, a, b, 6, 2) BY <1>2, <1>3, Joined
<1> HIDE DEF L
<1>5. Len(L) = 8 BY <1>4 DEF List
<1>6. L[1] = a[1] /\ a[1] = [name |-> names[1], width |-> 1] BY <1>2, <1>4 DEF Follows, FieldsAre
<1>7. 1 \in 1 .. 8 OBVIOUS
<1> QED BY <1>0, <1>1, <1>5, <1>6, <1>7 DEF Heads
LEMMA DumpHeaderRead ==
  ASSUME NEW q, Meaningful(q), q.what = "dump_header"
  PROVE  DumpDecode(SubSeq(Encode(q), 9, Len(Encode(q)))) = [type |-> "header", arg |-> q.arg]
<1> DEFINE L == FirmwareHeader
           p == Pack(L, q.arg)
           b == Response(224, 2, p)
<1>1. Encode(q) = b BY DEF Encode, DumpHeader
<1>2. IsLayout(L) /\ Size(L) = 10 BY ModuleIs, LayoutIs
<1>3. Fitting(L, q.arg) /\ q.arg.magic = 92 BY <1>2, RequestKinds, FilledFits DEF HEADER_MAGIC
<1>4. List(p, 10) /\ Sits(p, 0, L, q.arg) BY <1>2, Packed
<1>5. 10 \in 0 .. 100 /\ 10 \in Nat /\ 0 \in Nat /\ 0 + Size(L) <= 10 BY <1>2
<1>6. SubSeq(b, 9, Len(b)) = p BY <1>4, <1>5, ResponseIs DEF ResponseBytes
<1>7. p[1] = HEADER_MAGIC
  <2>1. 92 \in 0 .. 255 OBVIOUS
  <2>2. q.arg["magic"] = 92 BY <1>3
  <2> HIDE DEF p
  <2>3. p[1] = 92 BY <1>2, <1>4, <2>1, <2>2, MagicFirst, FirstField
  <2> QED BY <2>3 DEF HEADER_MAGIC
<1> HIDE DEF p, L
<1>8. Unpack(L, p, 0) = q.arg BY <1>2, <1>3, <1>4, <1>5, UnpackedAll
<1>9. DumpDecode(p) = [type |-> "header", arg |-> q.arg] BY <1>7, <1>8, SameHeader DEF DumpDecode, L
<1> QED BY <1>1, <1>6, <1>9
LEMMA TypeKnown ==
  ASSUME NEW type \in OutputTypes
  PROVE  /\ ConfigType[type] \in 0 .. 255 /\ ConfigType[type] # HEADER_MAGIC
         /\ {t \in OutputTypes : ConfigType[t] = ConfigType[type]} = {type}
<1>1. /\ ConfigType["value"] = 1 /\ ConfigType["rgb"] = 2 /\ ConfigType["pixels"] = 4 /\ ConfigType["mpr121"] = 5
      /\ ConfigType["rs485"] = 6 /\ ConfigType["xbee"] = 7
  BY DEF ConfigType
<1>2. type \in {"value", "rgb", "pixels", "mpr121", "rs485", "xbee"} BY DEF OutputTypes
<1>3. ConfigType[type] \in 0 .. 255 /\ ConfigType[type] # HEADER_MAGIC BY <1>1, <1>2 DEF HEADER_MAGIC
<1>4. \A t \in OutputTypes : ConfigType[t] = ConfigType[type] => t = type BY <1>1, <1>2 DEF OutputTypes
<1> QED BY <1>3, <1>4
LEMMA HeaderFirst == Heads(OutputHdr) /\ OutputHdr[1].name = "outputtype"
<1>1. List(OutputHdr, 2) /\ OutputHdr[1] = [name |-> "outputtype", width |-> 1] BY Two DEF OutputHdr
<1>2. Len(OutputHdr) = 2 /\ 1 \in 1 .. 2 BY <1>1 DEF List
<1> QED BY <1>1, <1>2 DEF Heads
LEMMA DumpOutputRead ==
  ASSUME NEW q, Meaningful(q), q.what = "dump_output", q.type = "value" => Kept(q.arg.value)
  PROVE  DumpDecode(SubSeq(Encode(q), 9, Len(Encode(q)))) = [type |-> q.type, arg |-> q.arg]
<1> DEFINE type == q.type
           L == FirmwareConfig[type]
           val == [outputtype |-> ConfigType[type], output |-> 0]
           n == Size(L)
           p == Pack(OutputHdr, val) \o Pack(L, q.arg)
           b == Response(224, 2, p)
<1>1. Encode(q) = b BY DEF Encode, DumpOutput
<1>2. type \in OutputTypes /\ Filled(L, q.arg) BY RequestKinds
<1>3. IsLayout(L) /\ n \in 0 .. 14 BY <1>2, ConfigFits
<1>0. ConfigLayout[type] = L BY <1>2, SameConfigs
<1> HIDE DEF L
<1>4. Fitting(L, q.arg) BY <1>2, <1>3, FilledFits
<1>5. List(p, 2 + n) /\ Sits(p, 2, L, q.arg) /\ Sits(p, 0, OutputHdr, val) BY <1>3, OutputIs DEF OutputBytes
<1>6. 2 + n \in 0 .. 100 /\ 2 + n \in Nat /\ 2 \in Nat /\ 2 + Size(L) <= 2 + n BY <1>3
<1>7. SubSeq(b, 9, Len(b)) = p
  <2> DEFINE d == 2 + n
  <2>1. List(p, d) /\ d \in 0 .. 100 BY <1>5, <1>6
  <2> HIDE DEF d, p
  <2>2. ResponseBytes(Response(224, 2, p), p, d) BY <2>1, ResponseIs
  <2> QED BY <2>2 DEF ResponseBytes
<1>8. p[1] = ConfigType[type]
  <2>1. ConfigType[type] \in 0 .. 255 BY <1>2, TypeKnown
  <2>2. val["outputtype"] = ConfigType[type] OBVIOUS
  <2>3. IsLayout(OutputHdr) BY OutputHdrIs, LayoutIs
  <2> DEFINE v == ConfigType[type]
  <2>4. Sits(p, 0, OutputHdr, val) BY <1>5
  <2>6. v \in 0 .. 255 /\ val["outputtype"] = v BY <2>1, <2>2
  <2> HIDE DEF p, val, v
  <2>5. p[1] = v BY <2>3, <2>4, <2>6, HeaderFirst, FirstField
  <2> QED BY <2>5 DEF v
<1> HIDE DEF p
<1>9. Unpack(L, p, 2) = q.arg BY <1>3, <1>4, <1>5, <1>6, UnpackedAll
<1>10. DumpDecode(p) = FullConfig(p) BY <1>2, <1>8, TypeKnown DEF DumpDecode
<1>11. FullConfig(p) = [type |-> type, arg |-> q.arg]
  <2>1. {t \in OutputTypes : ConfigType[t] = p[1]} = {type} BY <1>2, <1>8, TypeKnown
  <2>2. (CHOOSE t \in {type} : TRUE) = type OBVIOUS
  <2>3. Unpack(ConfigLayout[type], p, Size(OutputHdr)) = q.arg BY <1>0, <1>9, HeadersSizes
  <2>4. ~(type = "value" /\ q.arg.value >= 32768)
    <3>1. type = "value" => q.arg.value \in Nat /\ q.arg.value < 8192 BY DEF Kept
    <3> QED BY <3>1
  <2> HIDE DEF type
  <2>5. {type} # {} OBVIOUS
  <2> QED BY <2>1, <2>2, <2>3, <2>4, <2>5 DEF FullConfig
<1> QED BY <1>1, <1>7, <1>10, <1>11
(* Five bytes of an old client, read as a COLOR program.                    *)
LEMMA ColorPlaces ==
  /\ Len(ColorFormat) = 3 /\ IsLayout(ColorFormat) /\ Size(ColorFormat) = 7
  /\ ColorFormat[2] = [name |-> "start", width |-> 2] /\ ColorFormat[3] = [name |-> "length", width |-> 2]
  /\ Ends(ColorFormat)[1] = 3 /\ Ends(ColorFormat)[2] = 5
<1> DEFINE a == F(3, <<"color">>)
           b == F(2, <<"start", "length">>)
           L == a \o b
           end == Ends(L)
<1>0. ColorFormat = L BY DEF ColorFormat
<1>1. List(a, 1) /\ a[1] = [name |-> "color", width |-> 3] BY One
<1>2. List(b, 2) /\ b[1] = [name |-> "start", width |-> 2] /\ b[2] = [name |-> "length", width |-> 2] BY Two
<1> HIDE DEF a, b
<1>3. List(L, 1 + 2) /\ Follows(L, a, b, 1, 2) BY <1>1, <1>2, Joined
<1>9. 1 + 2 = 3 /\ 1 + 1 = 2 /\ 1 \in 1 .. 1 /\ 1 \in 1 .. 2 /\ 2 \in 1 .. 2 OBVIOUS
<1> HIDE DEF L
<1>4. Len(L) = 3 BY <1>3, <1>9 DEF List
<1>5. L[1] = a[1] /\ L[1 + 1] = b[1] /\ L[1 + 2] = b[2] BY <1>3, <1>9 DEF Follows
<1>6. IsLayout(L) /\ Size(L) = 7 BY <1>0, ColorIs, LayoutIs
<1>7. EndsAt(end, L) BY <1>6, EndsRecur
<1> HIDE DEF end
<1>8. end[0] = 0 /\ end[1] = end[0] + L[1].width /\ end[2] = end[1] + L[2].width
  <2>1. 0 \in 0 .. Len(L) /\ 1 \in 0 .. Len(L) /\ 2 \in 0 .. Len(L) /\ 1 - 1 = 0 /\ 2 - 1 = 1 BY <1>4
  <2> QED BY <1>7, <2>1 DEF EndsAt
<1>10. L[1].width = 3 /\ L[2].width = 2 BY <1>1, <1>2, <1>5, <1>9
<1>11. end[1] = 3 /\ end[2] = 5 BY <1>8, <1>10
<1> QED BY <1>0, <1>2, <1>4, <1>5, <1>6, <1>9, <1>11 DEF end
OldBytes(b, d, e) == b[15] = d /\ b[16] = e /\ b[17] = 0 /\ b[18] = 0
LEMMA OldColorRead ==
  ASSUME NEW n \in Nat, n >= 18, NEW b, List(b, n), NEW d \in 0 .. 255, NEW e \in 0 .. 255, OldBytes(b, d, e)
  PROVE  Unpack(ColorFormat, b, 11)["start"] = d + 256 * e /\ Unpack(ColorFormat, b, 11)["length"] = 0
<1> DEFINE v == d + 256 * e
           val == [start |-> v, length |-> 0]
<1>1. 11 \in Nat /\ 11 + Size(ColorFormat) <= n BY ColorPlaces
<1>2. v \in Nat /\ v \in Int /\ v <= 65535 /\ v % 256 = d /\ (v \div 256) % 256 = e BY SMT
<1>3. val["start"] = v /\ val["length"] = 0 OBVIOUS
<1> HIDE DEF v, val
<1>4. ByteByByte(Bytes(v, 2), v, 2) /\ ByteByByte(Bytes(0, 2), 0, 2)
  <2>1. 2 \in 1 .. 4 /\ 0 \in Int OBVIOUS
  <2> QED BY <1>2, <2>1, BytesAre
<1>5. Bytes(v, 2)[1] = d /\ Bytes(v, 2)[2] = e
  <2>1. 2 >= 2 OBVIOUS
  <2> QED BY <1>2, <1>4, <2>1 DEF ByteByByte
<1>6. Bytes(0, 2)[1] = 0 /\ Bytes(0, 2)[2] = 0
  <2>1. 2 >= 2 /\ 0 % 256 = 0 /\ (0 \div 256) % 256 = 0 BY SMT
  <2> QED BY <1>4, <2>1 DEF ByteByByte
<1>7. ColorFormat[2].name = "start" /\ ColorFormat[2].width = 2 /\ ColorFormat[3].name = "length" /\ ColorFormat[3].width = 2
  BY ColorPlaces
<1>8. \A j \in 1 .. 2 : j = 1 \/ j = 2 OBVIOUS
<1>9. Placed(b, 11, ColorFormat, val, 2)
  <2>1. 11 + 3 + 1 = 15 /\ 11 + 3 + 2 = 16 OBVIOUS
  <2>2. b[11 + 3 + 1] = Bytes(v, 2)[1] /\ b[11 + 3 + 2] = Bytes(v, 2)[2] BY <1>5, <2>1 DEF OldBytes
  <2>3. \A j \in 1 .. 2 : b[11 + 3 + j] = Bytes(v, 2)[j] BY <1>8, <2>2
  <2>4. 2 - 1 = 1 OBVIOUS
  <2> QED BY <1>3, <1>7, <2>3, <2>4, ColorPlaces DEF Placed
<1>10. Placed(b, 11, ColorFormat, val, 3)
  <2>1. 11 + 5 + 1 = 17 /\ 11 + 5 + 2 = 18 OBVIOUS
  <2>2. b[11 + 5 + 1] = Bytes(0, 2)[1] /\ b[11 + 5 + 2] = Bytes(0, 2)[2] BY <1>6, <2>1 DEF OldBytes
  <2>3. \A j \in 1 .. 2 : b[11 + 5 + j] = Bytes(0, 2)[j] BY <1>8, <2>2
  <2>4. 3 - 1 = 2 OBVIOUS
  <2> QED BY <1>3, <1>7, <2>3, <2>4, ColorPlaces DEF Placed
<1>11. Narrow(v, 2) /\ Narrow(0, 2) BY <1>2 DEF Narrow
<1>12. 2 \in 1 .. Len(ColorFormat) /\ 3 \in 1 .. Len(ColorFormat) BY ColorPlaces
<1>13. Unpack(ColorFormat, b, 11)[ColorFormat[2].name] = val[ColorFormat[2].name]
  <2>1. Narrow(val[ColorFormat[2].name], ColorFormat[2].width) BY <1>3, <1>7, <1>11
  <2> QED BY <1>1, <1>9, <1>12, <2>1, ColorPlaces, Unpacked
<1>14. Unpack(ColorFormat, b, 11)[ColorFormat[3].name] = val[ColorFormat[3].name]
  <2>1. Narrow(val[ColorFormat[3].name], ColorFormat[3].width) BY <1>3, <1>7, <1>11
  <2> QED BY <1>1, <1>10, <1>12, <2>1, ColorPlaces, Unpacked
<1> QED BY <1>3, <1>7, <1>13, <1>14 DEF v
LEMMA Colors == FirmwareProgram["color"] = ColorFormat /\ ProgramLayout["color"] = ColorFormat
BY DEF FirmwareProgram, ColorFormat, ProgramLayout
LEMMA ReadsAt == \A what, b : FirmwareReads(what, b) = Unpack(FirmwareProgram[what], b, 11)
<1>1. Size(MsgHdr) + Size(ProgramHdr) = 11 BY HeadersSizes
<1> QED BY <1>1 DEF FirmwareReads
-----------------------------------------------------------------------------
(* What is on the wire was constructed from one of the requests.            *)
OnWire == wire = IDLE \/ (wire \in Exchanged /\ Sendable(wire))
LEMMA StaysOnWire == ExchangeSpec => []OnWire
<1>1. Quiet => OnWire BY DEF Quiet, OnWire
<1>2. OnWire /\ [Exchange]_wire => OnWire'
  <2> SUFFICES ASSUME OnWire, [Exchange]_wire PROVE OnWire' OBVIOUS
  <2>1. CASE Receive BY <2>1 DEF Receive, OnWire
  <2>2. ASSUME NEW q \in Exchanged, Send(q) PROVE OnWire'
    <3>1. wire' = q /\ Sendable(q) BY <2>2 DEF Send
    <3>2. Sendable(q) = Sendable(wire)'
      <4>1. Sendable(wire)' = Sendable(wire') OBVIOUS
      <4> QED BY <3>1, <4>1
    <3> QED BY <3>1, <3>2 DEF OnWire
  <2>3. CASE UNCHANGED wire BY <2>3 DEF OnWire
  <2> QED BY <2>1, <2>2, <2>3 DEF Exchange
<1> QED BY <1>1, <1>2, PTL DEF ExchangeSpec
LEMMA WhatIsSent == ASSUME OnWire, wire # IDLE PROVE Meaningful(wire) /\ Sendable(wire)
BY ExchangeAssumption DEF OnWire

LEMMA Members == ASSUME NEW S, NEW s \in Seq(S) PROVE \A i \in 1 .. Len(s) : s[i] \in S
OBVIOUS

(* Every message but the triangles' declares the length it has, whatever is *)
(* sent (HMTLprotocol.py:109-118).                                         *)
THEOREM LengthCorrect == ExchangeSpec => []DeclaredLength
<1>1. OnWire => DeclaredLength
  <2> SUFFICES ASSUME OnWire, wire # IDLE, wire.what \notin Configs \cup Triangles
               PROVE  Unpack(FirmwareMsg, bytes, 0).length = Len(bytes)
    BY DEF DeclaredLength
  <2>1. Unpack(FirmwareMsg, Encode(wire), 0).length = Len(Encode(wire)) BY WhatIsSent, Declares
  <2> QED BY <2>1 DEF bytes
<1> QED BY <1>1, StaysOnWire, PTL

(* Every field of a program, a configuration or a response is read as its   *)
(* sender gave it, for every value its constructor accepts.                 *)
THEOREM FieldsCorrect == ExchangeSpec => []FieldsArrive
<1>1. ASSUME OnWire, wire # IDLE
      PROVE  LET q == wire IN
             /\ q.what \in DOMAIN FirmwareProgram => FirmwareReads(q.what, Encode(q)) = q.arg
             /\ q.what \in DOMAIN ParseCode =>
                  /\ Encode(q)[11] = ParseCode[q.what]
                  /\ Unpack(ParseLayout[q.what], Tail(SubSeq(Encode(q), 11, Len(Encode(q)))), 0) = q.arg
  <2> DEFINE q == wire
  <2>1. Meaningful(q) /\ Sendable(q) BY <1>1, WhatIsSent
  <2>2. ASSUME q.what \in DOMAIN FirmwareProgram PROVE FirmwareReads(q.what, Encode(q)) = q.arg
    <3>1. q.what \in KnownPrograms /\ FirmwareProgram[q.what] = ProgramLayout[q.what] BY <2>2, SamePrograms
    <3>2. Unpack(ProgramLayout[q.what], Encode(q), 11) = q.arg BY <2>1, <3>1, ProgramRead
    <3> QED BY <3>1, <3>2, ReadsAt
  <2>3. ASSUME q.what \in DOMAIN ParseCode
        PROVE  /\ Encode(q)[11] = ParseCode[q.what]
               /\ Unpack(ParseLayout[q.what], Tail(SubSeq(Encode(q), 11, Len(Encode(q)))), 0) = q.arg
    <3>1. /\ q.what \in KnownPrograms /\ ParseLayout[q.what] = ProgramLayout[q.what]
          /\ ParseCode[q.what] = ProgramCode[q.what] /\ ParseCode[q.what] \in 0 .. 255
      BY <2>3, SameParsed
    <3>2. /\ Unpack(ProgramLayout[q.what], Tail(SubSeq(Encode(q), 11, Len(Encode(q)))), 0) = q.arg
          /\ ProgramCode[q.what] \in 0 .. 255 => Encode(q)[11] = ProgramCode[q.what]
      BY <2>1, <3>1, ProgramRead
    <3> QED BY <3>1, <3>2
  <2> QED BY <2>2, <2>3
<1>2. ASSUME OnWire, wire # IDLE
      PROVE  LET q == wire IN
             /\ q.what = "output" /\ (q.type = "value" => Kept(q.arg.value)) =>
                  Unpack(FirmwareConfig[q.type], Encode(q), 2 + Size(OutputHdr)) = q.arg
             /\ q.what = "header" => Unpack(FirmwareHeader, Encode(q), 2) = Written(q.arg)
  <2>1. Meaningful(wire) /\ Sendable(wire) BY <1>2, WhatIsSent
  <2> QED BY <2>1, OutputRead, HeaderRead
<1>3. ASSUME OnWire, wire # IDLE
      PROVE  LET q == wire IN
             /\ q.what = "poll_response" => Unpack(PollHdr, Encode(q), Size(MsgHdr)) = q.arg
             /\ q.what = "dump_header" =>
                  DumpDecode(SubSeq(Encode(q), 9, Len(Encode(q)))) = [type |-> "header", arg |-> q.arg]
             /\ q.what = "dump_output" /\ (q.type = "value" => Kept(q.arg.value)) =>
                  DumpDecode(SubSeq(Encode(q), 9, Len(Encode(q)))) = [type |-> q.type, arg |-> q.arg]
  <2>1. Meaningful(wire) /\ Sendable(wire) BY <1>3, WhatIsSent
  <2> QED BY <2>1, PollRead, DumpHeaderRead, DumpOutputRead
<1>4. OnWire => FieldsArrive
  <2> SUFFICES ASSUME OnWire, wire # IDLE PROVE FieldsArrive BY DEF FieldsArrive
  <2> QED BY <1>1, <1>2, <1>3 DEF FieldsArrive, Program, bytes, Written
<1> QED BY <1>4, StaysOnWire, PTL

(* A COLOR message lights the range its sender meant or none, whichever     *)
(* bytes an old client sends.                                               *)
THEOREM ColorCorrect == ExchangeSpec => []ColorAsMeant
<1> DEFINE read == FirmwareReads("color", bytes)
           Drawn == FirmwareReads("color", bytes).length # 0 \/ FirmwareReads("color", bytes).start = 0
<1>1. ASSUME OnWire, wire # IDLE, wire.what = "color"
      PROVE  read.start = Meant(wire).start /\ read.length = Meant(wire).length
  <2>1. "color" \in KnownPrograms BY DEF KnownPrograms
  <2>2. Unpack(ProgramLayout["color"], Encode(wire), 11) = wire.arg BY <1>1, <2>1, WhatIsSent, ProgramRead
  <2>3. read = wire.arg BY <2>2, Colors, ReadsAt DEF bytes
  <2> QED BY <1>1, <2>3 DEF Meant
<1>2. ASSUME OnWire, wire # IDLE, wire.what = "generic", wire.arg.program = ProgramCode.color, Drawn
      PROVE  read.start = Meant(wire).start /\ read.length = Meant(wire).length
  <2> DEFINE data == wire.arg.data
             b == Encode(wire)
  <2>1. data \in Seq(0 .. 255) /\ Len(data) = 5 BY <1>2, WhatIsSent, RequestKinds
  <2>2. GenericSent(wire) BY <1>2, <2>1, WhatIsSent, EncodesGeneric
  <2>3. ProgramBytes(b, wire.arg.program, data, 5, 32) BY <2>1, <2>2 DEF GenericSent
  <2> HIDE DEF b, data
  <2>4. List(b, 43) /\ (\A i \in 1 .. 5 : b[11 + i] = data[i]) /\ \A i \in 5 + 1 .. 32 : b[11 + i] = 0
    <3>1. 11 + 32 = 43 OBVIOUS
    <3> QED BY <2>3, <3>1 DEF ProgramBytes, Begins
  <2>5. data[4] \in 0 .. 255 /\ data[5] \in 0 .. 255
    <3>1. \A i \in 1 .. Len(data) : data[i] \in 0 .. 255 BY <2>1, Members
    <3>2. 4 \in 1 .. 5 /\ 5 \in 1 .. 5 OBVIOUS
    <3> QED BY <2>1, <3>1, <3>2
  <2>6. b[11 + 4] = data[4] /\ b[11 + 5] = data[5] /\ b[11 + 6] = 0 /\ b[11 + 7] = 0
    <3>1. 4 \in 1 .. 5 /\ 5 \in 1 .. 5 /\ 6 \in 5 + 1 .. 32 /\ 7 \in 5 + 1 .. 32 OBVIOUS
    <3> QED BY <2>4, <3>1
  <2>7. OldBytes(b, data[4], data[5])
    <3>1. 11 + 4 = 15 /\ 11 + 5 = 16 /\ 11 + 6 = 17 /\ 11 + 7 = 18 OBVIOUS
    <3> QED BY <2>6, <3>1 DEF OldBytes
  <2>8. 43 \in Nat /\ 43 >= 18 OBVIOUS
  <2>9. Unpack(ColorFormat, b, 11)["start"] = data[4] + 256 * data[5] /\ Unpack(ColorFormat, b, 11)["length"] = 0
    BY <2>4, <2>5, <2>7, <2>8, OldColorRead
  <2>10. read = Unpack(ColorFormat, b, 11) BY Colors, ReadsAt DEF bytes, b
  <2> HIDE DEF read
  <2>11. read.start = data[4] + 256 * data[5] /\ read.length = 0 BY <2>9, <2>10
  <2>12. read.start = 0 BY <1>2, <2>11 DEF read
  <2>13. data[4] = 0 /\ data[5] = 0
    <3>1. \A d, e \in 0 .. 255 : d + 256 * e = 0 => d = 0 /\ e = 0 BY SMT
    <3>2. data[4] + 256 * data[5] = 0 BY <2>11, <2>12
    <3> QED BY <2>5, <3>1, <3>2
  <2>14. Meant(wire) = [start |-> data[4], length |-> data[5]] BY <1>2 DEF Meant, data
  <2> QED BY <2>11, <2>12, <2>13, <2>14
<1>3. OnWire => ColorAsMeant
  <2> SUFFICES ASSUME OnWire, wire # IDLE,
                      wire.what = "color" \/ (wire.what = "generic" /\ wire.arg.program = ProgramCode.color),
                      NEW num \in {1, 300, 3000}, FirmwareDraws(read, num)
               PROVE  read.start = Meant(wire).start /\ read.length = Meant(wire).length
    BY DEF ColorAsMeant
  <2>1. Drawn BY DEF FirmwareDraws
  <2> HIDE DEF read, Drawn
  <2> QED BY <1>1, <1>2, <2>1
<1> QED BY <1>3, StaysOnWire, PTL
================================================================================
