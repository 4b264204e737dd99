-------------------------- MODULE Bytecode_proofs --------------------------
(***************************************************************************)
(* Proofs about the importer's analysis, for methods of any length with    *)
(* any of the operations that are lowered and any exception table: an      *)
(* execution follows the control-flow graph, and in a method that is made  *)
(* of statements takes the operands that the IR says.                      *)
(***************************************************************************)
EXTENDS Bytecode, FiniteSetTheorems, SequenceTheorems, WellFoundedInduction, TLAPS

----------------------------------------------------------------------------
(* Induction.                                                              *)

\* A set of numbers that is not empty has a smallest one.
LEMMA SmallestExists ==
  ASSUME NEW T \in SUBSET Nat, T # {}
  PROVE  \E n \in T : \A m \in T : ~(m < n)
<1>1. PICK n \in T : \A m \in T : ~(<<m, n>> \in OpToRel(<, Nat))
  BY NatLessThanWellFounded, WFMin
<1>2. ASSUME NEW m \in T, m < n PROVE FALSE
  BY <1>1, <1>2 DEF OpToRel
<1> QED BY <1>2

\* A set of numbers with 0 and with the successor of each of its members has
\* them all.
LEMMA AllNumbers ==
  ASSUME NEW T, 0 \in T, \A n \in Nat : n \in T => n + 1 \in T
  PROVE  \A n \in Nat : n \in T
<1> DEFINE Out == {n \in Nat : n \notin T}
<1>1. SUFFICES ASSUME Out # {} PROVE FALSE
  OBVIOUS
<1>2. PICK n \in Out : \A m \in Out : ~(m < n)
  BY <1>1, SmallestExists
<1>3. n \in Nat /\ n # 0
  BY <1>2
<1>4. n - 1 \in Nat /\ n - 1 < n /\ (n - 1) + 1 = n
  BY <1>3
<1>5. n - 1 \in T
  BY <1>2, <1>4
<1>6. n \in T
  BY <1>4, <1>5
<1> QED BY <1>2, <1>6

\* A bounded set of numbers that is not empty has a lowest and a highest one.
LEMMA LowestAndHighest ==
  ASSUME NEW n \in Nat, NEW S \in SUBSET (0 .. n), S # {}
  PROVE  /\ Min(S) \in S /\ Max(S) \in S
         /\ \A y \in S : Min(S) <= y /\ y <= Max(S)
<1> DEFINE Below == {m \in Nat : n - m \in S}
<1>1. PICK z \in S : TRUE
  OBVIOUS
<1>2. S \subseteq Nat /\ n - z \in Below
  OBVIOUS
<1>3. PICK k \in S : \A m \in S : ~(m < k)
  BY <1>2, SmallestExists
<1>4. PICK h \in Below : \A m \in Below : ~(m < h)
  BY <1>2, SmallestExists
<1>5. ASSUME NEW y \in S PROVE k <= y /\ y <= n - h
  <2>1. n - y \in Below
    OBVIOUS
  <2> QED BY <1>3, <1>4, <2>1
<1>6. k \in S /\ n - h \in S
  BY <1>3, <1>4
<1>7. PICK low : low = Min(S)
  OBVIOUS
<1>8. low \in S /\ \A y \in S : low <= y
  <2>1. \E x \in S : \A y \in S : x <= y
    BY <1>5, <1>6
  <2> QED BY <1>7, <2>1 DEF Min
<1>9. PICK high : high = Max(S)
  OBVIOUS
<1>10. high \in S /\ \A y \in S : high >= y
  <2>1. \E x \in S : \A y \in S : x >= y
    BY <1>5, <1>6
  <2> QED BY <1>9, <2>1 DEF Max
<1>11. \A y \in S : y <= high
  BY <1>10
<1> QED BY <1>7, <1>8, <1>9, <1>10, <1>11

----------------------------------------------------------------------------
(* What is decoded.                                                        *)

\* Every instruction has a width, and
LEMMA WidthIsPositive ==
  ASSUME NEW op, NEW at \in Nat
  PROVE  DecodeWidth(op, at) \in Nat /\ DecodeWidth(op, at) >= 1
BY DEF DecodeWidth, DecodeWide, FixedWidth, SwitchWidth

\* Offsets at which n instructions of c are.
OffsetsAre(f, c, n) ==
  f = [i \in 1 .. n + 1 |-> IF i = 1 THEN 0 ELSE f[i - 1] + DecodeWidth(c[i - 1].op, f[i - 1])]

\* so an offset;
LEMMA OffsetsExist ==
  ASSUME NEW c, NEW n \in Nat
  PROVE  \E f : OffsetsAre(f, c, n)
<1> DEFINE T == {k \in Nat : \E f : OffsetsAre(f, c, k)}
<1>1. 0 \in T
  <2>1. OffsetsAre([i \in 1 .. 1 |-> 0], c, 0)
    BY DEF OffsetsAre
  <2> QED BY <2>1
<1>2. ASSUME NEW k \in Nat, k \in T PROVE k + 1 \in T
  <2>1. PICK f : OffsetsAre(f, c, k)
    BY <1>2
  <2>2. PICK last : last = f[k + 1] + DecodeWidth(c[k + 1].op, f[k + 1])
    OBVIOUS
  <2>3. PICK g : g = [i \in 1 .. k + 2 |-> IF i = k + 2 THEN last ELSE f[i]]
    OBVIOUS
  <2>4. ASSUME NEW i \in 1 .. k + 2
        PROVE  g[i] = IF i = 1 THEN 0 ELSE g[i - 1] + DecodeWidth(c[i - 1].op, g[i - 1])
    <3>1. CASE i = k + 2
      <4>1. g[i] = last /\ g[i - 1] = f[k + 1] /\ i - 1 = k + 1 /\ i # 1
        BY <2>3, <3>1
      <4> QED BY <2>2, <4>1
    <3>2. CASE i # k + 2
      <4>1. i \in 1 .. k + 1 /\ g[i] = f[i] /\ (i # 1 => g[i - 1] = f[i - 1])
        BY <2>3, <3>2
      <4>2. f[i] = IF i = 1 THEN 0 ELSE f[i - 1] + DecodeWidth(c[i - 1].op, f[i - 1])
        BY <2>1, <4>1 DEF OffsetsAre
      <4> QED BY <4>1, <4>2
    <3> QED BY <3>1, <3>2
  <2>5. (k + 1) + 1 = k + 2
    OBVIOUS
  <2>6. OffsetsAre(g, c, k + 1)
    BY <2>3, <2>4, <2>5 DEF OffsetsAre
  <2> QED BY <2>6
<1> HIDE DEF T
<1>3. n \in T
  BY <1>1, <1>2, AllNumbers
<1> QED BY <1>3 DEF T

\* A decoded method of n instructions.
DecodedAs(m, n) ==
  /\ n \in Nat \ {0} /\ DOMAIN m.code = 1 .. n /\ Len(m.code) = n
  /\ m.at \in [1 .. n + 1 -> Nat] /\ m.at[1] = 0 /\ m.length = m.at[n + 1]
  /\ \A i \in 1 .. n : m.at[i + 1] = m.at[i] + DecodeWidth(m.code[i].op, m.at[i])
  /\ \A i, j \in 1 .. n + 1 : i < j => m.at[i] < m.at[j]

\* each is further on than those before.
LEMMA OffsetsGrow ==
  ASSUME NEW c, NEW n \in Nat, NEW f, OffsetsAre(f, c, n)
  PROVE  /\ f \in [1 .. n + 1 -> Nat] /\ f[1] = 0
         /\ \A i \in 1 .. n : f[i + 1] = f[i] + DecodeWidth(c[i].op, f[i])
         /\ \A i, j \in 1 .. n + 1 : i < j => f[i] < f[j]
<1>1. f[1] = 0 /\ \A i \in 1 .. n : f[i + 1] = f[i] + DecodeWidth(c[i].op, f[i])
  <2>1. \A i \in 1 .. n + 1 :
          f[i] = IF i = 1 THEN 0 ELSE f[i - 1] + DecodeWidth(c[i - 1].op, f[i - 1])
    BY DEF OffsetsAre
  <2>2. ASSUME NEW i \in 1 .. n PROVE f[i + 1] = f[i] + DecodeWidth(c[i].op, f[i])
    <3>1. i + 1 \in 1 .. n + 1 /\ i + 1 # 1 /\ (i + 1) - 1 = i
      OBVIOUS
    <3> QED BY <2>1, <3>1
  <2>3. 1 \in 1 .. n + 1
    OBVIOUS
  <2> QED BY <2>1, <2>2, <2>3
<1> DEFINE T == {k \in Nat : k <= n =>
                   /\ f[k + 1] \in Nat
                   /\ \A i \in 1 .. k : f[i] \in Nat /\ f[i] < f[k + 1]}
<1>2. 0 \in T
  BY <1>1
<1>3. ASSUME NEW k \in Nat, k \in T, k + 1 <= n
      PROVE  /\ f[(k + 1) + 1] \in Nat
             /\ \A i \in 1 .. k + 1 : f[i] \in Nat /\ f[i] < f[(k + 1) + 1]
  <2>1. f[k + 1] \in Nat /\ \A i \in 1 .. k : f[i] \in Nat /\ f[i] < f[k + 1]
    BY <1>3
  <2>2. PICK w : w = DecodeWidth(c[k + 1].op, f[k + 1])
    OBVIOUS
  <2>3. w \in Nat /\ w >= 1
    BY <2>1, <2>2, WidthIsPositive
  <2>4. f[(k + 1) + 1] = f[k + 1] + w
    BY <1>1, <1>3, <2>2
  <2>5. ASSUME NEW i \in 1 .. k + 1 PROVE f[i] \in Nat /\ f[i] <= f[k + 1]
    <3>1. i \in 1 .. k \/ i = k + 1
      OBVIOUS
    <3> QED BY <2>1, <3>1
  <2> QED BY <2>1, <2>3, <2>4, <2>5
<1>4. ASSUME NEW k \in Nat, k \in T PROVE k + 1 \in T
  <2>1. k + 1 <= n => /\ f[(k + 1) + 1] \in Nat
                      /\ \A i \in 1 .. k + 1 : f[i] \in Nat /\ f[i] < f[(k + 1) + 1]
    BY <1>3, <1>4
  <2>2. k + 1 \in Nat
    OBVIOUS
  <2> QED BY <2>1, <2>2
<1> HIDE DEF T
<1>5. \A k \in Nat : k \in T
  BY <1>2, <1>4, AllNumbers
<1>6. ASSUME NEW j \in 1 .. n + 1
      PROVE  f[j] \in Nat /\ \A i \in 1 .. n + 1 : i < j => f[i] < f[j]
  <2>1. j - 1 \in Nat /\ j - 1 <= n /\ (j - 1) + 1 = j
    OBVIOUS
  <2>2. j - 1 \in T
    BY <1>5, <2>1
  <2>3. f[j] \in Nat /\ \A i \in 1 .. j - 1 : f[i] < f[j]
    BY <2>1, <2>2 DEF T
  <2> QED BY <2>3
<1>7. DOMAIN f = 1 .. n + 1
  BY DEF OffsetsAre
<1>8. f = [i \in 1 .. n + 1 |-> f[i]]
  BY <1>7 DEF OffsetsAre
<1> QED BY <1>1, <1>6, <1>8

\* A method is decoded to its instructions, one after the other.
LEMMA DecodedIs ==
  ASSUME NEW S, NEW c \in Seq(S), c # <<>>, NEW h
  PROVE  /\ DecodedAs(Decode(c, h), Len(c))
         /\ Decode(c, h).code = c /\ Decode(c, h).handlers = h
<1>1. PICK n : n = Len(c)
  OBVIOUS
<1>2. n \in Nat \ {0} /\ DOMAIN c = 1 .. n
  BY <1>1
<1> DEFINE Body(f) ==
      [i \in 1 .. n + 1 |-> IF i = 1 THEN 0 ELSE f[i - 1] + DecodeWidth(c[i - 1].op, f[i - 1])]
<1>3. \E f : f = Body(f)
  BY <1>2, OffsetsExist DEF OffsetsAre
<1>4. PICK f : f = CHOOSE x : x = Body(x)
  OBVIOUS
<1>5. f = Body(f)
  BY <1>3, <1>4
<1>6. Decode(c, h) = [code |-> c, handlers |-> h, at |-> f, length |-> f[n + 1]]
  BY <1>1, <1>4 DEF Decode
<1>7. OffsetsAre(f, c, n)
  BY <1>5 DEF OffsetsAre
<1> HIDE DEF Body
<1>8. /\ f \in [1 .. n + 1 -> Nat] /\ f[1] = 0
      /\ \A i \in 1 .. n : f[i + 1] = f[i] + DecodeWidth(c[i].op, f[i])
      /\ \A i, j \in 1 .. n + 1 : i < j => f[i] < f[j]
  BY <1>2, <1>7, OffsetsGrow
<1> QED BY <1>1, <1>2, <1>6, <1>8 DEF DecodedAs

----------------------------------------------------------------------------
(* Blocks.                                                                 *)

\* Offsets are in the order of the instructions.
LEMMA InOrder ==
  ASSUME NEW m, NEW n, DecodedAs(m, n), NEW j \in 1 .. n + 1, NEW k \in 1 .. n + 1
  PROVE  /\ m.at[j] \in Nat /\ m.at[k] \in Nat
         /\ m.at[j] < m.at[k] <=> j < k
         /\ m.at[j] <= m.at[k] <=> j <= k
         /\ m.at[j] = m.at[k] <=> j = k
<1>1. PICK f : f = m.at
  OBVIOUS
<1>2. n \in Nat /\ f[j] \in Nat /\ f[k] \in Nat
  BY <1>1 DEF DecodedAs
<1>3. (j < k => f[j] < f[k]) /\ (k < j => f[k] < f[j])
  BY <1>1 DEF DecodedAs
<1>4. j \in Nat /\ k \in Nat
  BY <1>2
<1>5. CASE j < k
  BY <1>1, <1>2, <1>3, <1>4, <1>5
<1>6. CASE k < j
  BY <1>1, <1>2, <1>3, <1>4, <1>6
<1>7. CASE j = k
  BY <1>1, <1>2, <1>7
<1> QED BY <1>4, <1>5, <1>6, <1>7

\* The instruction at an offset that was decoded.
LEMMA InstructionIs ==
  ASSUME NEW m, NEW n, DecodedAs(m, n), NEW i \in 1 .. n
  PROVE  InstructionAt(m, m.at[i]) = i /\ m.at[i] \in Offsets(m) /\ m.at[i] \in Nat
<1>1. n \in Nat \ {0} /\ DOMAIN m.code = 1 .. n
  BY DEF DecodedAs
<1>2. ASSUME NEW k \in 1 .. n, m.at[k] = m.at[i] PROVE k = i
  <2>1. k \in 1 .. n + 1 /\ i \in 1 .. n + 1
    BY <1>1
  <2> QED BY <1>2, <2>1, InOrder
<1>3. InstructionAt(m, m.at[i]) = i
  BY <1>1, <1>2 DEF InstructionAt
<1>4. m.at[i] \in Offsets(m) /\ m.at[i] \in Nat
  <2>1. i \in 1 .. n + 1
    BY <1>1
  <2>2. m.at[i] \in Nat
    BY <2>1, InOrder
  <2> QED BY <1>1, <2>2 DEF Offsets
<1> QED BY <1>3, <1>4

\* A method of n instructions that was analysed.
Analysed(m, n) == DecodedAs(m, n) /\ m.leaders = Leaders(m)

\* What leads a block: the first instruction, what follows a jump or a return,
\* what a jump goes to, and the ends of a handler's range and the handler.
JumpTargets(m) == {BranchTarget(m, i) : i \in {j \in DOMAIN m.code : m.code[j].op \in Jumps}}
HandlerRanges(m) == UNION {{m.at[h.from], m.at[h.til], m.at[h.at]} : h \in m.handlers}
BlockEnders(m) == OffsetsOf(m, Jumps \cup Returns \cup {"athrow"})

\* The leaders are these.
LEMMA LeadersAre ==
  ASSUME NEW m, NEW x
  PROVE  x \in Leaders(m) <=>
           \/ x = 0
           \/ \E at \in BlockEnders(m) : x \in NextOffset(m, at)
           \/ x \in JumpTargets(m) \cup HandlerRanges(m) /\ x \in Offsets(m)
<1> DEFINE N == UNION {NextOffset(m, at) : at \in BlockEnders(m)}
<1>1. Leaders(m) = {0} \cup N \cup ((JumpTargets(m) \cup HandlerRanges(m)) \cap Offsets(m))
  BY DEF Leaders, JumpTargets, HandlerRanges, BlockEnders
<1>2. x \in N <=> \E at \in BlockEnders(m) : x \in NextOffset(m, at)
  OBVIOUS
<1> HIDE DEF N
<1> QED BY <1>1, <1>2

\* Blocks start at instructions, one of them at the first.
LEMMA LeadersAreOffsets ==
  ASSUME NEW m, NEW n, Analysed(m, n)
  PROVE  /\ m.leaders \subseteq Offsets(m) /\ 0 \in m.leaders
         /\ Offsets(m) = {m.at[i] : i \in 1 .. n}
         /\ Offsets(m) \subseteq 0 .. m.length /\ m.length \in Nat
         /\ \A i \in 1 .. n : m.at[i] < m.length
<1>1. Offsets(m) = {m.at[i] : i \in 1 .. n}
  BY DEF Offsets, Analysed, DecodedAs
<1>2. \A i \in 1 .. n : m.at[i] < m.length /\ m.at[i] \in Nat
  BY DEF Analysed, DecodedAs
<1>3. m.length \in Nat
  BY DEF Analysed, DecodedAs
<1>4. 0 \in Offsets(m)
  BY <1>1 DEF Analysed, DecodedAs
<1>5. ASSUME NEW at PROVE NextOffset(m, at) \subseteq Offsets(m)
  <2>1. \A i \in 1 .. n - 1 : i + 1 \in 1 .. n
    BY DEF Analysed, DecodedAs
  <2>2. Len(m.code) = n
    BY DEF Analysed, DecodedAs
  <2> QED BY <1>1, <2>1, <2>2 DEF NextOffset
<1>6. ASSUME NEW x \in Leaders(m) PROVE x \in Offsets(m)
  <2>1. CASE x = 0
    BY <1>4, <2>1
  <2>2. CASE \E at \in BlockEnders(m) : x \in NextOffset(m, at)
    BY <1>5, <2>2
  <2> QED BY <1>6, <2>1, <2>2, LeadersAre
<1>7. 0 \in Leaders(m)
  BY LeadersAre
<1> QED BY <1>1, <1>2, <1>3, <1>6, <1>7 DEF Analysed

\* The block of an instruction begins at the last leader up to it, and ends
\* after it, at the next leader or at the end of the code.
LEMMA BlockFacts ==
  ASSUME NEW m, NEW n, Analysed(m, n), NEW i \in 1 .. n, NEW b, b = BlockOf(m, m.at[i])
  PROVE  /\ b \in m.leaders /\ b \in Nat /\ b <= m.at[i]
         /\ \A l \in m.leaders : l <= m.at[i] => l <= b
         /\ BlockEnd(m, b) \in m.leaders \cup {m.length} /\ BlockEnd(m, b) \in Nat
         /\ m.at[i] < BlockEnd(m, b) /\ BlockEnd(m, b) <= m.length
         /\ \A l \in m.leaders : l > b => BlockEnd(m, b) <= l
<1>1. /\ m.leaders \subseteq 0 .. m.length /\ 0 \in m.leaders /\ m.length \in Nat
      /\ m.at[i] < m.length /\ m.at[i] \in Nat
  <2>1. m.at[i] \in Nat
    BY DEF Analysed, DecodedAs
  <2> QED BY <2>1, LeadersAreOffsets
<1>2. PICK S : S = {l \in m.leaders : l <= m.at[i]}
  OBVIOUS
<1>3. S \in SUBSET (0 .. m.length) /\ S # {}
  BY <1>1, <1>2
<1>4. Max(S) \in S /\ \A y \in S : y <= Max(S)
  BY <1>1, <1>3, LowestAndHighest
<1>5. b = Max(S)
  BY <1>2 DEF BlockOf
<1>6. b \in m.leaders /\ b \in Nat /\ b <= m.at[i] /\ \A l \in m.leaders : l <= m.at[i] => l <= b
  BY <1>1, <1>2, <1>4, <1>5
<1>7. PICK E : E = {at \in m.leaders : at > b} \cup {m.length}
  OBVIOUS
<1>8. E \in SUBSET (0 .. m.length) /\ E # {}
  BY <1>1, <1>7
<1>9. Min(E) \in E /\ \A y \in E : Min(E) <= y
  BY <1>1, <1>8, LowestAndHighest
<1>10. PICK end : end = BlockEnd(m, b)
  OBVIOUS
<1>11. end = Min(E)
  BY <1>7, <1>10 DEF BlockEnd
<1>12. end \in m.leaders \cup {m.length} /\ end \in Nat /\ end <= m.length
  BY <1>1, <1>7, <1>9, <1>11
<1>13. \A l \in m.leaders : l > b => end <= l
  BY <1>7, <1>9, <1>11
<1>14. m.at[i] < end
  <2>1. CASE end = m.length
    BY <1>1, <2>1
  <2>2. CASE end \in m.leaders /\ end > b
    <3>1. ~(end <= m.at[i])
      BY <1>6, <2>2, <1>12
    <3> QED BY <1>1, <1>12, <3>1
  <2> QED BY <1>7, <1>9, <1>11, <2>1, <2>2
<1> QED BY <1>6, <1>10, <1>12, <1>13, <1>14

\* An instruction before a leader, or before the end, is the last of its block.
LEMMA BlockEnds ==
  ASSUME NEW m, NEW n, Analysed(m, n), NEW i \in 1 .. n, NEW b, b = BlockOf(m, m.at[i]),
         m.at[i + 1] \in m.leaders \/ i = n
  PROVE  /\ BlockEnd(m, b) = m.at[i + 1]
         /\ InstructionAt(m, Max({at \in Offsets(m) : at < BlockEnd(m, b)})) = i
<1>1. PICK end : end = BlockEnd(m, b)
  OBVIOUS
<1>2. /\ b <= m.at[i] /\ m.at[i] < end /\ end \in Nat /\ b \in Nat
      /\ end \in m.leaders \cup {m.length} /\ end <= m.length
      /\ \A l \in m.leaders : l > b => end <= l
  BY <1>1, BlockFacts
<1>3. /\ n \in Nat \ {0} /\ m.length = m.at[n + 1] /\ m.at \in [1 .. n + 1 -> Nat]
      /\ DOMAIN m.code = 1 .. n /\ DecodedAs(m, n)
  BY DEF Analysed, DecodedAs
<1>4. /\ m.leaders \subseteq Offsets(m) /\ Offsets(m) = {m.at[j] : j \in 1 .. n}
      /\ Offsets(m) \subseteq 0 .. m.length /\ m.length \in Nat
  BY LeadersAreOffsets
<1>5. /\ i \in 1 .. n + 1 /\ i + 1 \in 1 .. n + 1 /\ m.at[i] \in Nat /\ m.at[i + 1] \in Nat
      /\ m.at[i] < m.at[i + 1]
  <2>1. i \in 1 .. n + 1 /\ i + 1 \in 1 .. n + 1 /\ i < i + 1
    BY <1>3
  <2> QED BY <1>3, <2>1, InOrder
<1>6. PICK j \in 1 .. n + 1 : end = m.at[j]
  BY <1>2, <1>3, <1>4
<1>7. i < j
  BY <1>2, <1>3, <1>5, <1>6, InOrder
<1>8. m.at[i + 1] <= end
  <2>1. i + 1 <= j
    BY <1>3, <1>7
  <2> QED BY <1>3, <1>5, <1>6, <2>1, InOrder
<1>9. end <= m.at[i + 1]
  <2>1. CASE m.at[i + 1] \in m.leaders
    BY <1>2, <1>5, <2>1
  <2>2. CASE i = n
    BY <1>2, <1>3, <2>2
  <2> QED BY <2>1, <2>2
<1>10. end = m.at[i + 1]
  BY <1>2, <1>5, <1>8, <1>9
<1>11. PICK S : S = {at \in Offsets(m) : at < end}
  OBVIOUS
<1>12. S \in SUBSET (0 .. m.length) /\ m.at[i] \in S
  BY <1>2, <1>4, <1>11
<1>13. PICK top : top = Max(S)
  OBVIOUS
<1>14. top \in S /\ \A y \in S : y <= top
  BY <1>4, <1>12, <1>13, LowestAndHighest
<1>15. PICK k \in 1 .. n : top = m.at[k]
  BY <1>4, <1>11, <1>14
<1>16. k = i
  <2>1. m.at[k] < m.at[i + 1] /\ m.at[i] <= m.at[k]
    BY <1>10, <1>11, <1>12, <1>14, <1>15
  <2>2. k \in 1 .. n + 1
    BY <1>3
  <2>3. k < i + 1 /\ i <= k
    BY <1>3, <1>5, <2>1, <2>2, InOrder
  <2> QED BY <1>3, <2>3
<1>17. InstructionAt(m, top) = i
  BY <1>3, <1>15, <1>16, InstructionIs
<1> QED BY <1>1, <1>10, <1>11, <1>13, <1>17

\* An instruction that does not lead a block is in the block of the one before.
LEMMA SameBlock ==
  ASSUME NEW m, NEW n, Analysed(m, n), NEW i \in 1 .. n, i + 1 \in 1 .. n,
         m.at[i + 1] \notin m.leaders
  PROVE  BlockOf(m, m.at[i + 1]) = BlockOf(m, m.at[i])
<1>1. DecodedAs(m, n) /\ n \in Nat
  BY DEF Analysed, DecodedAs
<1>2. m.leaders \subseteq {m.at[j] : j \in 1 .. n}
  BY LeadersAreOffsets
<1>3. ASSUME NEW l \in m.leaders PROVE l <= m.at[i + 1] <=> l <= m.at[i]
  <2>1. PICK j \in 1 .. n : l = m.at[j]
    BY <1>2
  <2>2. j # i + 1
    BY <1>3, <2>1
  <2>3. i \in 1 .. n + 1 /\ i + 1 \in 1 .. n + 1 /\ j \in 1 .. n + 1
    BY <1>1
  <2>4. (l <= m.at[i + 1] <=> j <= i + 1) /\ (l <= m.at[i] <=> j <= i)
    BY <1>1, <2>1, <2>3, InOrder
  <2>5. j <= i + 1 <=> j <= i
    BY <1>1, <2>2
  <2> QED BY <2>4, <2>5
<1>4. {l \in m.leaders : l <= m.at[i + 1]} = {l \in m.leaders : l <= m.at[i]}
  BY <1>3
<1> QED BY <1>4 DEF BlockOf

\* What follows a jump or a return leads a block.
LEMMA LeaderFollows ==
  ASSUME NEW m, NEW n, Analysed(m, n), NEW i \in 1 .. n, i + 1 \in 1 .. n,
         m.code[i].op \in Jumps \cup Returns \cup {"athrow"}
  PROVE  m.at[i + 1] \in m.leaders
<1>1. DOMAIN m.code = 1 .. n /\ Len(m.code) = n /\ n \in Nat
  BY DEF Analysed, DecodedAs
<1>2. m.at[i] \in BlockEnders(m)
  BY <1>1 DEF OffsetsOf, BlockEnders
<1>3. m.at[i + 1] \in NextOffset(m, m.at[i])
  <2>1. i \in {j \in 1 .. Len(m.code) - 1 : m.at[j] = m.at[i]}
    BY <1>1
  <2> QED BY <2>1 DEF NextOffset
<1>4. m.at[i + 1] \in Leaders(m)
  BY <1>2, <1>3, LeadersAre
<1> QED BY <1>4 DEF Analysed

\* What a jump goes to leads a block, and so does a handler.
LEMMA TargetLeads ==
  ASSUME NEW m, NEW n, Analysed(m, n), NEW i \in 1 .. n,
         m.code[i].op \in Jumps, m.code[i].to \in 1 .. n
  PROVE  m.at[m.code[i].to] \in m.leaders /\ BranchTarget(m, i) = m.at[m.code[i].to]
<1>1. DOMAIN m.code = 1 .. n /\ n \in Nat
  BY DEF Analysed, DecodedAs
<1>2. PICK to : to = m.code[i].to
  OBVIOUS
<1>3. to \in 1 .. n /\ to # 0
  BY <1>1, <1>2
<1>4. BranchTarget(m, i) = m.at[to]
  BY <1>2, <1>3 DEF BranchTarget
<1>5. BranchTarget(m, i) \in JumpTargets(m)
  BY <1>1 DEF JumpTargets
<1>6. m.at[to] \in Offsets(m)
  BY <1>3, LeadersAreOffsets
<1>7. m.at[to] \in Leaders(m)
  BY <1>4, <1>5, <1>6, LeadersAre
<1> QED BY <1>2, <1>4, <1>7 DEF Analysed

\* A handler leads a block.
LEMMA HandlerLeads ==
  ASSUME NEW m, NEW n, Analysed(m, n), NEW h \in m.handlers, h.at \in 1 .. n
  PROVE  m.at[h.at] \in m.leaders
<1>1. m.at[h.at] \in Offsets(m)
  BY LeadersAreOffsets
<1>2. m.at[h.at] \in HandlerRanges(m)
  BY DEF HandlerRanges
<1>3. m.at[h.at] \in Leaders(m)
  BY <1>1, <1>2, LeadersAre
<1> QED BY <1>3 DEF Analysed

----------------------------------------------------------------------------
(* The control-flow graph.                                                 *)

\* What an instruction without a jump goes on to: the next one, in its block or
\* at the start of the next.
LEMMA FlowsOn ==
  ASSUME NEW m, NEW n, Analysed(m, n), NEW i \in 1 .. n, i + 1 \in 1 .. n,
         NEW b, b = BlockOf(m, m.at[i]),
         m.code[i].op \notin (Jumps \cup Returns \cup {"athrow"})
  PROVE  \/ BlockOf(m, m.at[i + 1]) = b
         \/ m.at[i + 1] \in TerminatorSuccessors(m, b)
<1>1. CASE m.at[i + 1] \notin m.leaders
  BY <1>1, SameBlock
<1>2. CASE m.at[i + 1] \in m.leaders
  <2>1. /\ BlockEnd(m, b) = m.at[i + 1]
        /\ InstructionAt(m, Max({at \in Offsets(m) : at < BlockEnd(m, b)})) = i
    BY <1>2, BlockEnds
  <2>2. PICK end, op : end = BlockEnd(m, b) /\ op = m.code[i].op
    OBVIOUS
  <2>3. op # "switch" /\ op \notin Ifs /\ op \notin BranchOps /\ op \notin Returns \cup {"athrow"}
    BY <2>2 DEF Jumps, BranchOps
  <2>4. PICK successors : successors =
          IF op = "switch" THEN {BranchTarget(m, i), CaseTarget}
          ELSE IF op \in Ifs THEN {BranchTarget(m, i), end}
          ELSE IF op \in BranchOps THEN {BranchTarget(m, i)}
          ELSE IF op \in Returns \cup {"athrow"} THEN {}
          ELSE {end} \cap m.leaders
    OBVIOUS
  <2>5. TerminatorSuccessors(m, b) =
          IF successors \subseteq m.leaders THEN successors ELSE Unreachable
    BY <2>1, <2>2, <2>4 DEF TerminatorSuccessors
  <2>6. successors = {end} \cap m.leaders
    BY <2>3, <2>4
  <2> QED BY <1>2, <2>1, <2>2, <2>5, <2>6
<1> QED BY <1>1, <1>2

\* What a jump goes to: for a conditional one the next instruction, too, and
\* for a switch the first.
LEMMA WhereJumpsGo ==
  ASSUME NEW m, NEW n, Analysed(m, n), NEW i \in 1 .. n, NEW b, b = BlockOf(m, m.at[i]),
         m.code[i].op \in Jumps, m.code[i].to \in 1 .. n
  PROVE  /\ m.code[i].op \notin Ifs \/ i + 1 \in 1 .. n =>
              m.at[m.code[i].to] \in TerminatorSuccessors(m, b)
         /\ m.code[i].op \in Ifs /\ i + 1 \in 1 .. n =>
              m.at[i + 1] \in TerminatorSuccessors(m, b)
         /\ m.code[i].op = "switch" => 0 \in TerminatorSuccessors(m, b)
<1>1. m.at[m.code[i].to] \in m.leaders /\ BranchTarget(m, i) = m.at[m.code[i].to]
  BY TargetLeads
<1>2. n \in Nat
  BY DEF Analysed, DecodedAs
<1>3. i + 1 \in 1 .. n \/ i = n
  BY <1>2
<1>4. i + 1 \in 1 .. n => m.at[i + 1] \in m.leaders
  BY LeaderFollows
<1>5. /\ BlockEnd(m, b) = m.at[i + 1]
      /\ InstructionAt(m, Max({at \in Offsets(m) : at < BlockEnd(m, b)})) = i
  BY <1>3, <1>4, BlockEnds
<1>6. PICK target, end, op :
        target = BranchTarget(m, i) /\ end = BlockEnd(m, b) /\ op = m.code[i].op
  OBVIOUS
<1>7. PICK successors : successors =
        IF op = "switch" THEN {target, CaseTarget}
        ELSE IF op \in Ifs THEN {target, end}
        ELSE IF op \in BranchOps THEN {target}
        ELSE IF op \in Returns \cup {"athrow"} THEN {}
        ELSE {end} \cap m.leaders
  OBVIOUS
<1>8. TerminatorSuccessors(m, b) =
        IF successors \subseteq m.leaders THEN successors ELSE Unreachable
  BY <1>5, <1>6, <1>7 DEF TerminatorSuccessors
<1>9. 0 \in m.leaders
  BY LeadersAreOffsets
<1>10. CASE op = "switch"
  <2>1. successors = {target, 0}
    BY <1>7, <1>10 DEF CaseTarget
  <2>2. successors \subseteq m.leaders
    BY <1>1, <1>6, <1>9, <2>1
  <2>3. TerminatorSuccessors(m, b) = {target, 0}
    BY <1>8, <2>1, <2>2
  <2>4. op \notin Ifs
    BY <1>10 DEF Ifs
  <2> QED BY <1>1, <1>6, <1>10, <2>3, <2>4
<1>11. CASE op \in Ifs
  <2>1. op # "switch"
    BY <1>11 DEF Ifs
  <2>2. successors = {target, end}
    BY <1>7, <1>11, <2>1 DEF BranchOps, Returns
  <2>3. i + 1 \in 1 .. n => successors \subseteq m.leaders
    BY <1>1, <1>4, <1>5, <1>6, <2>2
  <2>4. i + 1 \in 1 .. n => TerminatorSuccessors(m, b) = {target, end}
    BY <1>8, <2>2, <2>3
  <2> QED BY <1>1, <1>5, <1>6, <1>11, <2>1, <2>4
<1>12. CASE op \in BranchOps \ Ifs
  <2>1. op # "switch" /\ op \notin Ifs
    BY <1>12 DEF BranchOps, Ifs
  <2>2. successors = {target}
    BY <1>7, <1>12, <2>1
  <2>3. TerminatorSuccessors(m, b) = {target}
    BY <1>1, <1>6, <1>8, <2>2
  <2> QED BY <1>1, <1>6, <2>1, <2>3
<1> QED BY <1>6, <1>10, <1>11, <1>12 DEF Jumps, BranchOps, Ifs

\* Where a handler goes from each instruction that it covers.
LEMMA Throws ==
  ASSUME NEW m, NEW n, Analysed(m, n), NEW i \in 1 .. n, NEW b, b = BlockOf(m, m.at[i]),
         NEW h \in m.handlers, h.from \in 1 .. n, h.til \in 1 .. n + 1, h.at \in 1 .. n,
         h.from <= i, i < h.til
  PROVE  m.at[h.at] \in HandlersOf(m, b) \cap m.leaders
<1>1. PICK from, til, end : from = h.from /\ til = h.til /\ end = BlockEnd(m, b)
  OBVIOUS
<1>2. b \in Nat /\ b <= m.at[i] /\ m.at[i] < end /\ end \in Nat
  BY <1>1, BlockFacts
<1>3. DecodedAs(m, n) /\ n \in Nat
  BY DEF Analysed, DecodedAs
<1>4. i \in 1 .. n + 1 /\ from \in 1 .. n + 1 /\ til \in 1 .. n + 1 /\ from <= i /\ i < til
  BY <1>1, <1>3
<1>5. m.at[i] \in Nat /\ m.at[from] \in Nat /\ m.at[til] \in Nat /\ m.at[i] < m.at[til]
  BY <1>3, <1>4, InOrder
<1>6. m.at[from] <= m.at[i]
  BY <1>3, <1>4, InOrder
<1>7. RangesOverlap(b, end, m.at[from], m.at[til])
  BY <1>2, <1>5, <1>6 DEF RangesOverlap
<1>8. m.at[h.at] \in HandlersOf(m, b)
  BY <1>1, <1>7 DEF HandlersOf
<1> QED BY <1>8, HandlerLeads

----------------------------------------------------------------------------
(* The method and its execution.                                           *)

Instructions ==
  {c \in [op : Operations, to : Nat, local : Locals \cup {NoLocal}] :
     c.op \in LocalOps => c.local \in Locals}
Declarations == [Locals -> Types]

\* The method is as it was written, and the report is about it.
MethodOK ==
  /\ code \in Seq(Instructions)
  /\ \A h \in handlers :
       /\ h.from \in 1 .. Len(code) /\ h.at \in 1 .. Len(code)
       /\ h.til \in 1 .. Len(code) + 1
  /\ report # NoReport =>
       code # <<>> /\ \E d \in Declarations : report = AnalyzeMethod(code, handlers, d)

\* How the machine came to where it is.
Went(i, j) ==
  \/ j \in NextPcs(i)
  \/ \E h \in handlers : h.from <= i /\ i < h.til /\ j = h.at
MachineOK ==
  /\ report = NoReport => came = 0 /\ stack = <<>>
  /\ report # NoReport => pc \in 1 .. Len(code)
  /\ came # 0 => Verified /\ came \in 1 .. Len(code) /\ Went(came, pc)

BytecodeInvariant == MethodOK /\ MachineOK

\* The report of a method.
LEMMA ReportIs ==
  ASSUME NEW c \in Seq(Instructions), c # <<>>, NEW h, NEW r, NEW t \in Declarations,
         r = AnalyzeMethod(c, h, t)
  PROVE  /\ Analysed(r.method, Len(c)) /\ r.method.code = c /\ r.method.handlers = h
         /\ r.cfg = BuildCfg(r.method) /\ r.ir = BuildIr(r.method)
         /\ r.color = Classify(ReasonCodes(r.method)) /\ r # NoReport
         /\ r.method.declared \in Declarations
<1>1. PICK d : d = Decode(c, h)
  OBVIOUS
<1>2. DecodedAs(d, Len(c)) /\ d.code = c /\ d.handlers = h
  BY <1>1, DecodedIs
<1>3. PICK m : m = [code |-> c, handlers |-> h, at |-> d.at, length |-> d.length,
                    leaders |-> Leaders(d), declared |-> t]
  OBVIOUS
<1>4. r = [method |-> m, cfg |-> BuildCfg(m), merges |-> CfgMerges(BuildCfg(m)),
           ir |-> BuildIr(m), color |-> Classify(ReasonCodes(m))]
  BY <1>1, <1>3 DEF AnalyzeMethod
<1>5. DecodedAs(m, Len(c))
  BY <1>2, <1>3 DEF DecodedAs
<1>6. Leaders(m) = Leaders(d)
  <2>1. \A x : Offsets(m) = Offsets(d) /\ NextOffset(m, x) = NextOffset(d, x)
    BY <1>2, <1>3 DEF Offsets, NextOffset
  <2>2. JumpTargets(m) = JumpTargets(d) /\ HandlerRanges(m) = HandlerRanges(d)
    BY <1>2, <1>3 DEF JumpTargets, HandlerRanges, BranchTarget
  <2>3. BlockEnders(m) = BlockEnders(d)
    BY <1>2, <1>3 DEF BlockEnders, OffsetsOf
  <2>4. \A x : x \in Leaders(m) <=> x \in Leaders(d)
    BY <2>1, <2>2, <2>3, LeadersAre
  <2>5. Leaders(m) = {x \in Leaders(m) : TRUE} /\ Leaders(d) = {x \in Leaders(d) : TRUE}
    BY DEF Leaders
  <2> QED BY <2>4, <2>5
<1>7. r.color # "none"
  BY <1>4 DEF Classify
<1> QED BY <1>3, <1>4, <1>5, <1>6, <1>7 DEF Analysed, NoReport

\* The invariant holds of the method to be written,
LEMMA BytecodeStart == Init => BytecodeInvariant
BY DEF Init, BytecodeInvariant, MethodOK, MachineOK

\* and every step keeps it.
LEMMA BytecodeStep == BytecodeInvariant /\ [Next]_vars => BytecodeInvariant'
<1> SUFFICES ASSUME BytecodeInvariant, [Next]_vars PROVE BytecodeInvariant'
  OBVIOUS
<1> USE DEF BytecodeInvariant
<1>1. CASE \E op \in Operations : Write(op)
  <2>1. PICK op \in Operations : Write(op)
    BY <1>1
  <2>2. PICK c \in Instructions : code' = Append(code, c)
    <3>1. PICK to \in IF op \in Jumps THEN 0 .. MaxWeight ELSE {0},
               local \in IF op \in LocalOps THEN Locals ELSE {NoLocal} :
            code' = Append(code, [op |-> op, to |-> to, local |-> local])
      BY <2>1 DEF Write
    <3>2. to \in Nat
      BY <3>1, BytecodeAssumption
    <3>3. [op |-> op, to |-> to, local |-> local] \in Instructions
      BY <3>1, <3>2 DEF Instructions
    <3> QED BY <3>1, <3>3
  <2>3. report = NoReport /\ UNCHANGED <<handlers, report, pc, came, stack>>
    BY <2>1 DEF Write
  <2>5. code' \in Seq(Instructions) /\ Len(code') = Len(code) + 1 /\ Len(code) \in Nat
    BY <2>2 DEF MethodOK
  <2>6. MethodOK'
    BY <2>3, <2>5 DEF MethodOK
  <2> QED BY <2>3, <2>6 DEF MachineOK
<1>2. CASE Protect
  <2>1. report = NoReport /\ UNCHANGED <<code, report, pc, came, stack>>
    BY <1>2 DEF Protect
  <2>2. PICK from, at \in DOMAIN code : \E til \in from + 1 .. Len(code) + 1 :
          handlers' = handlers \cup {[from |-> from, til |-> til, at |-> at]}
    BY <1>2 DEF Protect
  <2>3. PICK til \in from + 1 .. Len(code) + 1 :
          handlers' = handlers \cup {[from |-> from, til |-> til, at |-> at]}
    BY <2>2
  <2>4. DOMAIN code = 1 .. Len(code) /\ Len(code) \in Nat
    BY DEF MethodOK
  <2>5. from \in 1 .. Len(code) /\ at \in 1 .. Len(code) /\ til \in 1 .. Len(code) + 1
    BY <2>4
  <2>6. MethodOK'
    BY <2>1, <2>3, <2>5 DEF MethodOK
  <2> QED BY <2>1, <2>6 DEF MachineOK
<1>3. CASE Analyze
  <2>1. /\ report = NoReport /\ code # <<>>
        /\ \E d \in Declarations : report' = AnalyzeMethod(code, handlers, d)
        /\ pc' = 1 /\ UNCHANGED <<code, handlers, came, stack>>
    BY <1>3 DEF Analyze, Declarations
  <2>2. MethodOK'
    BY <2>1 DEF MethodOK
  <2>3. 1 \in 1 .. Len(code)
    <3>1. code \in Seq(Instructions) /\ code # <<>>
      BY <2>1 DEF MethodOK
    <3>2. Len(code) \in Nat /\ Len(code) # 0
      BY <3>1
    <3> QED BY <3>2
  <2>4. report' # NoReport
    BY <2>1, ReportIs DEF MethodOK
  <2> QED BY <2>1, <2>2, <2>3, <2>4 DEF MachineOK
<1>4. CASE Execute \/ Throw
  <2>1. /\ report # NoReport /\ Verified /\ came' = pc /\ UNCHANGED <<code, handlers, report>>
        /\ pc' \in NextPcs(pc) \cap DOMAIN code
             \/ \E h \in handlers : h.from <= pc /\ pc < h.til /\ pc' = h.at
    BY <1>4 DEF Execute, Throw
  <2>2. MethodOK'
    BY <2>1 DEF MethodOK
  <2>3. pc' \in 1 .. Len(code)
    BY <2>1 DEF MethodOK
  <2>4. pc \in 1 .. Len(code)
    BY <2>1 DEF MachineOK
  <2>5. Went(pc, pc')
    BY <2>1 DEF Went
  <2>6. Went(came, pc)' /\ Verified'
    BY <2>1, <2>5 DEF Went, NextPcs, Verified
  <2> QED BY <2>1, <2>2, <2>3, <2>4, <2>6 DEF MachineOK
<1>5. CASE UNCHANGED vars
  BY <1>5 DEF vars, MethodOK, MachineOK, Went, NextPcs, Verified
<1> QED BY <1>1, <1>2, <1>3, <1>4, <1>5 DEF Next

\* An execution follows the graph.
LEMMA StepFollowsCfg ==
  ASSUME BytecodeInvariant, Running, came # 0, report.color # "red"
  PROVE  LET m == report.method
             from == BlockOf(m, m.at[came])
         IN \/ pc = came + 1 /\ BlockOf(m, m.at[pc]) = from
            \/ m.at[pc] \in report.cfg[from]
<1>1. PICK m, n, b : m = report.method /\ n = Len(code) /\ b = BlockOf(m, m.at[came])
  OBVIOUS
<1>2. /\ code \in Seq(Instructions) /\ code # <<>>
      /\ \E d \in Declarations : report = AnalyzeMethod(code, handlers, d)
  BY DEF BytecodeInvariant, MethodOK, Running
<1>3. /\ Analysed(m, n) /\ m.code = code /\ m.handlers = handlers /\ report.cfg = BuildCfg(m)
      /\ report.color = Classify(ReasonCodes(m))
  BY <1>1, <1>2, ReportIs
<1>4. Verified /\ came \in 1 .. n /\ pc \in 1 .. n /\ Went(came, pc)
  BY <1>1 DEF BytecodeInvariant, MachineOK, Running
<1>5. DOMAIN code = 1 .. n /\ n \in Nat
  BY <1>1, <1>2
<1>6. m.code[came].op \notin Subroutines
  <2>1. "subroutine" \notin ReasonCodes(m)
    BY <1>3 DEF Classify
  <2>2. ~LegacySubroutine(m)
    BY <2>1 DEF ReasonCodes
  <2> QED BY <1>3, <1>4, <1>5, <2>2 DEF LegacySubroutine
<1>7. b \in m.leaders
  BY <1>1, <1>3, <1>4, BlockFacts
<1>8. report.cfg[b] = TerminatorSuccessors(m, b) \cup (HandlersOf(m, b) \cap m.leaders)
  BY <1>3, <1>7 DEF BuildCfg
<1>9. PICK op, to : op = code[came].op /\ to = code[came].to
  OBVIOUS
<1>10. \/ pc = came + 1 /\ BlockOf(m, m.at[pc]) = b
       \/ m.at[pc] \in report.cfg[b]
  <2>1. CASE \E h \in handlers : h.from <= came /\ came < h.til /\ pc = h.at
    <3>1. PICK h \in m.handlers : h.from <= came /\ came < h.til /\ pc = h.at
      BY <1>3, <2>1
    <3>2. h.from \in 1 .. n /\ h.til \in 1 .. n + 1 /\ h.at \in 1 .. n
      BY <1>1, <1>3 DEF BytecodeInvariant, MethodOK
    <3>3. m.at[h.at] \in HandlersOf(m, b) \cap m.leaders
      BY <1>1, <1>3, <1>4, <3>1, <3>2, Throws
    <3> QED BY <1>8, <3>1, <3>3
  <2>2. CASE pc \in NextPcs(came)
    <3>1. CASE op \in Jumps
      <4>1. to \in 1 .. n
        BY <1>4, <1>5, <1>9, <3>1 DEF Verified
      <4>2. m.code[came].op \in Jumps /\ m.code[came].to \in 1 .. n
        BY <1>3, <1>9, <3>1, <4>1
      <4>3. op \in Ifs => came + 1 \in 1 .. n
        <5>1. op \in Ifs => came # n
          BY <1>1, <1>4, <1>9 DEF Verified, Last
        <5> QED BY <1>4, <1>5, <5>1
      <4>4. /\ m.at[to] \in TerminatorSuccessors(m, b)
            /\ op \in Ifs => m.at[came + 1] \in TerminatorSuccessors(m, b)
            /\ op = "switch" => 0 \in TerminatorSuccessors(m, b)
        BY <1>1, <1>3, <1>4, <1>9, <4>2, <4>3, WhereJumpsGo
      <4>5. \/ pc = to
            \/ op \in Ifs /\ pc = came + 1
            \/ op = "switch" /\ pc = 1
        BY <1>9, <2>2, <3>1 DEF NextPcs, Jumps, BranchOps, Ifs
      <4>6. m.at[1] = 0
        BY <1>3 DEF Analysed, DecodedAs
      <4> QED BY <1>8, <4>4, <4>5, <4>6
    <3>2. CASE op \notin Jumps
      <4>1. op \notin Ifs /\ op # "switch" /\ op \notin BranchOps /\ op \notin {"ret", "wide_ret"}
        BY <1>3, <1>6, <1>9, <3>2 DEF Jumps, BranchOps, Subroutines
      <4>2. op \notin Returns \cup {"athrow"} /\ pc = came + 1
        BY <1>9, <2>2, <4>1 DEF NextPcs
      <4>3. \/ BlockOf(m, m.at[came + 1]) = b
            \/ m.at[came + 1] \in TerminatorSuccessors(m, b)
        BY <1>1, <1>3, <1>4, <1>9, <3>2, <4>2, FlowsOn
      <4> QED BY <1>8, <4>2, <4>3
    <3> QED BY <3>1, <3>2
  <2> QED BY <1>4, <2>1, <2>2 DEF Went
<1> QED BY <1>1, <1>10

\* An execution only goes where the control-flow graph says.
THEOREM CfgIsFollowed == Spec => []ExecutionFollowsCfg
<1>1. BytecodeInvariant => ExecutionFollowsCfg
  BY StepFollowsCfg DEF ExecutionFollowsCfg
<1> QED BY <1>1, BytecodeStart, BytecodeStep, PTL DEF Spec

----------------------------------------------------------------------------
(* What lowering makes of one instruction.                                 *)

\* The lowering of an operation skips what was decoded of it and takes from the
\* stack what the machine takes, if it is supported.
Fits(how, op, at) ==
  /\ how.width = DecodeWidth(op, at)
  /\ how.in \in Nat /\ how.out \in Nat /\ how.unsupported \in BOOLEAN
  /\ op = "dup" => how.in = 1
  /\ op = "swap" => how.in = 2
  /\ ~how.unsupported =>
       /\ Effect(op)[1] = how.in /\ Effect(op)[2] = how.out
       /\ op \notin Subroutines \cup {"dup_x1"}

\* The lowering of constants fits.
LEMMA ConstantsFit ==
  ASSUME NEW op \in DOMAIN LowerConstants, NEW at \in Nat
  PROVE  Fits(LowerConstants[op], op, at)
<1>1. op \in {"const", "const2", "ldc", "load", "load2"}
  BY DEF LowerConstants
<1>2. Fits(LowerConstants["const"], "const", at)
  BY DEF LowerConstants, Fits, Takes, Unsupported, Effect, DecodeWidth, DecodeWide,
         FixedWidth, Ifs, Subroutines, Loads, Stores
<1>3. Fits(LowerConstants["const2"], "const2", at)
  BY DEF LowerConstants, Fits, Takes, Unsupported, Effect, DecodeWidth, DecodeWide,
         FixedWidth, Ifs, Subroutines, Loads, Stores
<1>4. Fits(LowerConstants["ldc"], "ldc", at)
  BY DEF LowerConstants, Fits, Takes, Unsupported, Effect, DecodeWidth, DecodeWide,
         FixedWidth, Ifs, Subroutines, Loads, Stores
<1>5. Fits(LowerConstants["load"], "load", at)
  BY DEF LowerConstants, Fits, Takes, Unsupported, Effect, DecodeWidth, DecodeWide,
         FixedWidth, Ifs, Subroutines, Loads, Stores
<1>6. Fits(LowerConstants["load2"], "load2", at)
  BY DEF LowerConstants, Fits, Takes, Unsupported, Effect, DecodeWidth, DecodeWide,
         FixedWidth, Ifs, Subroutines, Loads, Stores
<1> QED BY <1>1, <1>2, <1>3, <1>4, <1>5, <1>6

\* The lowering of array accesses and stores fits.
LEMMA ArraysFit ==
  ASSUME NEW op \in DOMAIN LowerArrays, NEW at \in Nat
  PROVE  Fits(LowerArrays[op], op, at)
<1>1. op \in {"arrayload", "aaload", "store", "store2", "arraystore"}
  BY DEF LowerArrays
<1>2. Fits(LowerArrays["arrayload"], "arrayload", at)
  BY DEF LowerArrays, Fits, Takes, Unsupported, Effect, DecodeWidth, DecodeWide,
         FixedWidth, Ifs, Subroutines, Loads, Stores
<1>3. Fits(LowerArrays["store"], "store", at)
  BY DEF LowerArrays, Fits, Takes, Unsupported, Effect, DecodeWidth, DecodeWide,
         FixedWidth, Ifs, Subroutines, Loads, Stores
<1>4. Fits(LowerArrays["arraystore"], "arraystore", at)
  BY DEF LowerArrays, Fits, Takes, Unsupported, Effect, DecodeWidth, DecodeWide,
         FixedWidth, Ifs, Subroutines, Loads, Stores
<1>5. Fits(LowerArrays["aaload"], "aaload", at)
  BY DEF LowerArrays, Fits, Takes, Unsupported, Effect, DecodeWidth, DecodeWide,
         FixedWidth, Ifs, Subroutines, Loads, Stores
<1>6. Fits(LowerArrays["store2"], "store2", at)
  BY DEF LowerArrays, Fits, Takes, Unsupported, Effect, DecodeWidth, DecodeWide,
         FixedWidth, Ifs, Subroutines, Loads, Stores
<1> QED BY <1>1, <1>2, <1>3, <1>4, <1>5, <1>6

\* The lowering of stack operations fits.
LEMMA StackFit ==
  ASSUME NEW op \in DOMAIN LowerStack, NEW at \in Nat
  PROVE  Fits(LowerStack[op], op, at)
<1>1. op \in {"pop", "pop2", "dup", "swap", "dup_x1"}
  BY DEF LowerStack
<1>2. Fits(LowerStack["pop"], "pop", at)
  BY DEF LowerStack, Fits, Takes, Unsupported, Effect, DecodeWidth, DecodeWide,
         FixedWidth, Ifs, Subroutines, Loads, Stores
<1>3. Fits(LowerStack["pop2"], "pop2", at)
  BY DEF LowerStack, Fits, Takes, Unsupported, Effect, DecodeWidth, DecodeWide,
         FixedWidth, Ifs, Subroutines, Loads, Stores
<1>4. Fits(LowerStack["dup"], "dup", at)
  BY DEF LowerStack, Fits, Takes, Unsupported, Effect, DecodeWidth, DecodeWide,
         FixedWidth, Ifs, Subroutines, Loads, Stores
<1>5. Fits(LowerStack["swap"], "swap", at)
  BY DEF LowerStack, Fits, Takes, Unsupported, Effect, DecodeWidth, DecodeWide,
         FixedWidth, Ifs, Subroutines, Loads, Stores
<1>6. Fits(LowerStack["dup_x1"], "dup_x1", at)
  BY DEF LowerStack, Fits, Takes, Unsupported, Effect, DecodeWidth, DecodeWide,
         FixedWidth, Ifs, Subroutines, Loads, Stores
<1> QED BY <1>1, <1>2, <1>3, <1>4, <1>5, <1>6

\* The lowering of arithmetic fits.
LEMMA ArithmeticFit ==
  ASSUME NEW op \in DOMAIN LowerArithmetic, NEW at \in Nat
  PROVE  Fits(LowerArithmetic[op], op, at)
<1>1. op \in {"binary", "iinc", "convert"}
  BY DEF LowerArithmetic
<1>2. Fits(LowerArithmetic["binary"], "binary", at)
  BY DEF LowerArithmetic, Fits, Takes, Unsupported, Effect, DecodeWidth, DecodeWide,
         FixedWidth, Ifs, Subroutines, Loads, Stores
<1>3. Fits(LowerArithmetic["iinc"], "iinc", at)
  BY DEF LowerArithmetic, Fits, Takes, Unsupported, Effect, DecodeWidth, DecodeWide,
         FixedWidth, Ifs, Subroutines, Loads, Stores
<1>4. Fits(LowerArithmetic["convert"], "convert", at)
  BY DEF LowerArithmetic, Fits, Takes, Unsupported, Effect, DecodeWidth, DecodeWide,
         FixedWidth, Ifs, Subroutines, Loads, Stores
<1> QED BY <1>1, <1>2, <1>3, <1>4

\* The lowering of jumps and returns fits.
LEMMA BranchesFit ==
  ASSUME NEW op \in DOMAIN LowerBranches, NEW at \in Nat
  PROVE  Fits(LowerBranches[op], op, at)
<1>1. op \in {"if", "if2", "goto", "jsr", "ret", "vreturn", "return"}
  BY DEF LowerBranches
<1>2. Fits(LowerBranches["if"], "if", at)
  BY DEF LowerBranches, Fits, Takes, Unsupported, Effect, DecodeWidth, DecodeWide,
         FixedWidth, Ifs, Subroutines, Loads, Stores
<1>3. Fits(LowerBranches["if2"], "if2", at)
  BY DEF LowerBranches, Fits, Takes, Unsupported, Effect, DecodeWidth, DecodeWide,
         FixedWidth, Ifs, Subroutines, Loads, Stores
<1>4. Fits(LowerBranches["goto"], "goto", at)
  BY DEF LowerBranches, Fits, Takes, Unsupported, Effect, DecodeWidth, DecodeWide,
         FixedWidth, Ifs, Subroutines, Loads, Stores
<1>5. Fits(LowerBranches["jsr"], "jsr", at)
  BY DEF LowerBranches, Fits, Takes, Unsupported, Effect, DecodeWidth, DecodeWide,
         FixedWidth, Ifs, Subroutines, Loads, Stores
<1>6. Fits(LowerBranches["ret"], "ret", at)
  BY DEF LowerBranches, Fits, Takes, Unsupported, Effect, DecodeWidth, DecodeWide,
         FixedWidth, Ifs, Subroutines, Loads, Stores
<1>7. Fits(LowerBranches["vreturn"], "vreturn", at)
  BY DEF LowerBranches, Fits, Takes, Unsupported, Effect, DecodeWidth, DecodeWide,
         FixedWidth, Ifs, Subroutines, Loads, Stores
<1>8. Fits(LowerBranches["return"], "return", at)
  BY DEF LowerBranches, Fits, Takes, Unsupported, Effect, DecodeWidth, DecodeWide,
         FixedWidth, Ifs, Subroutines, Loads, Stores
<1> QED BY <1>1, <1>2, <1>3, <1>4, <1>5, <1>6, <1>7, <1>8

\* The lowering of field accesses fits.
LEMMA FieldsFit ==
  ASSUME NEW op \in DOMAIN LowerFields, NEW at \in Nat
  PROVE  Fits(LowerFields[op], op, at)
<1>1. op \in {"getstatic", "putstatic", "getfield", "putfield"}
  BY DEF LowerFields
<1>2. Fits(LowerFields["getstatic"], "getstatic", at)
  BY DEF LowerFields, Fits, Takes, Unsupported, Effect, DecodeWidth, DecodeWide,
         FixedWidth, Ifs, Subroutines, Loads, Stores
<1>3. Fits(LowerFields["putstatic"], "putstatic", at)
  BY DEF LowerFields, Fits, Takes, Unsupported, Effect, DecodeWidth, DecodeWide,
         FixedWidth, Ifs, Subroutines, Loads, Stores
<1>4. Fits(LowerFields["getfield"], "getfield", at)
  BY DEF LowerFields, Fits, Takes, Unsupported, Effect, DecodeWidth, DecodeWide,
         FixedWidth, Ifs, Subroutines, Loads, Stores
<1>5. Fits(LowerFields["putfield"], "putfield", at)
  BY DEF LowerFields, Fits, Takes, Unsupported, Effect, DecodeWidth, DecodeWide,
         FixedWidth, Ifs, Subroutines, Loads, Stores
<1> QED BY <1>1, <1>2, <1>3, <1>4, <1>5

\* The lowering of calls fits.
LEMMA InvokeFit ==
  ASSUME NEW op \in DOMAIN LowerInvoke, NEW at \in Nat
  PROVE  Fits(LowerInvoke[op], op, at)
<1>1. op \in {"invokestatic", "invokevirtual", "invokeinterface"}
  BY DEF LowerInvoke
<1>2. Fits(LowerInvoke["invokestatic"], "invokestatic", at)
  BY DEF LowerInvoke, Fits, Takes, Unsupported, Effect, DecodeWidth, DecodeWide,
         FixedWidth, Ifs, Subroutines, Loads, Stores
<1>3. Fits(LowerInvoke["invokevirtual"], "invokevirtual", at)
  BY DEF LowerInvoke, Fits, Takes, Unsupported, Effect, DecodeWidth, DecodeWide,
         FixedWidth, Ifs, Subroutines, Loads, Stores
<1>4. Fits(LowerInvoke["invokeinterface"], "invokeinterface", at)
  BY DEF LowerInvoke, Fits, Takes, Unsupported, Effect, DecodeWidth, DecodeWide,
         FixedWidth, Ifs, Subroutines, Loads, Stores
<1> QED BY <1>1, <1>2, <1>3, <1>4

\* The lowering of creations fits.
LEMMA ObjectsFit ==
  ASSUME NEW op \in DOMAIN LowerObjects, NEW at \in Nat
  PROVE  Fits(LowerObjects[op], op, at)
<1>1. op \in {"new", "newarray", "anewarray", "arraylength"}
  BY DEF LowerObjects
<1>2. Fits(LowerObjects["new"], "new", at)
  BY DEF LowerObjects, Fits, Takes, Unsupported, Effect, DecodeWidth, DecodeWide,
         FixedWidth, Ifs, Subroutines, Loads, Stores
<1>3. Fits(LowerObjects["newarray"], "newarray", at)
  BY DEF LowerObjects, Fits, Takes, Unsupported, Effect, DecodeWidth, DecodeWide,
         FixedWidth, Ifs, Subroutines, Loads, Stores
<1>4. Fits(LowerObjects["anewarray"], "anewarray", at)
  BY DEF LowerObjects, Fits, Takes, Unsupported, Effect, DecodeWidth, DecodeWide,
         FixedWidth, Ifs, Subroutines, Loads, Stores
<1>5. Fits(LowerObjects["arraylength"], "arraylength", at)
  BY DEF LowerObjects, Fits, Takes, Unsupported, Effect, DecodeWidth, DecodeWide,
         FixedWidth, Ifs, Subroutines, Loads, Stores
<1> QED BY <1>1, <1>2, <1>3, <1>4, <1>5

\* The lowering of checks and far jumps fits.
LEMMA ChecksFit ==
  ASSUME NEW op \in DOMAIN LowerChecks, NEW at \in Nat
  PROVE  Fits(LowerChecks[op], op, at)
<1>1. op \in {"athrow", "checkcast", "monitor", "multianewarray", "goto_w"}
  BY DEF LowerChecks
<1>2. Fits(LowerChecks["athrow"], "athrow", at)
  BY DEF LowerChecks, Fits, Takes, Unsupported, Effect, DecodeWidth, DecodeWide,
         FixedWidth, Ifs, Subroutines, Loads, Stores
<1>3. Fits(LowerChecks["checkcast"], "checkcast", at)
  BY DEF LowerChecks, Fits, Takes, Unsupported, Effect, DecodeWidth, DecodeWide,
         FixedWidth, Ifs, Subroutines, Loads, Stores
<1>4. Fits(LowerChecks["monitor"], "monitor", at)
  BY DEF LowerChecks, Fits, Takes, Unsupported, Effect, DecodeWidth, DecodeWide,
         FixedWidth, Ifs, Subroutines, Loads, Stores
<1>5. Fits(LowerChecks["multianewarray"], "multianewarray", at)
  BY DEF LowerChecks, Fits, Takes, Unsupported, Effect, DecodeWidth, DecodeWide,
         FixedWidth, Ifs, Subroutines, Loads, Stores
<1>6. Fits(LowerChecks["goto_w"], "goto_w", at)
  BY DEF LowerChecks, Fits, Takes, Unsupported, Effect, DecodeWidth, DecodeWide,
         FixedWidth, Ifs, Subroutines, Loads, Stores
<1> QED BY <1>1, <1>2, <1>3, <1>4, <1>5, <1>6

\* The lowering of wide operations fits.
LEMMA WideFit ==
  ASSUME NEW op \in DOMAIN LowerWide, NEW at \in Nat
  PROVE  Fits(LowerWide[op], op, at)
<1>1. op \in {"wide_load", "wide_load2", "wide_store", "wide_store2", "wide_iinc",
          "wide_ret"}
  BY DEF LowerWide
<1>2. Fits(LowerWide["wide_load"], "wide_load", at)
  BY DEF LowerWide, Fits, Takes, Unsupported, Effect, DecodeWidth, DecodeWide,
         FixedWidth, Ifs, Subroutines, Loads, Stores
<1>3. Fits(LowerWide["wide_store"], "wide_store", at)
  BY DEF LowerWide, Fits, Takes, Unsupported, Effect, DecodeWidth, DecodeWide,
         FixedWidth, Ifs, Subroutines, Loads, Stores
<1>4. Fits(LowerWide["wide_iinc"], "wide_iinc", at)
  BY DEF LowerWide, Fits, Takes, Unsupported, Effect, DecodeWidth, DecodeWide,
         FixedWidth, Ifs, Subroutines, Loads, Stores
<1>5. Fits(LowerWide["wide_ret"], "wide_ret", at)
  BY DEF LowerWide, Fits, Takes, Unsupported, Effect, DecodeWidth, DecodeWide,
         FixedWidth, Ifs, Subroutines, Loads, Stores
<1>6. Fits(LowerWide["wide_load2"], "wide_load2", at)
  BY DEF LowerWide, Fits, Takes, Unsupported, Effect, DecodeWidth, DecodeWide,
         FixedWidth, Ifs, Subroutines, Loads, Stores
<1>7. Fits(LowerWide["wide_store2"], "wide_store2", at)
  BY DEF LowerWide, Fits, Takes, Unsupported, Effect, DecodeWidth, DecodeWide,
         FixedWidth, Ifs, Subroutines, Loads, Stores
<1> QED BY <1>1, <1>2, <1>3, <1>4, <1>5, <1>6, <1>7

\* The lowering of a switch fits.
LEMMA SwitchFits ==
  ASSUME NEW at \in Nat
  PROVE  Fits(LowerSwitch(at), "switch", at)
BY DEF LowerSwitch, Takes, Unsupported, Fits, Effect, DecodeWidth, DecodeWide, FixedWidth,
       SwitchWidth, Ifs, Subroutines, Loads, Stores

\* So each operation is lowered in one way, that fits.
LEMMA LoweringFits ==
  ASSUME NEW op \in Operations, NEW at \in Nat
  PROVE  Fits(Lowering(op, at), op, at)
<1>1. CASE op = "switch"
  BY <1>1, SwitchFits DEF Lowering
<1>2. CASE op # "switch"
  <2>1. \E t \in LoweringTables : op \in DOMAIN t
    BY <1>2, OperationsAssumption
  <2>2. PICK table : table = CHOOSE t \in LoweringTables : op \in DOMAIN t
    OBVIOUS
  <2>3. table \in LoweringTables /\ op \in DOMAIN table
    BY <2>1, <2>2
  <2>4. Lowering(op, at) = table[op]
    BY <1>2, <2>2 DEF Lowering
  <2>5. Fits(table[op], op, at)
    BY <2>3, ConstantsFit, ArraysFit, StackFit, ArithmeticFit, BranchesFit, FieldsFit,
       InvokeFit, ObjectsFit, ChecksFit, WideFit DEF LoweringTables
  <2> QED BY <2>4, <2>5
<1> QED BY <1>1, <1>2

----------------------------------------------------------------------------
(* The operand stack.                                                      *)

Values == [by : Nat, kind : {"pushed", "caught", "unknown"}, wide : BOOLEAN]

\* The values of the analysis.
LEMMA ValuesAre ==
  ASSUME NEW at \in Nat
  PROVE  Value(at) \in Values /\ WideValue(at) \in Values
         /\ Caught(at) \in Values /\ Unknown \in Values
BY DEF Value, WideValue, Caught, Unknown, Values

\* What an execution pushes that is new.
NewValue(op, at) == IF op \in PushWide THEN WideValue(at) ELSE Value(at)

\* What is popped and what is left.
LEMMA TopAndRest ==
  ASSUME NEW s \in Seq(Values), NEW n \in Nat, n <= Len(s)
  PROVE  /\ Top(s, n) \in Seq(Values) /\ Len(Top(s, n)) = n
         /\ \A i \in 1 .. n : Top(s, n)[i] = s[Len(s) - n + i]
         /\ Rest(s, n) \in Seq(Values) /\ Len(Rest(s, n)) = Len(s) - n
         /\ \A i \in 1 .. Len(s) - n : Rest(s, n)[i] = s[i]
BY DEF Top, Rest

\* What is popped when values may be missing.
LEMMA PopIs ==
  ASSUME NEW s \in Seq(Values), NEW n \in Nat
  PROVE  /\ Pop(s, n) \in Seq(Values) /\ Len(Pop(s, n)) = n
         /\ n <= Len(s) => Pop(s, n) = Top(s, n)
<1>1. PICK u : u = [i \in 1 .. n |-> Unknown]
  OBVIOUS
<1>2. u \in Seq(Values) /\ Len(u) = n
  <2>1. Unknown \in Values
    BY ValuesAre
  <2> QED BY <1>1, <2>1
<1>3. PICK t : t = u \o s
  OBVIOUS
<1>4. t \in Seq(Values) /\ Len(t) = n + Len(s) /\ Len(s) \in Nat
  <2>1. u \o s \in Seq(Values)
    BY <1>2, ConcatProperties
  <2>2. Len(u \o s) = Len(u) + Len(s)
    BY <1>2
  <2>3. Len(s) \in Nat
    BY LenProperties
  <2> QED BY <1>2, <1>3, <2>1, <2>2, <2>3
<1>5. Pop(s, n) = Top(t, n)
  BY <1>1, <1>3 DEF Pop
<1>6. /\ Top(t, n) \in Seq(Values) /\ Len(Top(t, n)) = n
      /\ \A i \in 1 .. n : Top(t, n)[i] = t[Len(t) - n + i]
  <2>1. n <= Len(t)
    BY <1>4
  <2> QED BY <1>4, <2>1, TopAndRest
<1>7. ASSUME n <= Len(s) PROVE Top(t, n) = Top(s, n)
  <2>1. /\ Top(s, n) \in Seq(Values) /\ Len(Top(s, n)) = n
        /\ \A i \in 1 .. n : Top(s, n)[i] = s[Len(s) - n + i]
    BY <1>7, TopAndRest
  <2>2. ASSUME NEW i \in 1 .. n PROVE Top(t, n)[i] = Top(s, n)[i]
    <3>1. Len(t) - n + i = Len(s) + i /\ Len(s) + i > n /\ Len(s) + i <= Len(t)
      BY <1>4, <1>7
    <3>2. t[Len(s) + i] = s[Len(s) + i - n]
      BY <1>2, <1>3, <1>4, <1>7, <3>1
    <3>3. Len(s) + i - n = Len(s) - n + i
      BY <1>4
    <3> QED BY <1>6, <2>1, <3>1, <3>2, <3>3
  <2> QED BY <1>6, <2>1, <2>2
<1> QED BY <1>5, <1>6, <1>7

\* What is pushed.
LEMMA PushedIs ==
  ASSUME NEW op, NEW v \in Values, NEW out \in Nat, NEW popped \in Seq(Values),
         op = "dup" => Len(popped) = 1, op = "swap" => Len(popped) = 2
  PROVE  Pushed(op, v, out, popped) \in Seq(Values)
<1>1. CASE op = "dup"
  <2>1. Pushed(op, v, out, popped) = <<popped[1], popped[1]>>
    BY <1>1 DEF Pushed
  <2>2. popped[1] \in Values
    BY <1>1
  <2> QED BY <2>1, <2>2
<1>2. CASE op = "swap"
  <2>1. Pushed(op, v, out, popped) = <<popped[2], popped[1]>>
    BY <1>2 DEF Pushed
  <2>2. 1 \in 1 .. Len(popped) /\ 2 \in 1 .. Len(popped)
    <3>1. Len(popped) = 2
      BY <1>2
    <3> QED BY <3>1
  <2>3. popped[1] \in Values /\ popped[2] \in Values
    BY <2>2, ElementOfSeq
  <2> QED BY <2>1, <2>3
<1>3. CASE op \notin {"dup", "swap"}
  <2>1. Pushed(op, v, out, popped) = [i \in 1 .. out |-> v]
    BY <1>3 DEF Pushed
  <2> QED BY <2>1
<1> QED BY <1>1, <1>2, <1>3

\* How many values an operation pops.
LEMMA PopCountIs ==
  ASSUME NEW op, NEW in \in Nat, NEW s \in Seq(Values)
  PROVE  /\ PopCount(op, in, s) \in Nat
         /\ op # "pop2" => PopCount(op, in, s) = in
BY DEF PopCount

\* What an operation that takes n values leaves.
Leaves(op, out, at, s, n) ==
  Rest(s, n) \o Pushed(op, NewValue(op, at), out, Top(s, n))

\* What is left after an operation that the machine can execute.
LEMMA AfterIs ==
  ASSUME NEW op, NEW in \in Nat, NEW out \in Nat, NEW at \in Nat, NEW s \in Seq(Values),
         in = Effect(op)[1], out = Effect(op)[2], op # "dup_x1", Executable(op, s),
         NEW n, n = PopCount(op, in, s)
  PROVE  /\ n \in Nat /\ n <= Len(s) /\ Operands(op, s) = Top(s, n)
         /\ After(op, s, at) = Leaves(op, out, at, s, n)
<1>1. n \in Nat
  BY PopCountIs
<1>2. n <= Len(s)
  BY DEF Executable
<1>3. Operands(op, s) = Top(s, n)
  BY DEF Operands
<1>4. Len(Top(s, n)) = n
  BY <1>1, <1>2, TopAndRest
<1>5. Results(op, s, at) = Pushed(op, NewValue(op, at), out, Top(s, n))
  BY <1>3 DEF Results, NewValue
<1> QED BY <1>1, <1>2, <1>3, <1>4, <1>5 DEF After, Leaves

----------------------------------------------------------------------------
(* Lowering, one instruction after the other.                              *)

\* A lowering before instruction i of a method.
LoweredTo(m, b, i) ==
  /\ b.at = m.at[i] /\ b.stack \in Seq(Values) /\ b.locals \in Declarations
  /\ b.lost = FALSE /\ b.unsupported \in BOOLEAN
  /\ DOMAIN b.used = {m.at[j] : j \in 1 .. i - 1}

\* An instruction is lowered: it is the one that was decoded, and what it takes
\* and leaves is what the machine takes and leaves.
LEMMA LowersOne ==
  ASSUME NEW m, NEW n, DecodedAs(m, n), m.code \in Seq(Instructions), NEW i \in 1 .. n,
         NEW b, LoweredTo(m, b, i), NEW r, r = LowerInstruction(m, b),
         NEW s, s = SeedHandler(m, b.stack, m.at[i]), NEW c, c = m.code[i], NEW op, op = c.op
  PROVE  /\ LoweredTo(m, r, i + 1)
         /\ \A x \in DOMAIN b.used : x # m.at[i] => r.used[x] = b.used[x]
         /\ b.unsupported => r.unsupported
         /\ s \in Seq(Values) /\ op \in Operations
         /\ ~r.unsupported => ~Lowering(op, m.at[i]).unsupported
         /\ r.untyped = b.untyped \cup Untyped(c, b)
         /\ ~r.unsupported /\ Executable(op, s) =>
              /\ r.used[m.at[i]] = Operands(op, s)
              /\ r.locals = InferLocal(c, b, Operands(op, s))
              /\ (LoadsWide(c, b) <=> op \in PushWide) => r.stack = After(op, s, m.at[i])
<1>1. /\ n \in Nat \ {0} /\ DOMAIN m.code = 1 .. n
      /\ m.at[i + 1] = m.at[i] + DecodeWidth(op, m.at[i])
      /\ InstructionAt(m, m.at[i]) = i /\ m.at[i] \in Offsets(m) /\ m.at[i] \in Nat
  BY InstructionIs DEF DecodedAs
<1>2. /\ b.at = m.at[i] /\ b.stack \in Seq(Values) /\ b.lost = FALSE /\ b.unsupported \in BOOLEAN
      /\ DOMAIN b.used = {m.at[j] : j \in 1 .. i - 1}
  BY DEF LoweredTo
<1>3. /\ op \in Operations /\ (op \in LocalOps => c.local \in Locals)
      /\ b.locals \in Declarations
  <2>1. i \in 1 .. Len(m.code)
    BY DEF DecodedAs
  <2>2. m.code[i] \in Instructions
    BY <2>1, ElementOfSeq
  <2> QED BY <2>2 DEF Instructions, LoweredTo
<1>4. PICK how : how = Lowering(op, m.at[i])
  OBVIOUS
<1>5. Fits(how, op, m.at[i])
  BY <1>1, <1>3, <1>4, LoweringFits
<1>6. s \in Seq(Values)
  <2>1. Caught(m.at[i]) \in Values
    BY <1>1, ValuesAre
  <2>2. <<Caught(m.at[i])>> \in Seq(Values)
    BY <2>1
  <2> QED BY <1>2, <2>2 DEF SeedHandler
<1>7. PICK k : k = PopCount(op, how.in, s)
  OBVIOUS
<1>8. how.in \in Nat /\ how.out \in Nat
  BY <1>5 DEF Fits
<1>9. k \in Nat /\ (op # "pop2" => k = how.in)
  BY <1>6, <1>7, <1>8, PopCountIs
<1>10. PICK popped : popped = Pop(s, k)
  OBVIOUS
<1>11. popped \in Seq(Values) /\ Len(popped) = k /\ (k <= Len(s) => popped = Top(s, k))
  BY <1>6, <1>9, <1>10, PopIs
<1>12. PICK v, rest, locals, untyped :
         /\ v = LoadedValue(c, b)
         /\ rest = Rest(s, k) \o Pushed(op, v, how.out, popped)
         /\ locals = InferLocal(c, b, popped)
         /\ untyped = b.untyped \cup Untyped(c, b)
  OBVIOUS
<1>13. PICK kept : kept =
         CASE op = "swap" /\ Len(s) < 2 -> s
           [] op = "dup" /\ s = <<>> -> <<Unknown>>
           [] OTHER -> rest
  OBVIOUS
<1>14. r = [at |-> m.at[i] + how.width, stack |-> kept, locals |-> locals,
            untyped |-> untyped,
            used |-> [x \in DOMAIN b.used \cup {m.at[i]} |->
                        IF x = m.at[i] THEN popped ELSE b.used[x]],
            unsupported |-> b.unsupported \/ how.unsupported, lost |-> b.lost]
  <2>1. PICK at : at = m.at[i]
    OBVIOUS
  <2>2. at \in Offsets(m) /\ m.code[InstructionAt(m, at)] = c
    BY <1>1, <2>1
  <2>3. b.at = at /\ how = Lowering(op, at) /\ s = SeedHandler(m, b.stack, at)
    BY <1>2, <1>4, <2>1
  <2>4. r = LowerInstruction(m, b)
    OBVIOUS
  <2>5. r = [at |-> at + how.width, stack |-> kept, locals |-> locals,
             untyped |-> untyped,
             used |-> [x \in DOMAIN b.used \cup {at} |->
                         IF x = at THEN popped ELSE b.used[x]],
             unsupported |-> b.unsupported \/ how.unsupported, lost |-> b.lost]
    BY <1>7, <1>10, <1>12, <1>13, <2>1, <2>2, <2>3, <2>4 DEF LowerInstruction
  <2> QED BY <2>1, <2>5
<1>15. op = "swap" \/ op = "dup" => k = how.in
  BY <1>9
<1>16. (op = "dup" => k = 1) /\ (op = "swap" => k = 2)
  BY <1>5, <1>15 DEF Fits
<1>17. Pushed(op, v, how.out, popped) \in Seq(Values)
  <2>1. v \in Values
    BY <1>1, <1>2, <1>12, ValuesAre DEF LoadedValue
  <2> QED BY <1>8, <1>11, <1>16, <2>1, PushedIs
<1>18. Rest(s, k) \in Seq(Values)
  BY <1>6, <1>9 DEF Rest
<1>19. rest \in Seq(Values)
  BY <1>12, <1>17, <1>18, ConcatProperties
<1>20. kept \in Seq(Values)
  <2>1. Unknown \in Values
    BY <1>1, ValuesAre
  <2>2. <<Unknown>> \in Seq(Values)
    BY <2>1
  <2> QED BY <1>6, <1>13, <1>19, <2>2
<1>21. how.width = DecodeWidth(op, m.at[i]) /\ how.unsupported \in BOOLEAN
  BY <1>5 DEF Fits
<1>22. DOMAIN r.used = {m.at[j] : j \in 1 .. (i + 1) - 1}
  <2>1. DOMAIN r.used = DOMAIN b.used \cup {m.at[i]}
    BY <1>14
  <2>2. 1 .. (i + 1) - 1 = 1 .. i - 1 \cup {i}
    BY <1>1
  <2> QED BY <1>2, <2>1, <2>2
<1>23. LoweredTo(m, r, i + 1)
  <2>1. locals \in Declarations
    <3>1. CASE op \in Stores \cup Increments /\ b.locals[c.local] = "unknown"
      <4>1. PICK t : t = IF op \in Increments THEN "narrow" ELSE TypeOf(popped[1], b.untyped)
        OBVIOUS
      <4>2. t \in Types
        BY <4>1 DEF TypeOf, Types
      <4>3. locals = [b.locals EXCEPT ![c.local] = t]
        BY <1>12, <3>1, <4>1 DEF InferLocal
      <4> QED BY <1>3, <4>2, <4>3 DEF Declarations
    <3>2. CASE ~(op \in Stores \cup Increments /\ b.locals[c.local] = "unknown")
      BY <1>3, <1>12, <3>2 DEF InferLocal
    <3> QED BY <3>1, <3>2
  <2>2. r.locals = locals
    BY <1>14
  <2> QED BY <1>1, <1>2, <1>14, <1>20, <1>21, <1>22, <2>1, <2>2 DEF LoweredTo
<1>24. /\ r.unsupported <=> b.unsupported \/ how.unsupported
       /\ r.stack = kept /\ r.used[m.at[i]] = popped
       /\ r.locals = locals /\ r.untyped = untyped
       /\ \A x \in DOMAIN b.used : x # m.at[i] => r.used[x] = b.used[x]
  <2>1. r.used = [x \in DOMAIN b.used \cup {m.at[i]} |-> IF x = m.at[i] THEN popped ELSE b.used[x]]
    BY <1>14
  <2>2. r.unsupported = (b.unsupported \/ how.unsupported)
    BY <1>14
  <2>3. r.stack = kept /\ r.locals = locals /\ r.untyped = untyped
    BY <1>14
  <2> QED BY <2>1, <2>2, <2>3
<1>25. ASSUME ~r.unsupported, Executable(op, s)
       PROVE  /\ r.used[m.at[i]] = Operands(op, s)
              /\ r.locals = InferLocal(c, b, Operands(op, s))
              /\ (LoadsWide(c, b) <=> op \in PushWide) => r.stack = After(op, s, m.at[i])
  <2>1. ~how.unsupported
    BY <1>24, <1>25
  <2>2. how.in = Effect(op)[1] /\ how.out = Effect(op)[2] /\ op # "dup_x1"
    BY <1>5, <2>1 DEF Fits
  <2>3. /\ k <= Len(s) /\ Operands(op, s) = Top(s, k)
        /\ After(op, s, m.at[i]) = Leaves(op, how.out, m.at[i], s, k)
    <3>1. PICK in, out, at, o, z :
            in = how.in /\ out = how.out /\ at = m.at[i] /\ o = op /\ z = s
      OBVIOUS
    <3>2. /\ in \in Nat /\ out \in Nat /\ at \in Nat
          /\ in = Effect(o)[1] /\ out = Effect(o)[2] /\ o # "dup_x1"
      BY <1>1, <1>8, <2>2, <3>1
    <3>3. z \in Seq(Values) /\ Executable(o, z) /\ k = PopCount(o, in, z)
      BY <1>6, <1>7, <1>25, <3>1
    <3>4. /\ k <= Len(z) /\ Operands(o, z) = Top(z, k)
          /\ After(o, z, at) = Leaves(o, out, at, z, k)
      BY <3>2, <3>3, AfterIs
    <3> QED BY <3>1, <3>4
  <2>4. popped = Top(s, k)
    BY <1>11, <2>3
  <2>5. (LoadsWide(c, b) <=> op \in PushWide) => rest = After(op, s, m.at[i])
    <3>1. SUFFICES ASSUME LoadsWide(c, b) <=> op \in PushWide PROVE rest = After(op, s, m.at[i])
      OBVIOUS
    <3>2. v = NewValue(op, m.at[i])
      BY <1>2, <1>12, <3>1 DEF NewValue, LoadedValue
    <3> QED BY <1>12, <2>3, <2>4, <3>2 DEF Leaves
  <2>6. Len(s) \in Nat
    BY <1>6
  <2>7. ~(op = "swap" /\ Len(s) < 2) /\ ~(op = "dup" /\ s = <<>>)
    BY <1>16, <2>3, <2>6
  <2>8. kept = rest
    BY <1>13, <2>7
  <2> QED BY <1>12, <1>24, <2>3, <2>4, <2>5, <2>8
<1>26. ~r.unsupported => ~Lowering(op, m.at[i]).unsupported
  BY <1>4, <1>24
<1>27. b.unsupported => r.unsupported
  BY <1>24
<1> QED BY <1>3, <1>6, <1>12, <1>23, <1>24, <1>25, <1>26, <1>27

----------------------------------------------------------------------------
(* The lowering of the whole method.                                       *)

LoweredStart(m) ==
  [at |-> 0, stack |-> <<>>, locals |-> m.declared, untyped |-> {Unknown}, used |-> <<>>,
   unsupported |-> FALSE, lost |-> FALSE]

\* The lowerings before and after each of the first n instructions.
LoweredBy(f, m, n) ==
  f = [i \in 0 .. n |-> IF i = 0 THEN LoweredStart(m) ELSE LowerInstruction(m, f[i - 1])]

\* A method can be lowered.
LEMMA LoweringsExist ==
  ASSUME NEW m, NEW n \in Nat
  PROVE  \E f : LoweredBy(f, m, n)
<1> DEFINE T == {k \in Nat : \E f : LoweredBy(f, m, k)}
<1>1. 0 \in T
  <2>1. PICK f : f = [i \in 0 .. 0 |-> LoweredStart(m)]
    OBVIOUS
  <2>2. LoweredBy(f, m, 0)
    BY <2>1 DEF LoweredBy
  <2> QED BY <2>2
<1>2. ASSUME NEW k \in Nat, k \in T PROVE k + 1 \in T
  <2>1. PICK f : LoweredBy(f, m, k)
    BY <1>2
  <2>2. PICK last : last = LowerInstruction(m, f[k])
    OBVIOUS
  <2>3. PICK g : g = [i \in 0 .. k + 1 |-> IF i = k + 1 THEN last ELSE f[i]]
    OBVIOUS
  <2>4. ASSUME NEW i \in 0 .. k + 1
        PROVE  g[i] = IF i = 0 THEN LoweredStart(m) ELSE LowerInstruction(m, g[i - 1])
    <3>1. CASE i = k + 1
      <4>1. g[i] = last /\ g[i - 1] = f[k] /\ i # 0
        BY <2>3, <3>1
      <4> QED BY <2>2, <4>1
    <3>2. CASE i # k + 1
      <4>1. i \in 0 .. k /\ g[i] = f[i] /\ (i # 0 => g[i - 1] = f[i - 1])
        BY <2>3, <3>2
      <4>2. f[i] = IF i = 0 THEN LoweredStart(m) ELSE LowerInstruction(m, f[i - 1])
        BY <2>1, <4>1 DEF LoweredBy
      <4> QED BY <4>1, <4>2
    <3> QED BY <3>1, <3>2
  <2>5. LoweredBy(g, m, k + 1)
    BY <2>3, <2>4 DEF LoweredBy
  <2> QED BY <2>5
<1> HIDE DEF T
<1>3. n \in T
  BY <1>1, <1>2, AllNumbers
<1> QED BY <1>3 DEF T

\* The report's IR is what is left after the last instruction.
LEMMA IrIs ==
  ASSUME NEW m, NEW n, DecodedAs(m, n)
  PROVE  \E f : LoweredBy(f, m, n) /\ BuildIr(m) = f[n]
<1>1. n \in Nat /\ Len(m.code) = n
  BY DEF DecodedAs
<1> DEFINE Body(f) ==
      [i \in 0 .. n |-> IF i = 0 THEN [at |-> 0, stack |-> <<>>, locals |-> m.declared,
                                       untyped |-> {Unknown}, used |-> <<>>,
                                       unsupported |-> FALSE, lost |-> FALSE]
                        ELSE LowerInstruction(m, f[i - 1])]
<1>2. \E f : f = Body(f)
  <2>1. PICK f : LoweredBy(f, m, n)
    BY <1>1, LoweringsExist
  <2>2. f = Body(f)
    BY <2>1 DEF LoweredBy, LoweredStart
  <2> HIDE DEF Body
  <2> QED BY <2>2
<1>3. PICK f : f = CHOOSE x : x = Body(x)
  OBVIOUS
<1>4. f = Body(f)
  BY <1>2, <1>3
<1>5. BuildIr(m) = f[n]
  BY <1>1, <1>3 DEF BuildIr
<1>6. LoweredBy(f, m, n)
  BY <1>4 DEF LoweredBy, LoweredStart
<1> QED BY <1>5, <1>6

\* Lowering visits the instructions that were decoded, keeps the operands that
\* it has found, and remembers what it does not support.
LEMMA LoweringVisits ==
  ASSUME NEW m, NEW n, DecodedAs(m, n), m.code \in Seq(Instructions),
         m.declared \in Declarations, NEW f, LoweredBy(f, m, n)
  PROVE  /\ f[0] = LoweredStart(m)
         /\ \A i \in 1 .. n : f[i] = LowerInstruction(m, f[i - 1])
         /\ \A i \in 0 .. n : LoweredTo(m, f[i], i + 1)
         /\ \A i \in 1 .. n : f[i].unsupported => f[n].unsupported
         /\ \A i \in 1 .. n : f[n].used[m.at[i]] = f[i].used[m.at[i]]
<1>1. n \in Nat /\ m.at[1] = 0 /\ m.at \in [1 .. n + 1 -> Nat]
      /\ \A j, k \in 1 .. n + 1 : j < k => m.at[j] < m.at[k]
  BY DEF DecodedAs
<1>2. f[0] = LoweredStart(m) /\ \A i \in 1 .. n : f[i] = LowerInstruction(m, f[i - 1])
  <2>1. \A i \in 0 .. n : f[i] = IF i = 0 THEN LoweredStart(m) ELSE LowerInstruction(m, f[i - 1])
    BY DEF LoweredBy
  <2> QED BY <1>1, <2>1
<1> DEFINE T == {k \in Nat : k <= n => LoweredTo(m, f[k], k + 1)}
<1>3. 0 \in T
  <2>1. LoweredTo(m, LoweredStart(m), 0 + 1)
    <3>1. DOMAIN <<>> = {m.at[j] : j \in 1 .. (0 + 1) - 1}
      OBVIOUS
    <3>2. <<>> \in Seq(Values)
      OBVIOUS
    <3> QED BY <1>1, <3>1, <3>2 DEF LoweredTo, LoweredStart
  <2> QED BY <1>2, <2>1
<1>4. ASSUME NEW k \in Nat, k \in T, k + 1 <= n PROVE LoweredTo(m, f[k + 1], (k + 1) + 1)
  <2>1. k + 1 \in 1 .. n /\ (k + 1) - 1 = k /\ LoweredTo(m, f[k], k + 1)
    BY <1>1, <1>4
  <2>2. f[k + 1] = LowerInstruction(m, f[k])
    BY <1>2, <2>1
  <2> QED BY <2>1, <2>2, LowersOne
<1>5. ASSUME NEW k \in Nat, k \in T PROVE k + 1 \in T
  BY <1>4, <1>5
<1> HIDE DEF T
<1>6. \A k \in Nat : k \in T
  BY <1>3, <1>5, AllNumbers
<1>7. ASSUME NEW i \in 0 .. n PROVE LoweredTo(m, f[i], i + 1)
  BY <1>1, <1>6 DEF T
<1>8. ASSUME NEW i \in 1 .. n
      PROVE  /\ f[i].unsupported => f[n].unsupported
             /\ f[n].used[m.at[i]] = f[i].used[m.at[i]]
  <2> DEFINE U == {k \in Nat : i + k <= n => /\ f[i].unsupported => f[i + k].unsupported
                                             /\ f[i + k].used[m.at[i]] = f[i].used[m.at[i]]}
  <2>1. 0 \in U
    <3>1. i + 0 = i
      BY <1>1
    <3> QED BY <3>1
  <2>2. ASSUME NEW k \in Nat, k \in U, i + (k + 1) <= n
        PROVE  /\ f[i].unsupported => f[i + (k + 1)].unsupported
               /\ f[i + (k + 1)].used[m.at[i]] = f[i].used[m.at[i]]
    <3>1. PICK j, q : j = i + k /\ q = i + (k + 1)
      OBVIOUS
    <3>2. q \in 1 .. n /\ j \in 0 .. n /\ q = j + 1 /\ i <= j /\ i < q /\ i \in Nat /\ j \in Nat
          /\ q - 1 = j
      <4>1. i \in 1 .. n /\ n \in Nat /\ k \in Nat /\ i + (k + 1) <= n
        BY <1>1, <1>8, <2>2
      <4> HIDE DEF U
      <4> QED BY <3>1, <4>1
    <3>3. LoweredTo(m, f[j], q) /\ f[q] = LowerInstruction(m, f[j])
      BY <1>2, <1>7, <3>2
    <3>4. /\ \A x \in DOMAIN f[j].used : x # m.at[q] => f[q].used[x] = f[j].used[x]
          /\ f[j].unsupported => f[q].unsupported
      BY <3>2, <3>3, LowersOne
    <3>5. m.at[i] # m.at[q]
      <4>1. i \in 1 .. n + 1 /\ q \in 1 .. n + 1
        BY <1>1, <3>2
      <4>2. m.at[i] < m.at[q] /\ m.at[i] \in Nat /\ m.at[q] \in Nat
        BY <1>1, <3>2, <4>1
      <4> QED BY <4>2
    <3>6. m.at[i] \in DOMAIN f[j].used
      <4>1. DOMAIN f[j].used = {m.at[z] : z \in 1 .. q - 1}
        BY <3>3 DEF LoweredTo
      <4>2. i \in 1 .. q - 1
        BY <3>2
      <4> QED BY <4>1, <4>2
    <3>7. /\ f[i].unsupported => f[j].unsupported
          /\ f[j].used[m.at[i]] = f[i].used[m.at[i]]
      BY <1>1, <2>2, <3>1, <3>2
    <3> QED BY <3>1, <3>4, <3>5, <3>6, <3>7
  <2>3. ASSUME NEW k \in Nat, k \in U PROVE k + 1 \in U
    BY <2>2, <2>3
  <2> HIDE DEF U
  <2>4. n - i \in U
    <3>1. \A k \in Nat : k \in U
      BY <2>1, <2>3, AllNumbers
    <3> QED BY <1>1, <3>1
  <2>5. i + (n - i) = n
    BY <1>1
  <2> QED BY <1>1, <2>4, <2>5 DEF U
<1> QED BY <1>2, <1>7, <1>8

----------------------------------------------------------------------------
(* The stacks of a block.                                                  *)

Inside(m, b) == {i \in DOMAIN m.code : b <= m.at[i] /\ m.at[i] < BlockEnd(m, b)}
HandlerStarts(m) == {m.at[h.at] : h \in m.handlers}
Entering(m, b) == IF b \in HandlerStarts(m) THEN <<Caught(b)>> ELSE <<>>

\* The stacks before each of the instructions from first to last, and after it.
StacksOf(S, m, b, first, last) ==
  S = [i \in first .. last + 1 |->
         IF i = first THEN Entering(m, b)
         ELSE IF S[i - 1] # Stuck /\ Executable(m.code[i - 1].op, S[i - 1])
           THEN After(m.code[i - 1].op, S[i - 1], m.at[i - 1])
           ELSE Stuck]

\* The stacks of the block b, and the one before instruction i.
Stacks(m, b) ==
  CHOOSE S : StacksOf(S, m, b, InstructionAt(m, b), Max(Inside(m, b)))
Expected(m, i) == Stacks(m, BlockOf(m, m.at[i]))[i]

\* They exist.
LEMMA StacksExist ==
  ASSUME NEW m, NEW b, NEW first \in Nat, NEW last \in Nat, first <= last
  PROVE  \E S : StacksOf(S, m, b, first, last)
<1> DEFINE T == {k \in Nat : k # 0 => \E S : StacksOf(S, m, b, first, first + (k - 1))}
<1>1. 0 \in T
  OBVIOUS
<1> DEFINE Next_(i, s) ==
      IF s # Stuck /\ Executable(m.code[i].op, s) THEN After(m.code[i].op, s, m.at[i]) ELSE Stuck
<1> HIDE DEF Next_
<1>2. \A S, l : StacksOf(S, m, b, first, l) <=>
        S = [i \in first .. l + 1 |->
               IF i = first THEN Entering(m, b) ELSE Next_(i - 1, S[i - 1])]
  BY DEF StacksOf, Next_
<1>3. \E S : StacksOf(S, m, b, first, first)
  <2>1. PICK S : S = [i \in first .. first + 1 |->
                        IF i = first THEN Entering(m, b) ELSE Next_(first, Entering(m, b))]
    OBVIOUS
  <2>2. ASSUME NEW i \in first .. first + 1
        PROVE  S[i] = IF i = first THEN Entering(m, b) ELSE Next_(i - 1, S[i - 1])
    <3>1. CASE i = first
      BY <2>1, <3>1
    <3>2. CASE i # first
      <4>1. i - 1 = first /\ i = first + 1
        BY <3>2
      <4>2. S[i - 1] = Entering(m, b) /\ S[i] = Next_(first, Entering(m, b))
        BY <2>1, <3>2, <4>1
      <4> QED BY <3>2, <4>1, <4>2
    <3> QED BY <3>1, <3>2
  <2>3. StacksOf(S, m, b, first, first)
    BY <1>2, <2>1, <2>2
  <2> QED BY <2>3
<1>4. ASSUME NEW k \in Nat, k \in T PROVE k + 1 \in T
  <2>1. CASE k = 0
    <3>1. first + ((k + 1) - 1) = first
      BY <2>1
    <3> QED BY <1>3, <3>1
  <2>2. CASE k # 0
    <3>1. PICK l : l = first + (k - 1)
      OBVIOUS
    <3>2. l \in Nat /\ first <= l /\ first + ((k + 1) - 1) = l + 1
      BY <2>2, <3>1
    <3>3. PICK S : StacksOf(S, m, b, first, l)
      BY <1>4, <2>2, <3>1
    <3>4. PICK top : top = Next_(l + 1, S[l + 1])
      OBVIOUS
    <3>5. PICK G : G = [i \in first .. (l + 1) + 1 |-> IF i = l + 2 THEN top ELSE S[i]]
      OBVIOUS
    <3>6. ASSUME NEW i \in first .. (l + 1) + 1
          PROVE  G[i] = IF i = first THEN Entering(m, b) ELSE Next_(i - 1, G[i - 1])
      <4>1. CASE i = l + 2
        <5>1. G[i] = top /\ i - 1 = l + 1 /\ i # first
          BY <3>2, <3>5, <4>1
        <5>2. G[l + 1] = S[l + 1]
          BY <3>2, <3>5
        <5> QED BY <3>4, <5>1, <5>2
      <4>2. CASE i # l + 2
        <5>1. i \in first .. l + 1 /\ G[i] = S[i] /\ (i # first => G[i - 1] = S[i - 1])
          BY <3>2, <3>5, <4>2
        <5>2. S[i] = IF i = first THEN Entering(m, b) ELSE Next_(i - 1, S[i - 1])
          BY <1>2, <3>3, <5>1
        <5> QED BY <5>1, <5>2
      <4> QED BY <4>1, <4>2
    <3>7. StacksOf(G, m, b, first, l + 1)
      <4>1. G = [i \in first .. (l + 1) + 1 |->
                   IF i = first THEN Entering(m, b) ELSE Next_(i - 1, G[i - 1])]
        <5>1. G = [i \in first .. (l + 1) + 1 |-> G[i]]
          BY <3>5
        <5> QED BY <3>6, <5>1
      <4> QED BY <1>2, <4>1
    <3> QED BY <3>2, <3>7
  <2> QED BY <2>1, <2>2
<1> HIDE DEF T
<1>5. (last - first) + 1 \in T
  <2>1. \A k \in Nat : k \in T
    BY <1>1, <1>4, AllNumbers
  <2> QED BY <2>1
<1>6. (last - first) + 1 # 0 /\ first + (((last - first) + 1) - 1) = last
  OBVIOUS
<1> QED BY <1>5, <1>6 DEF T

\* A block is the instructions from its leader to the last one before the next.
LEMMA BlockSpan ==
  ASSUME NEW m, NEW n, Analysed(m, n), NEW b \in m.leaders,
         NEW first, first = InstructionAt(m, b), NEW last, last = Max(Inside(m, b))
  PROVE  /\ first \in 1 .. n /\ last \in 1 .. n /\ first <= last /\ m.at[first] = b
         /\ last = n \/ m.at[last + 1] \in m.leaders
         /\ \A i \in 1 .. n : BlockOf(m, m.at[i]) = b <=> first <= i /\ i <= last
         /\ \A i \in 1 .. n : first < i /\ i <= last => m.at[i] \notin m.leaders
<1>1. /\ n \in Nat \ {0} /\ m.at \in [1 .. n + 1 -> Nat] /\ DOMAIN m.code = 1 .. n
      /\ m.length = m.at[n + 1] /\ DecodedAs(m, n)
      /\ \A j, k \in 1 .. n + 1 : j < k => m.at[j] < m.at[k]
  BY DEF Analysed, DecodedAs
<1>2. /\ m.leaders \subseteq Offsets(m) /\ Offsets(m) = {m.at[i] : i \in 1 .. n}
  BY LeadersAreOffsets
<1>3. PICK z \in 1 .. n : b = m.at[z]
  BY <1>2
<1>4. first = z
  BY <1>1, <1>3, InstructionIs
<1>5. first \in 1 .. n /\ m.at[first] = b
  BY <1>3, <1>4
<1>6. ASSUME NEW i \in 1 .. n PROVE m.at[i] \in Nat
  BY <1>1
<1>7. BlockOf(m, m.at[first]) = b
  <2>1. PICK c : c = BlockOf(m, m.at[first])
    OBVIOUS
  <2>2. c \in Nat /\ c <= m.at[first] /\ \A l \in m.leaders : l <= m.at[first] => l <= c
    BY <1>5, <2>1, BlockFacts
  <2>3. m.at[first] \in Nat /\ b \in Nat
    BY <1>5, <1>6
  <2>4. b <= c
    BY <1>5, <2>2, <2>3
  <2> QED BY <1>5, <2>1, <2>2, <2>3, <2>4
<1>8. PICK end : end = BlockEnd(m, b)
  OBVIOUS
<1>9. /\ end \in m.leaders \cup {m.length} /\ end \in Nat /\ b < end /\ b \in Nat
      /\ \A l \in m.leaders : l > b => end <= l
  BY <1>5, <1>7, <1>8, BlockFacts
<1>10. PICK e \in 1 .. n + 1 : end = m.at[e]
  <2>1. CASE end = m.length
    BY <1>1, <2>1
  <2>2. CASE end \in m.leaders
    BY <1>1, <1>2, <2>2
  <2> QED BY <1>9, <2>1, <2>2
<1>11. \A j, k \in 1 .. n + 1 : m.at[j] < m.at[k] <=> j < k
  BY <1>1, InOrder
<1>12. first \in 1 .. n + 1 /\ e \in 1 .. n + 1 /\ first < e
  <2>1. first \in 1 .. n + 1
    BY <1>1, <1>5
  <2> QED BY <1>5, <1>9, <1>10, <1>11, <2>1
<1>13. ASSUME NEW i \in 1 .. n
       PROVE  b <= m.at[i] /\ m.at[i] < end <=> first <= i /\ i < e
  <2>1. i \in 1 .. n + 1 /\ m.at[i] \in Nat /\ m.at[first] \in Nat /\ i \in Nat /\ first \in Nat
    BY <1>1, <1>5, <1>6
  <2>2. m.at[i] < end <=> i < e
    BY <1>10, <1>11, <2>1
  <2>3. m.at[i] < m.at[first] <=> i < first
    BY <1>11, <1>12, <2>1
  <2> QED BY <1>5, <2>1, <2>2, <2>3
<1>14. Inside(m, b) = {i \in 1 .. n : first <= i /\ i < e}
  BY <1>1, <1>8, <1>13 DEF Inside
<1>15. last = e - 1
  <2>1. PICK I : I = Inside(m, b)
    OBVIOUS
  <2>2. I \in SUBSET (0 .. n) /\ e - 1 \in I /\ \A i \in I : i \in Nat /\ i <= e - 1
    BY <1>1, <1>5, <1>12, <1>14, <2>1
  <2>3. last \in I /\ \A y \in I : y <= last
    BY <1>1, <2>1, <2>2, LowestAndHighest
  <2>4. e - 1 <= last /\ last <= e - 1 /\ last \in Nat
    BY <2>2, <2>3
  <2> QED BY <1>1, <2>4
<1>16. last \in 1 .. n /\ first <= last /\ last + 1 = e
  BY <1>1, <1>5, <1>12, <1>15
<1>17. last = n \/ m.at[last + 1] \in m.leaders
  <2>1. CASE end \in m.leaders
    BY <1>10, <1>16, <2>1
  <2>2. CASE end = m.length
    <3>1. ~(m.at[e] < m.at[n + 1]) /\ n + 1 \in 1 .. n + 1
      BY <1>1, <1>9, <1>10, <2>2
    <3>2. ~(e < n + 1)
      BY <1>11, <1>12, <3>1
    <3> QED BY <1>1, <1>12, <1>16, <3>2
  <2> QED BY <1>9, <2>1, <2>2
<1>18. ASSUME NEW i \in 1 .. n
       PROVE  BlockOf(m, m.at[i]) = b <=> first <= i /\ i <= last
  <2>1. PICK c : c = BlockOf(m, m.at[i])
    OBVIOUS
  <2>2. /\ c \in m.leaders /\ c \in Nat /\ c <= m.at[i] /\ m.at[i] < BlockEnd(m, c)
        /\ \A l \in m.leaders : l <= m.at[i] => l <= c
    BY <2>1, BlockFacts
  <2>3. m.at[i] \in Nat
    BY <1>6
  <2>4. b <= m.at[i] /\ m.at[i] < end => c = b
    <3>1. ASSUME b <= m.at[i], m.at[i] < end PROVE c = b
      <4>1. b <= c
        BY <2>2, <3>1
      <4>2. ~(c > b)
        BY <1>9, <2>2, <2>3, <3>1
      <4> QED BY <1>9, <2>2, <4>1, <4>2
    <3> QED BY <3>1
  <2>5. c = b => b <= m.at[i] /\ m.at[i] < end
    BY <1>8, <2>2
  <2>6. first <= i /\ i < e <=> first <= i /\ i <= last
    BY <1>1, <1>16
  <2> QED BY <1>13, <2>1, <2>4, <2>5, <2>6
<1>19. ASSUME NEW i \in 1 .. n, first < i, i <= last PROVE m.at[i] \notin m.leaders
  <2>1. i \in 1 .. n + 1 /\ i < e /\ m.at[i] \in Nat
    BY <1>1, <1>6, <1>16, <1>19
  <2>2. m.at[i] < end
    BY <1>10, <1>11, <2>1
  <2>3. m.at[first] < m.at[i]
    BY <1>1, <1>12, <1>19, <2>1
  <2>4. ~(end <= m.at[i])
    BY <1>9, <2>1, <2>2
  <2>5. m.at[i] > b
    BY <1>5, <1>9, <2>1, <2>3
  <2> QED BY <1>9, <2>4, <2>5
<1> QED BY <1>5, <1>16, <1>17, <1>18, <1>19

\* What a block leaves is the last of its stacks.
LEMMA BlockStackIs ==
  ASSUME NEW m, NEW n, Analysed(m, n), NEW b \in m.leaders,
         NEW first, first = InstructionAt(m, b), NEW last, last = Max(Inside(m, b))
  PROVE  StacksOf(Stacks(m, b), m, b, first, last) /\ BlockStack(m, b) = Stacks(m, b)[last + 1]
<1> DEFINE Body(S) ==
      [i \in first .. last + 1 |->
         IF i = first THEN IF b \in {m.at[h.at] : h \in m.handlers} THEN <<Caught(b)>> ELSE <<>>
         ELSE IF S[i - 1] # Stuck /\ Executable(m.code[i - 1].op, S[i - 1])
           THEN After(m.code[i - 1].op, S[i - 1], m.at[i - 1])
           ELSE Stuck]
<1>1. \A S : StacksOf(S, m, b, first, last) <=> S = Body(S)
  BY DEF StacksOf, Entering, HandlerStarts
<1>2. \E S : S = Body(S)
  <2>1. first \in Nat /\ last \in Nat /\ first <= last
    BY BlockSpan
  <2>2. PICK S : StacksOf(S, m, b, first, last)
    BY <2>1, StacksExist
  <2> HIDE DEF Body
  <2> QED BY <1>1, <2>2
<1>3. PICK S : S = CHOOSE x : x = Body(x)
  OBVIOUS
<1>4. S = Body(S)
  BY <1>2, <1>3
<1>5. BlockStack(m, b) = S[last + 1]
  BY <1>3 DEF BlockStack, Inside
<1>6. Stacks(m, b) = S
  BY <1>3 DEF Stacks, StacksOf, Entering, HandlerStarts
<1> QED BY <1>1, <1>4, <1>5, <1>6

\* A block that leaves nothing does not get stuck.
LEMMA NeverStuck ==
  ASSUME NEW m, NEW b, NEW first \in Nat, NEW last \in Nat, NEW S,
         StacksOf(S, m, b, first, last), S[last + 1] = <<>>,
         NEW i \in first .. last
  PROVE  /\ Executable(m.code[i].op, S[i])
         /\ S[i + 1] = After(m.code[i].op, S[i], m.at[i])
<1>1. \A j \in first .. last :
        S[j + 1] = IF S[j] # Stuck /\ Executable(m.code[j].op, S[j])
                     THEN After(m.code[j].op, S[j], m.at[j]) ELSE Stuck
  <2>1. SUFFICES ASSUME NEW j \in first .. last
                 PROVE  S[j + 1] = IF S[j] # Stuck /\ Executable(m.code[j].op, S[j])
                                     THEN After(m.code[j].op, S[j], m.at[j]) ELSE Stuck
    OBVIOUS
  <2>2. j + 1 \in first .. last + 1 /\ j + 1 # first /\ (j + 1) - 1 = j
    OBVIOUS
  <2> QED BY <2>2 DEF StacksOf
<1>2. SUFFICES ASSUME ~(S[i] # Stuck /\ Executable(m.code[i].op, S[i])) PROVE FALSE
  BY <1>1
<1> DEFINE T == {k \in Nat : i + k <= last => S[i + k + 1] = Stuck}
<1>3. 0 \in T
  <2>1. i + 0 + 1 = i + 1
    OBVIOUS
  <2> QED BY <1>1, <1>2, <2>1
<1>4. ASSUME NEW k \in Nat, k \in T PROVE k + 1 \in T
  <2>1. SUFFICES ASSUME i + (k + 1) <= last PROVE S[i + (k + 1) + 1] = Stuck
    OBVIOUS
  <2>2. i + k + 1 \in first .. last /\ i + (k + 1) = i + k + 1
    BY <2>1
  <2>3. S[i + k + 1] = Stuck
    BY <1>4, <2>2
  <2> QED BY <1>1, <2>2, <2>3
<1> HIDE DEF T
<1>5. last - i \in T
  <2>1. \A k \in Nat : k \in T
    BY <1>3, <1>4, AllNumbers
  <2> QED BY <2>1
<1>6. S[last + 1] = Stuck
  <2>1. i + (last - i) = last
    OBVIOUS
  <2> QED BY <1>5, <2>1 DEF T
<1>7. Stuck # <<>>
  BY DEF Stuck
<1> QED BY <1>6, <1>7

\* In a block that is made of statements, each instruction has the operands that
\* it needs, and nothing is left at the end.
LEMMA StatementStacks ==
  ASSUME NEW m, NEW n, Analysed(m, n), NEW i \in 1 .. n, StatementWise(m),
         NEW e, e = Expected(m, i), NEW op, op = m.code[i].op
  PROVE  /\ m.at[i] \in m.leaders => e = Entering(m, m.at[i])
         /\ Executable(op, e)
         /\ i = n \/ m.at[i + 1] \in m.leaders => After(op, e, m.at[i]) = <<>>
         /\ i + 1 \in 1 .. n /\ m.at[i + 1] \notin m.leaders =>
              Expected(m, i + 1) = After(op, e, m.at[i])
<1>1. PICK b, first, last, S : /\ b = BlockOf(m, m.at[i]) /\ first = InstructionAt(m, b)
                               /\ last = Max(Inside(m, b)) /\ S = Stacks(m, b)
  OBVIOUS
<1>2. b \in m.leaders
  BY <1>1, BlockFacts
<1>3. /\ first \in 1 .. n /\ last \in 1 .. n /\ first <= last /\ m.at[first] = b
      /\ last = n \/ m.at[last + 1] \in m.leaders
      /\ \A j \in 1 .. n : BlockOf(m, m.at[j]) = b <=> first <= j /\ j <= last
      /\ \A j \in 1 .. n : first < j /\ j <= last => m.at[j] \notin m.leaders
  BY <1>1, <1>2, BlockSpan
<1>4. n \in Nat /\ first <= i /\ i <= last
  BY <1>1, <1>3 DEF Analysed, DecodedAs
<1>5. StacksOf(S, m, b, first, last) /\ S[last + 1] = <<>>
  BY <1>1, <1>2, BlockStackIs DEF StatementWise
<1>6. e = S[i]
  BY <1>1 DEF Expected
<1>7. Executable(op, e) /\ S[i + 1] = After(op, e, m.at[i])
  <2>1. first \in Nat /\ last \in Nat /\ i \in first .. last
    BY <1>3, <1>4
  <2> QED BY <1>5, <1>6, <2>1, NeverStuck
<1>8. ASSUME m.at[i] \in m.leaders PROVE e = Entering(m, m.at[i])
  <2>1. i = first
    BY <1>3, <1>4, <1>8
  <2>2. first \in first .. last + 1
    BY <1>3
  <2>3. S[first] = Entering(m, b)
    BY <1>5, <2>2 DEF StacksOf
  <2> QED BY <1>3, <1>6, <2>1, <2>3
<1>9. ASSUME i = n \/ m.at[i + 1] \in m.leaders PROVE After(op, e, m.at[i]) = <<>>
  <2>1. i = last
    <3>1. ASSUME i < last PROVE FALSE
      <4>1. i + 1 \in 1 .. n /\ first < i + 1 /\ i + 1 <= last /\ i # n
        BY <1>3, <1>4, <3>1
      <4> QED BY <1>3, <1>9, <4>1
    <3> QED BY <1>3, <1>4, <3>1
  <2> QED BY <1>5, <1>7, <2>1
<1>10. ASSUME i + 1 \in 1 .. n, m.at[i + 1] \notin m.leaders
       PROVE  Expected(m, i + 1) = After(op, e, m.at[i])
  <2>1. BlockOf(m, m.at[i + 1]) = b
    BY <1>1, <1>10, SameBlock
  <2>2. Expected(m, i + 1) = S[i + 1]
    BY <1>1, <2>1 DEF Expected
  <2> QED BY <1>7, <2>2
<1> QED BY <1>7, <1>8, <1>9, <1>10

----------------------------------------------------------------------------
(* The types of the locals.                                                *)

\* Before instruction i, no value of an unknown type is wide, no local has a type
\* of another width than that of the code's accesses, and a wide one has its
\* type once that is declared or was stored.
LocalsFit(m, b, i) ==
  /\ \A v \in b.untyped : v.wide = FALSE
  /\ \A k \in DOMAIN m.code : m.code[k].op \in LocalOps =>
       /\ b.locals[m.code[k].local] \in {"unknown", WidthUsed(m.code[k].op)}
       /\ /\ WidthUsed(m.code[k].op) = "wide"
          /\ \/ m.declared[m.code[k].local] = "wide"
             \/ \E j \in DOMAIN m.code :
                  j < i /\ m.code[j].op \in TakeWide /\ m.code[j].local = m.code[k].local
          => b.locals[m.code[k].local] = "wide"

\* The local operations' widths.
LEMMA Widths ==
  ASSUME NEW op \in LocalOps
  PROVE  /\ WidthUsed(op) \in {"narrow", "wide"}
         /\ op \in Loads => (op \in PushWide <=> WidthUsed(op) = "wide")
         /\ op \in Stores => (op \in TakeWide <=> WidthUsed(op) = "wide")
         /\ op \in Increments => WidthUsed(op) = "narrow" /\ op \notin Loads \cup Stores
         /\ op \in Stores => op \notin Loads
         /\ op \in TakeWide => op \in Stores
BY DEF WidthUsed, LocalOps, Loads, Stores, Increments, PushWide, TakeWide

\* At the start the locals have the declared types.
LEMMA LocalsFitAtFirst ==
  ASSUME NEW m, NEW n \in Nat, DOMAIN m.code = 1 .. n, LocalsKeepTheirWidth(m),
         NEW b, b = LoweredStart(m)
  PROVE  LocalsFit(m, b, 1)
<1>1. b.locals = m.declared /\ b.untyped = {Unknown}
  BY DEF LoweredStart
<1>2. \A v \in b.untyped : v.wide = FALSE
  BY <1>1 DEF Unknown, Value
<1>3. ASSUME NEW k \in DOMAIN m.code, m.code[k].op \in LocalOps
      PROVE  m.declared[m.code[k].local] \in {"unknown", WidthUsed(m.code[k].op)}
  BY <1>3 DEF LocalsKeepTheirWidth
<1>4. \A j \in DOMAIN m.code : ~(j < 1)
  OBVIOUS
<1> QED BY <1>1, <1>2, <1>3, <1>4 DEF LocalsFit

\* So a load pushes a value of the width that it has.
LEMMA LoadsFit ==
  ASSUME NEW m, NEW n \in Nat, DOMAIN m.code = 1 .. n, LocalsKeepTheirWidth(m),
         NEW i \in 1 .. n, NEW b, LocalsFit(m, b, i), NEW c, c = m.code[i]
  PROVE  LoadsWide(c, b) <=> c.op \in PushWide
<1>1. CASE c.op \notin Loads
  BY <1>1 DEF LoadsWide
<1>2. CASE c.op \in Loads
  <2>1. c.op \in LocalOps
    BY <1>2 DEF LocalOps
  <2>2. b.locals[c.local] \in {"unknown", WidthUsed(c.op)}
    BY <2>1 DEF LocalsFit
  <2>3. c.op \in PushWide <=> WidthUsed(c.op) = "wide"
    BY <1>2, <2>1, Widths
  <2>4. ASSUME c.op \in PushWide PROVE b.locals[c.local] = "wide"
    <3>1. m.declared[c.local] \in {"unknown", "wide"}
      BY <2>1, <2>3, <2>4 DEF LocalsKeepTheirWidth
    <3>2. ASSUME m.declared[c.local] = "unknown"
          PROVE  \E j \in DOMAIN m.code :
                   j < i /\ m.code[j].op \in TakeWide /\ m.code[j].local = c.local
      BY <1>2, <2>1, <2>4, <3>2 DEF LocalsKeepTheirWidth
    <3> QED BY <2>1, <2>3, <2>4, <3>1, <3>2 DEF LocalsFit
  <2>5. c.op \notin PushWide => b.locals[c.local] # "wide"
    <3>1. WidthUsed(c.op) \in {"narrow", "wide"}
      BY <2>1, Widths
    <3> QED BY <2>2, <2>3, <3>1
  <2>6. LoadsWide(c, b) <=> b.locals[c.local] = "wide"
    BY <1>2 DEF LoadsWide
  <2> QED BY <2>4, <2>5, <2>6
<1> QED BY <1>1, <1>2

\* The type that an access infers has the width of the access.
LEMMA InferredIs ==
  ASSUME NEW op, op \in Stores \cup Increments, NEW s \in Seq(Values), Executable(op, s),
         NEW untyped, \A v \in untyped : v.wide = FALSE,
         NEW t, t = IF op \in Increments THEN "narrow" ELSE TypeOf(Operands(op, s)[1], untyped)
  PROVE  t \in {"unknown", WidthUsed(op)} /\ (WidthUsed(op) = "wide" => t = "wide")
<1>1. op \in LocalOps
  BY DEF LocalOps
<1>2. CASE op \in Increments
  <2>1. WidthUsed(op) = "narrow" /\ t = "narrow"
    BY <1>1, <1>2, Widths
  <2> QED BY <2>1
<1>3. CASE op \notin Increments
  <2>1. op \in Stores
    BY <1>3
  <2>2. Effect(op)[1] = 1 /\ op # "pop2"
    BY <2>1 DEF Effect, Stores, Loads
  <2>3. PopCount(op, Effect(op)[1], s) = 1
    BY <2>2 DEF PopCount
  <2>4. Operands(op, s) = Top(s, 1) /\ 1 <= Len(s)
    BY <2>3 DEF Operands, Executable
  <2>5. Len(Operands(op, s)) = 1 /\ Operands(op, s) \in Seq(Values)
    <3>1. PICK k \in Nat : k = 1
      OBVIOUS
    <3>2. k <= Len(s) /\ Operands(op, s) = Top(s, k)
      BY <2>4, <3>1
    <3>3. Len(Top(s, k)) = k /\ Top(s, k) \in Seq(Values)
      BY <3>2, TopAndRest
    <3> QED BY <3>1, <3>2, <3>3
  <2>6. PICK v : v = Operands(op, s)[1]
    OBVIOUS
  <2>7. v.wide = (op \in TakeWide)
    <3>1. 1 \in DOMAIN Operands(op, s)
      BY <2>5
    <3> QED BY <2>2, <2>6, <3>1 DEF Executable
  <2>8. t = TypeOf(v, untyped)
    BY <1>3, <2>6
  <2>9. (op \in TakeWide <=> WidthUsed(op) = "wide") /\ WidthUsed(op) \in {"narrow", "wide"}
    BY <1>1, <2>1, Widths
  <2>10. CASE v \in untyped
    <3>1. op \notin TakeWide /\ t = "unknown"
      BY <2>7, <2>8, <2>10 DEF TypeOf
    <3> QED BY <2>9, <3>1
  <2>11. CASE v \notin untyped
    <3>1. t = IF op \in TakeWide THEN "wide" ELSE "narrow"
      BY <2>7, <2>8, <2>11 DEF TypeOf
    <3> QED BY <2>9, <3>1
  <2> QED BY <2>10, <2>11
<1> QED BY <1>2, <1>3

\* An instruction that is lowered with the operands of an execution keeps the
\* locals fit.
LEMMA LocalsStayFit ==
  ASSUME NEW m, NEW n \in Nat, DOMAIN m.code = 1 .. n, LocalsKeepTheirWidth(m),
         m.code \in Seq(Instructions),
         NEW i \in 1 .. n, NEW b, b.locals \in Declarations, LocalsFit(m, b, i),
         NEW c, c = m.code[i], NEW s \in Seq(Values), Executable(c.op, s),
         NEW r, r.locals = InferLocal(c, b, Operands(c.op, s)),
         r.untyped = b.untyped \cup Untyped(c, b)
  PROVE  LocalsFit(m, r, i + 1)
<1>1. \A v \in b.untyped : v.wide = FALSE
  BY DEF LocalsFit
<1>2. \A v \in r.untyped : v.wide = FALSE
  BY <1>1 DEF Value, Untyped
<1>3. SUFFICES ASSUME NEW k \in DOMAIN m.code, m.code[k].op \in LocalOps,
                      NEW d, d = m.code[k]
               PROVE  /\ r.locals[d.local] \in {"unknown", WidthUsed(d.op)}
                      /\ /\ WidthUsed(d.op) = "wide"
                         /\ \/ m.declared[d.local] = "wide"
                            \/ \E j \in DOMAIN m.code :
                                 j < i + 1 /\ m.code[j].op \in TakeWide
                                           /\ m.code[j].local = d.local
                         => r.locals[d.local] = "wide"
  BY <1>2 DEF LocalsFit
<1>4. /\ b.locals[d.local] \in {"unknown", WidthUsed(d.op)}
      /\ /\ WidthUsed(d.op) = "wide"
         /\ \/ m.declared[d.local] = "wide"
            \/ \E j \in DOMAIN m.code :
                 j < i /\ m.code[j].op \in TakeWide /\ m.code[j].local = d.local
         => b.locals[d.local] = "wide"
  BY <1>3 DEF LocalsFit
<1>5. \A j \in DOMAIN m.code : j < i + 1 <=> j < i \/ j = i
  OBVIOUS
<1>6. ASSUME c.op \in LocalOps, c.local = d.local PROVE WidthUsed(c.op) = WidthUsed(d.op)
  BY <1>3, <1>6 DEF LocalsKeepTheirWidth
<1>7. c.op \in TakeWide => c.op \in Stores
  BY DEF TakeWide, Stores
<1>8. CASE ~(c.op \in Stores \cup Increments /\ c.local = d.local)
  <2>1. r.locals[d.local] = b.locals[d.local]
    BY <1>8 DEF InferLocal, Declarations
  <2>2. ~(c.op \in TakeWide /\ c.local = d.local)
    BY <1>7, <1>8
  <2> QED BY <1>4, <1>5, <2>1, <2>2
<1>9. CASE c.op \in Stores \cup Increments /\ c.local = d.local
  <2>1. c.op \in LocalOps /\ WidthUsed(c.op) = WidthUsed(d.op)
    BY <1>6, <1>9 DEF LocalOps
  <2>2. CASE b.locals[c.local] = "unknown"
    <3>1. PICK t : t = IF c.op \in Increments THEN "narrow"
                       ELSE TypeOf(Operands(c.op, s)[1], b.untyped)
      OBVIOUS
    <3>2. r.locals = [b.locals EXCEPT ![c.local] = t]
      BY <1>9, <2>2, <3>1 DEF InferLocal
    <3>3. c.local \in Locals
      <4>1. c \in Instructions
        OBVIOUS
      <4> QED BY <2>1, <4>1 DEF Instructions
    <3>4. r.locals[d.local] = t
      BY <1>9, <3>2, <3>3 DEF Declarations
    <3>5. t \in {"unknown", WidthUsed(c.op)} /\ (WidthUsed(c.op) = "wide" => t = "wide")
      <4>1. PICK op, untyped : op = c.op /\ untyped = b.untyped
        OBVIOUS
      <4>2. op \in Stores \cup Increments /\ Executable(op, s)
        BY <1>9, <4>1
      <4>3. t = IF op \in Increments THEN "narrow" ELSE TypeOf(Operands(op, s)[1], untyped)
        BY <3>1, <4>1
      <4>4. \A v \in untyped : v.wide = FALSE
        BY <1>1, <4>1
      <4>5. t \in {"unknown", WidthUsed(op)} /\ (WidthUsed(op) = "wide" => t = "wide")
        BY <4>2, <4>3, <4>4, InferredIs
      <4> QED BY <4>1, <4>5
    <3> QED BY <2>1, <3>4, <3>5
  <2>3. CASE b.locals[c.local] # "unknown"
    <3>1. r.locals[d.local] = b.locals[d.local]
      BY <2>3 DEF InferLocal
    <3>2. b.locals[d.local] = WidthUsed(d.op)
      BY <1>4, <1>9, <2>3
    <3> QED BY <3>1, <3>2
  <2> QED BY <2>2, <2>3
<1> QED BY <1>8, <1>9

----------------------------------------------------------------------------
(* The operands that the IR has.                                           *)

\* Lowering finds those stacks, and so the operands of each instruction.
LEMMA LoweringAgrees ==
  ASSUME NEW m, NEW n, Analysed(m, n), m.code \in Seq(Instructions),
         \A h \in m.handlers : h.at \in 1 .. n, m.declared \in Declarations,
         LocalsKeepTheirWidth(m), StatementWise(m), NEW ir, ir = BuildIr(m), ~ir.unsupported,
         NEW i \in 1 .. n, NEW op, op = m.code[i].op
  PROVE  /\ Expected(m, i) \in Seq(Values) /\ op \in Operations
         /\ ~Lowering(op, m.at[i]).unsupported
         /\ ir.used[m.at[i]] = Operands(op, Expected(m, i))
<1>1. DecodedAs(m, n) /\ n \in Nat /\ DOMAIN m.code = 1 .. n
  BY DEF Analysed, DecodedAs
<1>2. PICK f : LoweredBy(f, m, n) /\ ir = f[n]
  BY <1>1, IrIs
<1>3. /\ f[0] = LoweredStart(m)
      /\ \A j \in 1 .. n : f[j] = LowerInstruction(m, f[j - 1])
      /\ \A j \in 0 .. n : LoweredTo(m, f[j], j + 1)
      /\ \A j \in 1 .. n : f[j].unsupported => f[n].unsupported
      /\ \A j \in 1 .. n : f[n].used[m.at[j]] = f[j].used[m.at[j]]
  BY <1>1, <1>2, LoweringVisits
<1> DEFINE Seeded(j) == SeedHandler(m, f[j - 1].stack, m.at[j])
<1>4. ASSUME NEW j \in 1 .. n, Seeded(j) = Expected(m, j), LocalsFit(m, f[j - 1], j)
      PROVE  /\ LocalsFit(m, f[j], j + 1)
             /\ f[j].stack = After(m.code[j].op, Expected(m, j), m.at[j])
             /\ f[j].used[m.at[j]] = Operands(m.code[j].op, Expected(m, j))
             /\ Expected(m, j) \in Seq(Values) /\ m.code[j].op \in Operations
             /\ ~Lowering(m.code[j].op, m.at[j]).unsupported
  <2>1. PICK b, r, s, d, o : /\ b = f[j - 1] /\ r = f[j] /\ s = Seeded(j) /\ d = m.code[j]
                             /\ o = d.op
    OBVIOUS
  <2>2. LoweredTo(m, b, j) /\ r = LowerInstruction(m, b) /\ ~r.unsupported
    <3>1. j - 1 \in 0 .. n /\ (j - 1) + 1 = j
      BY <1>1
    <3> QED BY <1>2, <1>3, <2>1, <3>1
  <2>3. s = Expected(m, j)
    BY <1>4, <2>1
  <2>6. s = SeedHandler(m, b.stack, m.at[j]) /\ d = m.code[j] /\ o = d.op
    BY <2>1
  <2>4. Executable(o, s)
    BY <2>1, <2>3, StatementStacks
  <2>5. /\ s \in Seq(Values) /\ o \in Operations
        /\ ~r.unsupported => ~Lowering(o, m.at[j]).unsupported
        /\ r.untyped = b.untyped \cup Untyped(d, b)
        /\ ~r.unsupported /\ Executable(o, s) =>
             /\ r.used[m.at[j]] = Operands(o, s)
             /\ r.locals = InferLocal(d, b, Operands(o, s))
             /\ (LoadsWide(d, b) <=> o \in PushWide) => r.stack = After(o, s, m.at[j])
    BY <1>1, <2>2, <2>6, LowersOne
  <2>7. LocalsFit(m, b, j) /\ b.locals \in Declarations
    BY <1>4, <2>1, <2>2 DEF LoweredTo
  <2>8. LoadsWide(d, b) <=> d.op \in PushWide
    BY <1>1, <2>6, <2>7, LoadsFit
  <2>9. LocalsFit(m, r, j + 1)
    <3>1. Executable(d.op, s) /\ r.locals = InferLocal(d, b, Operands(d.op, s))
      BY <2>2, <2>4, <2>5, <2>6
    <3> QED BY <1>1, <2>5, <2>6, <2>7, <3>1, LocalsStayFit
  <2> QED BY <2>1, <2>2, <2>3, <2>4, <2>5, <2>8, <2>9
\* An empty stack before a block, or what the block has before another one.
<1>5. ASSUME NEW j \in 1 .. n, NEW s, m.at[j] \in m.leaders => s = <<>>,
             m.at[j] \notin m.leaders => s = Expected(m, j)
      PROVE  SeedHandler(m, s, m.at[j]) = Expected(m, j)
  <2>1. CASE m.at[j] \in m.leaders
    <3>1. Expected(m, j) = Entering(m, m.at[j])
      BY <2>1, StatementStacks
    <3> QED BY <1>5, <2>1, <3>1 DEF Entering, SeedHandler, HandlerStarts
  <2>2. CASE m.at[j] \notin m.leaders
    <3>1. \A h \in m.handlers : m.at[h.at] # m.at[j]
      BY <2>2, HandlerLeads
    <3> QED BY <1>5, <2>2, <3>1 DEF SeedHandler
  <2> QED BY <2>1, <2>2
<1> DEFINE Agrees(j) == Seeded(j) = Expected(m, j) /\ LocalsFit(m, f[j - 1], j)
<1> DEFINE T == {k \in Nat : k + 1 <= n => Agrees(k + 1)}
<1>6. 0 \in T
  <2>1. SUFFICES ASSUME 0 + 1 <= n PROVE Agrees(1)
    OBVIOUS
  <2>2. 1 \in 1 .. n /\ m.at[1] = 0 /\ 0 \in m.leaders
    BY <1>1, <2>1, LeadersAreOffsets DEF DecodedAs
  <2>3. f[1 - 1].stack = <<>>
    BY <1>3 DEF LoweredStart
  <2>4. Seeded(1) = Expected(m, 1)
    BY <1>5, <2>2, <2>3
  <2>5. LocalsFit(m, f[1 - 1], 1)
    <3>1. LocalsFit(m, f[0], 1)
      BY <1>1, <1>3, LocalsFitAtFirst
    <3> QED BY <3>1
  <2> QED BY <2>4, <2>5
<1>7. ASSUME NEW k \in Nat, k \in T, (k + 1) + 1 <= n
      PROVE  Agrees((k + 1) + 1)
  <2>1. PICK j : j = k + 1
    OBVIOUS
  <2>2. j \in 1 .. n /\ j + 1 \in 1 .. n /\ (j + 1) - 1 = j /\ j # n
    BY <1>1, <1>7, <2>1
  <2>3. Seeded(j) = Expected(m, j) /\ LocalsFit(m, f[j - 1], j)
    BY <1>7, <2>1, <2>2
  <2>4. /\ f[j].stack = After(m.code[j].op, Expected(m, j), m.at[j])
        /\ LocalsFit(m, f[j], j + 1)
    BY <1>4, <2>2, <2>3
  <2>5. /\ m.at[j + 1] \in m.leaders => f[j].stack = <<>>
        /\ m.at[j + 1] \notin m.leaders => f[j].stack = Expected(m, j + 1)
    BY <2>2, <2>4, StatementStacks
  <2>6. Seeded(j + 1) = Expected(m, j + 1)
    BY <1>5, <2>2, <2>5
  <2> QED BY <2>1, <2>2, <2>4, <2>6
<1>8. ASSUME NEW k \in Nat, k \in T PROVE k + 1 \in T
  <2>1. (k + 1) + 1 <= n => Agrees((k + 1) + 1)
    BY <1>7, <1>8
  <2> QED BY <2>1
<1>9. i - 1 \in T
  <2> HIDE DEF T
  <2>1. \A k \in Nat : k \in T
    BY <1>6, <1>8, AllNumbers
  <2> QED BY <1>1, <2>1
<1>10. Agrees(i)
  <2>1. (i - 1) + 1 = i /\ i <= n
    BY <1>1
  <2> QED BY <1>9, <2>1
<1> QED BY <1>2, <1>3, <1>4, <1>10

----------------------------------------------------------------------------
(* The operands of an execution.                                           *)

\* The stack s on top of the value c.
Over(c, s) == <<c>> \o s

\* The stack s is what a block expects before instruction i, or that without
\* the exception of a handler that was not entered by one.
Matches(m, i, s) ==
  /\ s \in Seq(Values)
  /\ Expected(m, i) = s \/ \E c \in Values : Expected(m, i) = Over(c, s)

\* A value under the first part of a stack is under all of it.
LEMMA OverBoth ==
  ASSUME NEW c \in Values, NEW s \in Seq(Values), NEW p \in Seq(Values)
  PROVE  Over(c, s) \o p = Over(c, s \o p)
<1>1. <<c>> \in Seq(Values)
  OBVIOUS
<1> QED BY <1>1, ConcatAssociative DEF Over

\* What an operation takes from a stack, and leaves, does not depend on what is
\* further down.
LEMMA FurtherDown ==
  ASSUME NEW op \in Operations, NEW at \in Nat, ~Lowering(op, at).unsupported,
         NEW s \in Seq(Values), NEW c \in Values, NEW e, e = s \/ e = Over(c, s),
         Executable(op, s)
  PROVE  /\ Operands(op, e) = Operands(op, s) /\ After(op, s, at) \in Seq(Values)
         /\ After(op, e, at) = After(op, s, at) \/ After(op, e, at) = Over(c, After(op, s, at))
<1>1. PICK in, out : in = Effect(op)[1] /\ out = Effect(op)[2]
  OBVIOUS
<1>2. /\ in \in Nat /\ out \in Nat /\ op # "dup_x1"
      /\ op = "dup" => in = 1
      /\ op = "swap" => in = 2
  <2>1. Fits(Lowering(op, at), op, at)
    BY LoweringFits
  <2> QED BY <1>1, <2>1 DEF Fits
<1>3. PICK k : k = PopCount(op, in, s)
  OBVIOUS
<1>4. /\ k \in Nat /\ k <= Len(s) /\ Operands(op, s) = Top(s, k)
      /\ After(op, s, at) = Leaves(op, out, at, s, k)
  BY <1>1, <1>2, <1>3, AfterIs
<1>5. /\ Top(s, k) \in Seq(Values) /\ Len(Top(s, k)) = k
      /\ \A i \in 1 .. k : Top(s, k)[i] = s[Len(s) - k + i]
      /\ Rest(s, k) \in Seq(Values) /\ Len(Rest(s, k)) = Len(s) - k
      /\ \A i \in 1 .. Len(s) - k : Rest(s, k)[i] = s[i]
  BY <1>4, TopAndRest
<1>6. PICK p : p = Pushed(op, NewValue(op, at), out, Top(s, k))
  OBVIOUS
<1>7. p \in Seq(Values)
  <2>3. PICK v : v = NewValue(op, at)
    OBVIOUS
  <2>4. p = Pushed(op, v, out, Top(s, k)) /\ v \in Values
    BY <1>6, <2>3, ValuesAre DEF NewValue
  <2>1. op \in {"dup", "swap"} => k = in
    BY <1>2, <1>3, PopCountIs
  <2>2. (op = "dup" => Len(Top(s, k)) = 1) /\ (op = "swap" => Len(Top(s, k)) = 2)
    BY <1>2, <1>5, <2>1
  <2>5. out \in Nat /\ Top(s, k) \in Seq(Values)
    BY <1>2, <1>5
  <2> QED BY <2>2, <2>4, <2>5, PushedIs
<1>8. After(op, s, at) = Rest(s, k) \o p /\ After(op, s, at) \in Seq(Values)
  <2>1. After(op, s, at) = Rest(s, k) \o p
    BY <1>4, <1>6 DEF Leaves
  <2> QED BY <1>5, <1>7, <2>1, ConcatProperties
<1>9. CASE e = Over(c, s)
  <2>1. <<c>> \in Seq(Values) /\ Len(<<c>>) = 1 /\ <<c>>[1] = c
    OBVIOUS
  <2>2. Len(s) \in Nat
    BY LenProperties
  <2>3. /\ e \in Seq(Values) /\ Len(e) = 1 + Len(s)
        /\ \A i \in 1 .. 1 + Len(s) : e[i] = IF i <= 1 THEN c ELSE s[i - 1]
    BY <1>9, <2>1, ConcatProperties DEF Over
  <2>4. k = PopCount(op, in, e)
    <3>1. CASE op # "pop2"
      BY <1>3, <3>1 DEF PopCount
    <3>2. CASE op = "pop2"
      <4>1. s # <<>>
        <5>1. in = 2
          BY <1>1, <3>2 DEF Effect, Loads, Stores
        <5>2. s = <<>> => k = 2 /\ Len(s) = 0
          BY <1>3, <5>1 DEF PopCount
        <5> QED BY <1>4, <5>2
      <4>2. Len(s) >= 1
        BY <2>2, <4>1, EmptySeq
      <4>3. Last(e) = Last(s) /\ e # <<>>
        <5>1. e[1 + Len(s)] = s[Len(s)]
          BY <2>2, <2>3, <4>2
        <5>2. e # <<>>
          BY <2>2, <2>3
        <5> QED BY <2>3, <5>1, <5>2 DEF Last
      <4> QED BY <1>3, <4>1, <4>3 DEF PopCount
    <3> QED BY <3>1, <3>2
  <2>5. /\ Top(e, k) \in Seq(Values) /\ Len(Top(e, k)) = k
        /\ \A i \in 1 .. k : Top(e, k)[i] = e[Len(e) - k + i]
        /\ Rest(e, k) \in Seq(Values) /\ Len(Rest(e, k)) = Len(e) - k
        /\ \A i \in 1 .. Len(e) - k : Rest(e, k)[i] = e[i]
    <3>1. k <= Len(e)
      BY <1>4, <2>2, <2>3
    <3> QED BY <1>4, <2>3, <3>1, TopAndRest
  <2>6. Top(e, k) = Top(s, k)
    <3>1. ASSUME NEW i \in 1 .. k PROVE Top(e, k)[i] = Top(s, k)[i]
      <4>1. Len(e) - k + i = 1 + (Len(s) - k + i)
        BY <1>4, <2>2, <2>3
      <4>2. e[1 + (Len(s) - k + i)] = s[Len(s) - k + i]
        BY <1>4, <2>2, <2>3
      <4> QED BY <1>5, <2>5, <4>1, <4>2
    <3> QED BY <1>5, <2>5, <3>1
  <2>7. Rest(e, k) = <<c>> \o Rest(s, k)
    <3>1. PICK q : q = <<c>> \o Rest(s, k)
      OBVIOUS
    <3>2. /\ q \in Seq(Values) /\ Len(q) = 1 + (Len(s) - k)
          /\ \A i \in 1 .. 1 + (Len(s) - k) : q[i] = IF i <= 1 THEN c ELSE Rest(s, k)[i - 1]
      BY <1>5, <2>1, <3>1, ConcatProperties
    <3>3. Len(Rest(e, k)) = 1 + (Len(s) - k)
      BY <1>4, <2>2, <2>3, <2>5
    <3>4. ASSUME NEW i \in 1 .. 1 + (Len(s) - k) PROVE Rest(e, k)[i] = q[i]
      <4>1. i \in 1 .. Len(e) - k /\ i \in 1 .. 1 + Len(s) /\ i \in 1 .. 1 + (Len(s) - k)
        BY <1>4, <2>2, <2>3
      <4>2. Rest(e, k)[i] = IF i <= 1 THEN c ELSE s[i - 1]
        BY <2>3, <2>5, <4>1
      <4>3. CASE i <= 1
        BY <3>2, <4>1, <4>2, <4>3
      <4>4. CASE ~(i <= 1)
        <5>1. i - 1 \in 1 .. Len(s) - k
          BY <1>4, <2>2, <4>1, <4>4
        <5> QED BY <1>5, <3>2, <4>1, <4>2, <4>4, <5>1
      <4> QED BY <4>3, <4>4
    <3>5. Rest(e, k) = q
      BY <2>5, <3>2, <3>3, <3>4, SeqEqual
    <3> QED BY <3>1, <3>5
  <2>8. Executable(op, e)
    <3>1. Operands(op, e) = Top(e, k) /\ Operands(op, s) = Top(s, k)
      BY <1>1, <1>3, <2>4 DEF Operands
    <3>2. k <= Len(e)
      BY <1>4, <2>2, <2>3
    <3> QED BY <1>1, <1>3, <2>4, <2>6, <3>1, <3>2 DEF Executable
  <2>9. Operands(op, e) = Top(e, k) /\ After(op, e, at) = Leaves(op, out, at, e, k)
    BY <1>1, <1>2, <2>3, <2>4, <2>8, AfterIs
  <2>10. After(op, e, at) = Over(c, Rest(s, k)) \o p
    BY <1>6, <2>6, <2>7, <2>9 DEF Leaves, Over
  <2>11. After(op, e, at) = Over(c, Rest(s, k) \o p)
    BY <1>5, <1>7, <2>10, OverBoth
  <2> QED BY <1>4, <1>8, <2>6, <2>9, <2>11
<1> QED BY <1>8, <1>9

\* A method whose IR the property speaks of: what was decoded of it, and the
\* statements that it is made of.
Lowerable(m, n) ==
  /\ Analysed(m, n) /\ m.code \in Seq(Instructions) /\ \A h \in m.handlers : h.at \in 1 .. n
  /\ StatementWise(m) /\ ~BuildIr(m).unsupported
  /\ m.declared \in Declarations /\ LocalsKeepTheirWidth(m)

\* A block is entered with an empty stack, or as a handler.
LEMMA BlockEntered ==
  ASSUME NEW m, NEW n, Lowerable(m, n), NEW i \in 1 .. n, m.at[i] \in m.leaders,
         NEW s, s = <<>> \/ (s = <<Caught(m.at[i])>> /\ m.at[i] \in HandlerStarts(m))
  PROVE  Matches(m, i, s)
<1>1. Analysed(m, n) /\ StatementWise(m) /\ DecodedAs(m, n)
  BY DEF Lowerable, Analysed
<1>2. Expected(m, i) = Entering(m, m.at[i])
  BY <1>1, StatementStacks
<1>3. PICK c : c = Caught(m.at[i])
  OBVIOUS
<1>4. c \in Values
  <2>1. m.at[i] \in Nat
    BY <1>1, InstructionIs
  <2> QED BY <1>3, <2>1, ValuesAre
<1>5. <<>> \in Seq(Values) /\ <<c>> \in Seq(Values)
  BY <1>4
<1>6. Expected(m, i) = IF m.at[i] \in HandlerStarts(m) THEN <<c>> ELSE <<>>
  BY <1>2, <1>3 DEF Entering
<1>7. <<c>> \o <<>> = <<c>>
  BY <1>5, ConcatEmptySeq
<1> QED BY <1>3, <1>4, <1>5, <1>6, <1>7 DEF Matches, Over

\* An instruction takes the operands that its block expects.
LEMMA OperandsMatch ==
  ASSUME NEW m, NEW n, Lowerable(m, n), NEW i \in 1 .. n, NEW s, Matches(m, i, s),
         NEW op, op = m.code[i].op, Executable(op, s)
  PROVE  /\ BuildIr(m).used[m.at[i]] = Operands(op, s)
         /\ op \notin Subroutines
         /\ i = n \/ m.at[i + 1] \in m.leaders => After(op, s, m.at[i]) = <<>>
         /\ i + 1 \in 1 .. n /\ m.at[i + 1] \notin m.leaders =>
              Matches(m, i + 1, After(op, s, m.at[i]))
<1>1. /\ Analysed(m, n) /\ m.code \in Seq(Instructions) /\ StatementWise(m) /\ DecodedAs(m, n)
      /\ ~BuildIr(m).unsupported /\ \A h \in m.handlers : h.at \in 1 .. n
      /\ m.declared \in Declarations /\ LocalsKeepTheirWidth(m)
  BY DEF Lowerable, Analysed
<1>2. PICK e, at : e = Expected(m, i) /\ at = m.at[i]
  OBVIOUS
<1>3. /\ e \in Seq(Values) /\ op \in Operations /\ ~Lowering(op, at).unsupported
      /\ BuildIr(m).used[at] = Operands(op, e)
  BY <1>1, <1>2, LoweringAgrees
<1>4. at \in Nat
  BY <1>1, <1>2, InstructionIs
<1>5. s \in Seq(Values)
  BY DEF Matches
<1>6. PICK c \in Values : e = s \/ e = Over(c, s)
  <2>1. Unknown \in Values
    BY <1>4, ValuesAre
  <2> QED BY <1>2, <2>1 DEF Matches
<1>7. PICK a, z : a = After(op, e, at) /\ z = After(op, s, at)
  OBVIOUS
<1>8. /\ Operands(op, e) = Operands(op, s) /\ z \in Seq(Values)
      /\ a = z \/ a = Over(c, z)
  BY <1>3, <1>4, <1>5, <1>6, <1>7, FurtherDown
<1>9. op \notin Subroutines
  BY <1>3, <1>4, LoweringFits DEF Fits
<1>10. ASSUME i = n \/ m.at[i + 1] \in m.leaders PROVE z = <<>>
  <2>1. a = <<>>
    BY <1>1, <1>2, <1>7, <1>10, StatementStacks
  <2>2. Over(c, z) # <<>>
    <3>1. Len(<<c>> \o z) = 1 + Len(z) /\ Len(z) \in Nat
      BY <1>8
    <3>2. Len(<<>>) = 0
      OBVIOUS
    <3> QED BY <3>1, <3>2 DEF Over
  <2> QED BY <1>8, <2>1, <2>2
<1>11. ASSUME i + 1 \in 1 .. n, m.at[i + 1] \notin m.leaders PROVE Matches(m, i + 1, z)
  <2>1. Expected(m, i + 1) = a
    BY <1>1, <1>2, <1>7, <1>11, StatementStacks
  <2> QED BY <1>8, <2>1 DEF Matches
<1> QED BY <1>2, <1>3, <1>7, <1>8, <1>9, <1>10, <1>11

\* The stack of an execution is what its block expects.
StackOK ==
  /\ report # NoReport /\ StatementWise(report.method) /\ ~report.ir.unsupported
  /\ LocalsKeepTheirWidth(report.method)
  => Matches(report.method, pc, stack)
IrInvariant == BytecodeInvariant /\ StackOK

\* The analysed method.
LEMMA MethodIs ==
  ASSUME BytecodeInvariant, report # NoReport, NEW m, m = report.method, NEW n, n = Len(code)
  PROVE  /\ Analysed(m, n) /\ m.code = code /\ m.handlers = handlers /\ report.ir = BuildIr(m)
         /\ code \in Seq(Instructions) /\ n \in Nat \ {0} /\ DOMAIN code = 1 .. n /\ pc \in 1 .. n
         /\ m.declared \in Declarations
         /\ StatementWise(m) /\ ~report.ir.unsupported /\ LocalsKeepTheirWidth(m) =>
              Lowerable(m, n)
<1>1. /\ code \in Seq(Instructions) /\ code # <<>>
      /\ \E d \in Declarations : report = AnalyzeMethod(code, handlers, d)
  BY DEF BytecodeInvariant, MethodOK
<1>2. /\ Analysed(m, n) /\ m.code = code /\ m.handlers = handlers /\ report.ir = BuildIr(m)
      /\ m.declared \in Declarations
  BY <1>1, ReportIs
<1>3. n \in Nat \ {0} /\ DOMAIN code = 1 .. n
  BY <1>1
<1>4. pc \in 1 .. n
  BY DEF BytecodeInvariant, MachineOK
<1>5. \A h \in m.handlers : h.at \in 1 .. n
  BY <1>2 DEF BytecodeInvariant, MethodOK
<1> QED BY <1>1, <1>2, <1>3, <1>4, <1>5 DEF Lowerable

\* Where an instruction goes: to the next one of its block, or from the last one
\* to the start of a block.
LEMMA GoesOn ==
  ASSUME NEW m, NEW n, Analysed(m, n), m.code = code, DOMAIN code = 1 .. n, Verified,
         NEW i \in 1 .. n, code[i].op \notin Subroutines, NEW j \in NextPcs(i), j \in 1 .. n
  PROVE  \/ j = i + 1 /\ m.at[j] \notin m.leaders
         \/ m.at[j] \in m.leaders /\ (i = n \/ m.at[i + 1] \in m.leaders)
<1>1. n \in Nat /\ m.at[1] = 0 /\ 0 \in m.leaders
  BY LeadersAreOffsets DEF Analysed, DecodedAs
<1>2. PICK op, to : op = code[i].op /\ to = code[i].to
  OBVIOUS
<1>3. CASE op \in Jumps
  <2>1. to \in 1 .. n
    BY <1>2, <1>3 DEF Verified
  <2>2. m.at[to] \in m.leaders
    BY <1>2, <1>3, <2>1, TargetLeads
  <2>3. i + 1 \in 1 .. n => m.at[i + 1] \in m.leaders
    BY <1>2, <1>3, LeaderFollows
  <2>4. i + 1 \in 1 .. n \/ i = n
    BY <1>1
  <2>5. j = to \/ j = i + 1 \/ j = 1
    BY <1>2, <1>3 DEF NextPcs, Jumps, BranchOps, Ifs
  <2> QED BY <1>1, <2>2, <2>3, <2>4, <2>5
<1>4. CASE op \notin Jumps
  <2>1. op \notin Ifs /\ op # "switch" /\ op \notin BranchOps /\ op \notin {"ret", "wide_ret"}
    BY <1>2, <1>4 DEF Jumps, BranchOps, Subroutines
  <2>2. j = i + 1
    BY <1>2, <2>1 DEF NextPcs
  <2> QED BY <2>2
<1> QED BY <1>3, <1>4

\* The stack is as expected at the start,
LEMMA IrStart == Init => IrInvariant
BY BytecodeStart DEF Init, IrInvariant, StackOK

\* and after every step.
LEMMA IrStep == IrInvariant /\ [Next]_vars => IrInvariant'
<1> SUFFICES ASSUME IrInvariant, [Next]_vars PROVE StackOK'
  BY BytecodeStep DEF IrInvariant
<1>1. BytecodeInvariant /\ StackOK /\ BytecodeInvariant'
  BY BytecodeStep DEF IrInvariant
<1>2. CASE (\E op \in Operations : Write(op)) \/ Protect
  <2>1. report = NoReport /\ report' = report
    BY <1>2 DEF Write, Protect
  <2> QED BY <2>1 DEF StackOK
<1>3. CASE Analyze
  <2>1. /\ report = NoReport /\ code # <<>>
        /\ \E d \in Declarations : report' = AnalyzeMethod(code, handlers, d)
        /\ pc' = 1 /\ UNCHANGED <<code, handlers, came, stack>>
    BY <1>3 DEF Analyze, Declarations
  <2>2. stack' = <<>>
    BY <1>1, <2>1 DEF BytecodeInvariant, MachineOK
  <2>3. PICK m, n : m = report'.method /\ n = Len(code)
    OBVIOUS
  <2>4. /\ Analysed(m, n) /\ m.code = code /\ m.handlers = handlers /\ report'.ir = BuildIr(m)
        /\ m.declared \in Declarations
    BY <1>1, <2>1, <2>3, ReportIs DEF BytecodeInvariant, MethodOK
  <2>5. \A h \in m.handlers : h.at \in 1 .. n
    BY <1>1, <2>3, <2>4 DEF BytecodeInvariant, MethodOK
  <2>6. ASSUME StatementWise(m), ~report'.ir.unsupported, LocalsKeepTheirWidth(m)
        PROVE  Matches(m, pc', stack')
    <3>1. Lowerable(m, n)
      BY <1>1, <2>4, <2>5, <2>6 DEF Lowerable, BytecodeInvariant, MethodOK
    <3>2. 1 \in 1 .. n /\ m.at[1] = 0 /\ 0 \in m.leaders
      <4>1. 0 \in m.leaders
        BY <2>4, LeadersAreOffsets
      <4> QED BY <2>4, <4>1 DEF Analysed, DecodedAs
    <3>3. Matches(m, 1, <<>>)
      BY <3>1, <3>2, BlockEntered
    <3> QED BY <2>1, <2>2, <3>3
  <2> QED BY <2>3, <2>6 DEF StackOK
<1>4. CASE Execute \/ Throw
  <2>1. report # NoReport /\ Verified /\ Executable(code[pc].op, stack)
        /\ UNCHANGED <<code, handlers, report>>
    BY <1>4 DEF Execute, Throw
  <2>2. PICK m, n : m = report.method /\ n = Len(code)
    OBVIOUS
  <2>3. /\ Analysed(m, n) /\ m.code = code /\ m.handlers = handlers
        /\ DOMAIN code = 1 .. n /\ pc \in 1 .. n
        /\ StatementWise(m) /\ ~report.ir.unsupported /\ LocalsKeepTheirWidth(m) =>
             Lowerable(m, n)
    BY <1>1, <2>1, <2>2, MethodIs
  <2>4. SUFFICES ASSUME StatementWise(m), ~report.ir.unsupported, LocalsKeepTheirWidth(m)
                 PROVE  Matches(m, pc', stack')
    BY <2>1, <2>2 DEF StackOK
  <2>5. Lowerable(m, n) /\ Matches(m, pc, stack)
    BY <1>1, <2>1, <2>2, <2>3, <2>4 DEF StackOK
  <2>6. CASE Execute
    <3>1. pc' \in NextPcs(pc) /\ pc' \in 1 .. n /\ stack' = After(code[pc].op, stack, m.at[pc])
      BY <2>2, <2>3, <2>6 DEF Execute
    <3>2. /\ code[pc].op \notin Subroutines
          /\ pc = n \/ m.at[pc + 1] \in m.leaders => stack' = <<>>
          /\ pc + 1 \in 1 .. n /\ m.at[pc + 1] \notin m.leaders => Matches(m, pc + 1, stack')
      <4>1. PICK op, s, i, z :
              op = m.code[pc].op /\ s = stack /\ i = pc /\ z = After(op, s, m.at[i])
        OBVIOUS
      <4>2. /\ op = m.code[i].op /\ i \in 1 .. n /\ Lowerable(m, n)
            /\ Matches(m, i, s) /\ Executable(op, s)
        BY <2>1, <2>3, <2>5, <4>1
      <4>3. /\ op \notin Subroutines
            /\ i = n \/ m.at[i + 1] \in m.leaders => z = <<>>
            /\ i + 1 \in 1 .. n /\ m.at[i + 1] \notin m.leaders => Matches(m, i + 1, z)
        BY <4>1, <4>2, OperandsMatch
      <4>4. op = code[pc].op /\ z = stack' /\ i = pc
        BY <2>3, <3>1, <4>1
      <4> QED BY <4>3, <4>4
    <3>3. \/ pc' = pc + 1 /\ m.at[pc'] \notin m.leaders
          \/ m.at[pc'] \in m.leaders /\ (pc = n \/ m.at[pc + 1] \in m.leaders)
      BY <2>1, <2>3, <3>1, <3>2, GoesOn
    <3>4. CASE pc' = pc + 1 /\ m.at[pc'] \notin m.leaders
      BY <3>1, <3>2, <3>4
    <3>5. CASE m.at[pc'] \in m.leaders /\ (pc = n \/ m.at[pc + 1] \in m.leaders)
      BY <2>5, <3>1, <3>2, <3>5, BlockEntered
    <3> QED BY <3>3, <3>4, <3>5
  <2>7. CASE Throw
    <3>1. PICK h \in handlers : pc' = h.at /\ stack' = <<Caught(m.at[h.at])>>
      BY <2>2, <2>7 DEF Throw
    <3>2. h \in m.handlers /\ h.at \in 1 .. n
      BY <1>1, <2>2, <2>3 DEF BytecodeInvariant, MethodOK
    <3>3. m.at[h.at] \in m.leaders
      BY <2>3, <3>2, HandlerLeads
    <3>4. m.at[h.at] \in HandlerStarts(m)
      BY <3>2 DEF HandlerStarts
    <3> QED BY <2>5, <3>1, <3>2, <3>3, <3>4, BlockEntered
  <2> QED BY <1>4, <2>6, <2>7
<1>5. CASE UNCHANGED vars
  BY <1>1, <1>5 DEF vars, StackOK
<1> QED BY <1>2, <1>3, <1>4, <1>5 DEF Next

\* The operands that the IR gives an instruction are those of the execution.
LEMMA OperandsAreExecuted == IrInvariant => IrOperandsAreExecuted
<1> SUFFICES ASSUME IrInvariant, Running PROVE
      /\ ~ report.ir.lost /\ DOMAIN report.ir.used = Offsets(report.method)
      /\ StatementWise(report.method) /\ ~ report.ir.unsupported
           /\ LocalsKeepTheirWidth(report.method) /\ Executable(code[pc].op, stack)
         => report.ir.used[report.method.at[pc]] = Operands(code[pc].op, stack)
  BY DEF IrOperandsAreExecuted, OperandsAgree
<1>1. BytecodeInvariant /\ StackOK /\ report # NoReport
  BY DEF IrInvariant, Running
<1>2. PICK m, n : m = report.method /\ n = Len(code)
  OBVIOUS
<1>3. /\ Analysed(m, n) /\ m.code = code /\ m.handlers = handlers /\ report.ir = BuildIr(m)
      /\ code \in Seq(Instructions) /\ n \in Nat /\ pc \in 1 .. n
      /\ m.declared \in Declarations
      /\ StatementWise(m) /\ ~report.ir.unsupported /\ LocalsKeepTheirWidth(m) =>
           Lowerable(m, n)
  BY <1>1, <1>2, MethodIs
<1>4. report.ir.lost = FALSE /\ DOMAIN report.ir.used = Offsets(m)
  <2>1. DecodedAs(m, n) /\ m.code \in Seq(Instructions) /\ m.declared \in Declarations
    BY <1>3 DEF Analysed
  <2>2. PICK f : LoweredBy(f, m, n) /\ report.ir = f[n]
    BY <1>3, <2>1, IrIs
  <2>3. LoweredTo(m, f[n], n + 1)
    <3>1. n \in 0 .. n
      BY <1>3
    <3> QED BY <2>1, <2>2, <3>1, LoweringVisits
  <2>4. (n + 1) - 1 = n
    BY <1>3
  <2>5. DOMAIN report.ir.used = {m.at[i] : i \in 1 .. n} /\ report.ir.lost = FALSE
    BY <2>2, <2>3, <2>4 DEF LoweredTo
  <2> QED BY <1>3, <2>5, LeadersAreOffsets
<1>5. ASSUME StatementWise(m), ~report.ir.unsupported, LocalsKeepTheirWidth(m),
             Executable(code[pc].op, stack)
      PROVE  report.ir.used[m.at[pc]] = Operands(code[pc].op, stack)
  <2>1. Lowerable(m, n) /\ Matches(m, pc, stack)
    BY <1>1, <1>2, <1>3, <1>5 DEF StackOK
  <2> QED BY <1>3, <1>5, <2>1, OperandsMatch
<1> QED BY <1>2, <1>4, <1>5

\* Lowering visits the instructions that were decoded, and the operands that the
\* IR gives an instruction are those of every execution.
THEOREM IrFollowsExecutions == Spec => []IrOperandsAreExecuted
<1> QED BY IrStart, IrStep, OperandsAreExecuted, PTL DEF Spec
===========================================================================
