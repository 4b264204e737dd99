-------------------------- MODULE PlayLoop_proofs --------------------------
(***************************************************************************)
(* Proofs about a connection from its first packet to the end of the Play  *)
(* loop, for any server configuration, limits, view and places: what a     *)
(* client sends never parts the ProtocolSession from the handler; a        *)
(* conforming client understands what it is sent; it is shown the view     *)
(* and the place that the loop and the game state have for it; and, while  *)
(* the limits leave it room, the server never ends its connection with an  *)
(* error.                                                                  *)
(***************************************************************************)
EXTENDS PlayLoop, SequenceTheorems, FiniteSetTheorems, NaturalsInduction, WellFoundedInduction,
        TLAPS

IsSequence(q) == \E S : q \in Seq(S)

---------------------------------------------------------------------------
(* Sequences that are read at the head and appended to at the tail.        *)

\* One more at the tail.
LEMMA AppendFacts ==
  ASSUME NEW q, IsSequence(q), NEW p
  PROVE  /\ IsSequence(Append(q, p)) /\ q \o <<p>> = Append(q, p)
         /\ Len(q) \in Nat /\ Len(Append(q, p)) = Len(q) + 1
         /\ \A i \in 1 .. Len(q) : Append(q, p)[i] = q[i]
         /\ Append(q, p)[Len(q) + 1] = p /\ Append(q, p) # <<>>
         /\ DOMAIN q = 1 .. Len(q) /\ DOMAIN Append(q, p) = 1 .. Len(q) + 1
<1>1. PICK S : q \in Seq(S)
  BY DEF IsSequence
<1>2. q \in Seq(S \cup {p}) /\ p \in S \cup {p}
  BY <1>1
<1> QED BY <1>2, AppendProperties, AppendIsConcat, LenProperties DEF IsSequence

\* Two sequences of one are a sequence of two.
LEMMA PairConcat ==
  ASSUME NEW a, NEW b
  PROVE  <<a>> \o <<b>> = <<a, b>>
<1>1. PICK T : T = {a, b}
  OBVIOUS
<1>2. <<a>> \in Seq(T) /\ Len(<<a>>) = 1 /\ <<a>>[1] = a /\ <<b>> \in Seq(T) /\ b \in T
  BY <1>1
<1>3. <<a>> \o <<b>> = Append(<<a>>, b)
  BY <1>2, AppendIsConcat
<1>4. /\ Append(<<a>>, b) \in Seq(T) /\ Len(Append(<<a>>, b)) = 2
      /\ Append(<<a>>, b)[1] = a /\ Append(<<a>>, b)[2] = b
  BY <1>2, AppendProperties
<1>5. <<a, b>> \in Seq(T) /\ Len(<<a, b>>) = 2 /\ <<a, b>>[1] = a /\ <<a, b>>[2] = b
  BY <1>1
<1>6. \A i \in 1 .. 2 : Append(<<a>>, b)[i] = <<a, b>>[i]
  BY <1>4, <1>5
<1>7. Append(<<a>>, b) = <<a, b>>
  BY <1>4, <1>5, <1>6, SeqEqual
<1> QED BY <1>3, <1>7

\* Two more, and none.
LEMMA ConcatFacts ==
  ASSUME NEW q, IsSequence(q)
  PROVE  /\ q \o <<>> = q
         /\ \A a, b : q \o <<a, b>> = Append(Append(q, a), b)
<1>1. PICK S : q \in Seq(S)
  BY DEF IsSequence
<1>2. q \o <<>> = q
  BY <1>1, ConcatEmptySeq
<1>3. ASSUME NEW a, NEW b PROVE q \o <<a, b>> = Append(Append(q, a), b)
  <2>1. PICK T : T = S \cup {a, b}
    OBVIOUS
  <2>2. q \in Seq(T) /\ <<a>> \in Seq(T) /\ <<b>> \in Seq(T) /\ a \in T /\ b \in T
    BY <1>1, <2>1
  <2>3. (q \o <<a>>) \o <<b>> = q \o (<<a>> \o <<b>>)
    BY <2>2, ConcatAssociative
  <2>4. <<a>> \o <<b>> = <<a, b>>
    BY PairConcat
  <2> QED BY <2>2, <2>3, <2>4, AppendIsConcat, AppendProperties
<1> QED BY <1>2, <1>3

\* One less at the head.
LEMMA TailFacts ==
  ASSUME NEW q, IsSequence(q), q # <<>>
  PROVE  /\ IsSequence(Tail(q)) /\ Len(q) \in Nat /\ Len(q) >= 1
         /\ Len(Tail(q)) = Len(q) - 1
         /\ Len(Tail(q)) \in Nat /\ Len(q) = Len(Tail(q)) + 1
         /\ \A i \in 1 .. (Len(q) - 1) : Tail(q)[i] = q[i + 1]
         /\ DOMAIN q = 1 .. Len(q) /\ DOMAIN Tail(q) = 1 .. (Len(q) - 1)
<1>1. PICK S : q \in Seq(S)
  BY DEF IsSequence
<1>2. Tail(q) \in Seq(S) /\ Len(Tail(q)) = Len(q) - 1
  BY <1>1, HeadTailProperties
<1>3. Len(q) \in Nat \ {0}
  BY <1>1, EmptySeq
<1>4. \A i \in 1 .. Len(Tail(q)) : Tail(q)[i] = q[i + 1]
  BY <1>1, HeadTailProperties
<1> QED BY <1>1, <1>2, <1>3, <1>4, LenProperties DEF IsSequence

\* Nothing is a sequence, too.
LEMMA NoneFacts == IsSequence(<<>>) /\ Len(<<>>) = 0 /\ DOMAIN <<>> = {}
<1>1. <<>> \in Seq({})
  OBVIOUS
<1> QED BY <1>1 DEF IsSequence

\* What holds of all packets holds of those left, and of one more if of that.
Every(q, K) == \A i \in 1 .. Len(q) : q[i].kind \in K
\* Every packet of a kind, once the first is read or one more is sent.
LEMMA EveryFacts ==
  ASSUME NEW q, IsSequence(q), NEW K, Every(q, K)
  PROVE  /\ q # <<>> => Every(Tail(q), K) /\ q[1].kind \in K
         /\ \A p : p.kind \in K => Every(Append(q, p), K)
<1>1. ASSUME q # <<>> PROVE Every(Tail(q), K) /\ q[1].kind \in K
  <2>1. Len(q) \in Nat /\ Len(q) >= 1 /\ Len(Tail(q)) = Len(q) - 1
        /\ \A i \in 1 .. (Len(q) - 1) : Tail(q)[i] = q[i + 1]
    BY <1>1, TailFacts
  <2> QED BY <2>1 DEF Every
<1>2. ASSUME NEW p, p.kind \in K PROVE Every(Append(q, p), K)
  <2>1. /\ Len(q) \in Nat /\ Len(Append(q, p)) = Len(q) + 1
        /\ \A i \in 1 .. Len(q) : Append(q, p)[i] = q[i]
        /\ Append(q, p)[Len(q) + 1] = p
    BY AppendFacts
  <2>2. ASSUME NEW i \in 1 .. (Len(q) + 1) PROVE Append(q, p)[i].kind \in K
    <3>1. CASE i = Len(q) + 1
      BY <1>2, <2>1, <3>1
    <3>2. CASE i # Len(q) + 1
      BY <2>1, <3>2 DEF Every
    <3> QED BY <3>1, <3>2
  <2> QED BY <2>1, <2>2 DEF Every
<1> QED BY <1>1, <1>2

---------------------------------------------------------------------------
(* What the packets on their way make of a state that each of them changes: *)
(* the trace of the states between them.                                    *)

\* The view, once all packets have come.
ShownBy(v, p) == IF p.kind = "View" THEN ShownAll(v, p.parts) ELSE v
Arrives(q, v, x) ==
  \E t : t[0] = v /\ t[Len(q)] = x /\ \A i \in 1 .. Len(q) : t[i] = ShownBy(t[i - 1], q[i])

\* Where the walk of the moves on their way leads, if each of its legs is in R.
WalkedBy(f, p) == IF p.kind = "Move" THEN p.n ELSE f
Leads(q, f, x, R) ==
  \E t : /\ t[0] = f /\ t[Len(q)] = x
         /\ \A i \in 1 .. Len(q) :
              t[i] = WalkedBy(t[i - 1], q[i]) /\ <<t[i - 1], t[i]>> \in R

\* What a life becomes, if each of its changes is in R.
Becomes(q, s, x, R) ==
  \E t : /\ t[0] = s /\ t[Len(q)] = x
         /\ \A i \in 1 .. Len(q) : <<t[i - 1], q[i].kind, t[i]>> \in R

\* Nothing on its way changes nothing.
LEMMA NothingArrives ==
  ASSUME NEW v, NEW R
  PROVE  Arrives(<<>>, v, v) /\ Leads(<<>>, v, v, R) /\ Becomes(<<>>, v, v, R)
<1>1. PICK t : t = [i \in {0} |-> v]
  OBVIOUS
<1>2. t[0] = v /\ t[Len(<<>>)] = v /\ 1 .. Len(<<>>) = {}
  BY <1>1, NoneFacts
<1> QED BY <1>2 DEF Arrives, Leads, Becomes

\* One more packet changes what those before it have made.
LEMMA ArrivesAppended ==
  ASSUME NEW q, IsSequence(q), NEW v, NEW x, NEW p, Arrives(q, v, x)
  PROVE  Arrives(Append(q, p), v, ShownBy(x, p))
<1>1. PICK t : /\ t[0] = v /\ t[Len(q)] = x
               /\ \A i \in 1 .. Len(q) : t[i] = ShownBy(t[i - 1], q[i])
  BY DEF Arrives
<1>2. /\ Len(q) \in Nat /\ Len(Append(q, p)) = Len(q) + 1
      /\ \A i \in 1 .. Len(q) : Append(q, p)[i] = q[i]
      /\ Append(q, p)[Len(q) + 1] = p
  BY AppendFacts
<1>3. PICK n \in Nat : n = Len(q)
  BY <1>2
<1>4. PICK y : y = ShownBy(x, p)
  OBVIOUS
<1>5. PICK u : u = [i \in 0 .. (n + 1) |-> IF i <= n THEN t[i] ELSE y]
  OBVIOUS
<1>6. u[0] = v /\ u[n + 1] = y /\ u[n] = x /\ \A i \in 0 .. n : u[i] = t[i]
  BY <1>1, <1>3, <1>5
<1>7. ASSUME NEW i \in 1 .. (n + 1) PROVE u[i] = ShownBy(u[i - 1], Append(q, p)[i])
  <2>1. CASE i = n + 1
    BY <1>2, <1>3, <1>4, <1>6, <2>1
  <2>2. CASE i # n + 1
    <3>1. i \in 1 .. n /\ i - 1 \in 0 .. n /\ i \in 0 .. n
      BY <2>2
    <3> QED BY <1>1, <1>2, <1>3, <1>6, <3>1
  <2> QED BY <2>1, <2>2
<1> QED BY <1>2, <1>3, <1>4, <1>6, <1>7 DEF Arrives

\* One more leg of the walk.
LEMMA LeadsAppended ==
  ASSUME NEW q, IsSequence(q), NEW f, NEW x, NEW R, NEW p, Leads(q, f, x, R),
         <<x, WalkedBy(x, p)>> \in R
  PROVE  Leads(Append(q, p), f, WalkedBy(x, p), R)
<1>1. PICK t : /\ t[0] = f /\ t[Len(q)] = x
               /\ \A i \in 1 .. Len(q) :
                    t[i] = WalkedBy(t[i - 1], q[i]) /\ <<t[i - 1], t[i]>> \in R
  BY DEF Leads
<1>2. /\ Len(q) \in Nat /\ Len(Append(q, p)) = Len(q) + 1
      /\ \A i \in 1 .. Len(q) : Append(q, p)[i] = q[i]
      /\ Append(q, p)[Len(q) + 1] = p
  BY AppendFacts
<1>3. PICK n \in Nat : n = Len(q)
  BY <1>2
<1>4. PICK y : y = WalkedBy(x, p)
  OBVIOUS
<1>5. PICK u : u = [i \in 0 .. (n + 1) |-> IF i <= n THEN t[i] ELSE y]
  OBVIOUS
<1>6. u[0] = f /\ u[n + 1] = y /\ u[n] = x /\ \A i \in 0 .. n : u[i] = t[i]
  BY <1>1, <1>3, <1>5
<1>7. ASSUME NEW i \in 1 .. (n + 1)
      PROVE  u[i] = WalkedBy(u[i - 1], Append(q, p)[i]) /\ <<u[i - 1], u[i]>> \in R
  <2>1. CASE i = n + 1
    BY <1>2, <1>3, <1>4, <1>6, <2>1
  <2>2. CASE i # n + 1
    <3>1. i \in 1 .. n /\ i - 1 \in 0 .. n /\ i \in 0 .. n
      BY <2>2
    <3> QED BY <1>1, <1>2, <1>3, <1>6, <3>1
  <2> QED BY <2>1, <2>2
<1> QED BY <1>2, <1>3, <1>4, <1>6, <1>7 DEF Leads

\* One more change of a life.
LEMMA BecomesAppended ==
  ASSUME NEW q, IsSequence(q), NEW s, NEW x, NEW y, NEW R, NEW p, Becomes(q, s, x, R),
         <<x, p.kind, y>> \in R
  PROVE  Becomes(Append(q, p), s, y, R)
<1>1. PICK t : /\ t[0] = s /\ t[Len(q)] = x
               /\ \A i \in 1 .. Len(q) : <<t[i - 1], q[i].kind, t[i]>> \in R
  BY DEF Becomes
<1>2. /\ Len(q) \in Nat /\ Len(Append(q, p)) = Len(q) + 1
      /\ \A i \in 1 .. Len(q) : Append(q, p)[i] = q[i]
      /\ Append(q, p)[Len(q) + 1] = p
  BY AppendFacts
<1>3. PICK n \in Nat : n = Len(q)
  BY <1>2
<1>5. PICK u : u = [i \in 0 .. (n + 1) |-> IF i <= n THEN t[i] ELSE y]
  OBVIOUS
<1>6. u[0] = s /\ u[n + 1] = y /\ u[n] = x /\ \A i \in 0 .. n : u[i] = t[i]
  BY <1>1, <1>3, <1>5
<1>7. ASSUME NEW i \in 1 .. (n + 1) PROVE <<u[i - 1], Append(q, p)[i].kind, u[i]>> \in R
  <2>1. CASE i = n + 1
    BY <1>2, <1>3, <1>6, <2>1
  <2>2. CASE i # n + 1
    <3>1. i \in 1 .. n /\ i - 1 \in 0 .. n /\ i \in 0 .. n
      BY <2>2
    <3> QED BY <1>1, <1>2, <1>3, <1>6, <3>1
  <2> QED BY <2>1, <2>2
<1> QED BY <1>2, <1>3, <1>6, <1>7 DEF Becomes

\* The first packet, once read, has changed where the others begin.
LEMMA ArrivesRead ==
  ASSUME NEW q, IsSequence(q), q # <<>>, NEW v, NEW x, Arrives(q, v, x)
  PROVE  Arrives(Tail(q), ShownBy(v, q[1]), x)
<1>1. PICK t : /\ t[0] = v /\ t[Len(q)] = x
               /\ \A i \in 1 .. Len(q) : t[i] = ShownBy(t[i - 1], q[i])
  BY DEF Arrives
<1>2. /\ Len(q) \in Nat /\ Len(q) >= 1 /\ Len(Tail(q)) = Len(q) - 1
      /\ Len(Tail(q)) \in Nat /\ Len(q) = Len(Tail(q)) + 1
      /\ \A i \in 1 .. (Len(q) - 1) : Tail(q)[i] = q[i + 1]
  BY TailFacts
<1>3. PICK n \in Nat : n = Len(Tail(q)) /\ Len(q) = n + 1
  BY <1>2
<1>4. PICK u : u = [i \in 0 .. n |-> t[i + 1]]
  OBVIOUS
<1>5. /\ u[0] = t[1] /\ t[1] = ShownBy(v, q[1]) /\ u[n] = x
      /\ \A i \in 0 .. n : u[i] = t[i + 1]
  BY <1>1, <1>3, <1>4
<1>6. ASSUME NEW i \in 1 .. n PROVE u[i] = ShownBy(u[i - 1], Tail(q)[i])
  <2>1. i + 1 \in 1 .. (n + 1) /\ (i + 1) - 1 = i /\ i - 1 \in 0 .. n /\ i \in 0 .. n
        /\ (i - 1) + 1 = i
    OBVIOUS
  <2> QED BY <1>1, <1>2, <1>3, <1>5, <2>1
<1> QED BY <1>2, <1>3, <1>5, <1>6 DEF Arrives

\* The walk after its first packet.
LEMMA LeadsRead ==
  ASSUME NEW q, IsSequence(q), q # <<>>, NEW f, NEW x, NEW R, Leads(q, f, x, R)
  PROVE  /\ Leads(Tail(q), WalkedBy(f, q[1]), x, R)
         /\ <<f, WalkedBy(f, q[1])>> \in R
<1>1. PICK t : /\ t[0] = f /\ t[Len(q)] = x
               /\ \A i \in 1 .. Len(q) :
                    t[i] = WalkedBy(t[i - 1], q[i]) /\ <<t[i - 1], t[i]>> \in R
  BY DEF Leads
<1>2. /\ Len(q) \in Nat /\ Len(q) >= 1 /\ Len(Tail(q)) = Len(q) - 1
      /\ Len(Tail(q)) \in Nat /\ Len(q) = Len(Tail(q)) + 1
      /\ \A i \in 1 .. (Len(q) - 1) : Tail(q)[i] = q[i + 1]
  BY TailFacts
<1>3. PICK n \in Nat : n = Len(Tail(q)) /\ Len(q) = n + 1
  BY <1>2
<1>4. PICK u : u = [i \in 0 .. n |-> t[i + 1]]
  OBVIOUS
<1>5. /\ u[0] = t[1] /\ t[1] = WalkedBy(f, q[1]) /\ <<f, t[1]>> \in R /\ u[n] = x
      /\ \A i \in 0 .. n : u[i] = t[i + 1]
  BY <1>1, <1>3, <1>4
<1>6. ASSUME NEW i \in 1 .. n
      PROVE  u[i] = WalkedBy(u[i - 1], Tail(q)[i]) /\ <<u[i - 1], u[i]>> \in R
  <2>1. i + 1 \in 1 .. (n + 1) /\ (i + 1) - 1 = i /\ i - 1 \in 0 .. n /\ i \in 0 .. n
        /\ (i - 1) + 1 = i
    OBVIOUS
  <2> QED BY <1>1, <1>2, <1>3, <1>5, <2>1
<1> QED BY <1>2, <1>3, <1>5, <1>6 DEF Leads

\* A life after its first change.
LEMMA BecomesRead ==
  ASSUME NEW q, IsSequence(q), q # <<>>, NEW s, NEW x, NEW R, Becomes(q, s, x, R)
  PROVE  \E y : <<s, q[1].kind, y>> \in R /\ Becomes(Tail(q), y, x, R)
<1>1. PICK t : /\ t[0] = s /\ t[Len(q)] = x
               /\ \A i \in 1 .. Len(q) : <<t[i - 1], q[i].kind, t[i]>> \in R
  BY DEF Becomes
<1>2. /\ Len(q) \in Nat /\ Len(q) >= 1 /\ Len(Tail(q)) = Len(q) - 1
      /\ Len(Tail(q)) \in Nat /\ Len(q) = Len(Tail(q)) + 1
      /\ \A i \in 1 .. (Len(q) - 1) : Tail(q)[i] = q[i + 1]
  BY TailFacts
<1>3. PICK n \in Nat : n = Len(Tail(q)) /\ Len(q) = n + 1
  BY <1>2
<1>4. PICK u : u = [i \in 0 .. n |-> t[i + 1]]
  OBVIOUS
<1>5. /\ u[0] = t[1] /\ <<s, q[1].kind, t[1]>> \in R /\ u[n] = x
      /\ \A i \in 0 .. n : u[i] = t[i + 1]
  BY <1>1, <1>3, <1>4
<1>6. ASSUME NEW i \in 1 .. n PROVE <<u[i - 1], Tail(q)[i].kind, u[i]>> \in R
  <2>1. i + 1 \in 1 .. (n + 1) /\ (i + 1) - 1 = i /\ i - 1 \in 0 .. n /\ i \in 0 .. n
        /\ (i - 1) + 1 = i
    OBVIOUS
  <2> QED BY <1>1, <1>2, <1>3, <1>5, <2>1
<1> QED BY <1>2, <1>3, <1>5, <1>6 DEF Becomes

\* What holds of no smallest index holds of none: two traces with the same
\* beginning and the same steps are the same.
LEMMA SmallestIndex ==
  ASSUME NEW T \in SUBSET Nat, T # {}
  PROVE  \E n \in T : \A m \in T : ~(m < n)
<1>1. PICK n \in T : \A m \in T : ~(<<m, n>> \in OpToRel(<, Nat))
  BY NatLessThanWellFounded, WFMin
<1>2. ASSUME NEW m \in T, m < n PROVE FALSE
  <2>1. m \in Nat /\ n \in Nat /\ <<m, n>> \notin OpToRel(<, Nat)
    BY <1>1
  <2> QED BY <1>2, <2>1, Zenon DEF OpToRel
<1> QED BY <1>2

Agree(t, g, n) == \A i \in 0 .. n : t[i] = g[i]
AgreeOn(t, g, n) == \A i \in 1 .. n : t[i - 1] = g[i - 1] => t[i] = g[i]
\* Two traces that begin together and step together stay together.
LEMMA SameTrace ==
  ASSUME NEW n \in Nat, NEW t, NEW g, t[0] = g[0], AgreeOn(t, g, n)
  PROVE  Agree(t, g, n)
<1>1. SUFFICES ASSUME NEW k \in 0 .. n, t[k] # g[k] PROVE FALSE
  BY DEF Agree
<1>2. PICK T : T = {i \in 0 .. n : t[i] # g[i]}
  OBVIOUS
<1>3. T \in SUBSET Nat /\ T # {}
  BY <1>1, <1>2
<1>4. PICK m \in T : \A i \in T : ~(i < m)
  BY <1>3, SmallestIndex
<1>5. m \in 0 .. n /\ m # 0 /\ t[m] # g[m]
  BY <1>2
<1>6. m \in 1 .. n /\ m - 1 \in 0 .. n /\ m - 1 < m
  BY <1>5
<1>7. t[m - 1] = g[m - 1]
  BY <1>2, <1>4, <1>6
<1> QED BY <1>5, <1>6, <1>7 DEF AgreeOn

\* The trace of the packets on their way is the recursive function.
LEMMA ArrivingIsTheLast ==
  ASSUME NEW q, Len(q) \in Nat, NEW v, NEW x, Arrives(q, v, x)
  PROVE  Arriving(v, q) = x
<1>1. PICK t : /\ t[0] = v /\ t[Len(q)] = x
               /\ \A i \in 1 .. Len(q) : t[i] = ShownBy(t[i - 1], q[i])
  BY DEF Arrives
<1>2. PICK n \in Nat : n = Len(q)
  OBVIOUS
<1> DEFINE F(f) == [i \in 0 .. n |->
                      IF i = 0 THEN v
                      ELSE IF q[i].kind = "View" THEN ShownAll(f[i - 1], q[i].parts)
                      ELSE f[i - 1]]
<1>3. PICK u : u = [i \in 0 .. n |-> t[i]]
  OBVIOUS
<1>4. u = F(u)
  <2>1. ASSUME NEW i \in 0 .. n PROVE u[i] = F(u)[i]
    <3>1. CASE i = 0
      BY <1>1, <1>3, <3>1
    <3>2. CASE i # 0
      <4>1. i \in 1 .. n /\ i - 1 \in 0 .. n
        BY <3>2
      <4> QED BY <1>1, <1>2, <1>3, <3>2, <4>1 DEF ShownBy
    <3> QED BY <3>1, <3>2
  <2> QED BY <1>3, <2>1
<1>5. PICK g : g = CHOOSE f : f = F(f)
  OBVIOUS
<1>6. g = F(g)
  BY <1>4, <1>5
<1>7. Arriving(v, q) = g[n]
  BY <1>2, <1>5 DEF Arriving
<1>8. ASSUME NEW i \in 1 .. n, t[i - 1] = g[i - 1] PROVE t[i] = g[i]
  <2>1. i \in 0 .. n /\ i # 0
    OBVIOUS
  <2>2. g[i] = ShownBy(g[i - 1], q[i])
    BY <1>6, <2>1 DEF ShownBy
  <2> QED BY <1>1, <1>2, <1>8, <2>2
<1>9. t[0] = g[0]
  BY <1>1, <1>6
<1> HIDE DEF F
<1>10. AgreeOn(t, g, n)
  BY <1>8 DEF AgreeOn
<1>11. Agree(t, g, n)
  BY <1>9, <1>10, SameTrace
<1> QED BY <1>1, <1>2, <1>7, <1>11 DEF Agree

\* So is that of the parts of one packet.
LEMMA ShownAllIsTheLast ==
  ASSUME NEW n \in Nat, NEW parts, Len(parts) = n, NEW v, NEW t, t[0] = v,
         \A i \in 1 .. n : t[i] = Shown(t[i - 1], parts[i])
  PROVE  ShownAll(v, parts) = t[n]
<1> DEFINE F(f) == [i \in 0 .. n |-> IF i = 0 THEN v ELSE Shown(f[i - 1], parts[i])]
<1>3. PICK u : u = [i \in 0 .. n |-> t[i]]
  OBVIOUS
<1>4. u = F(u)
  <2>1. ASSUME NEW i \in 0 .. n PROVE u[i] = F(u)[i]
    <3>1. CASE i = 0
      BY <1>3, <3>1
    <3>2. CASE i # 0
      <4>1. i \in 1 .. n /\ i - 1 \in 0 .. n
        BY <3>2
      <4> QED BY <1>3, <3>2, <4>1
    <3> QED BY <3>1, <3>2
  <2> QED BY <1>3, <2>1
<1>5. PICK g : g = CHOOSE f : f = F(f)
  OBVIOUS
<1>6. g = F(g)
  BY <1>4, <1>5
<1>7. ShownAll(v, parts) = g[n]
  BY <1>5 DEF ShownAll
<1>8. ASSUME NEW i \in 1 .. n, t[i - 1] = g[i - 1] PROVE t[i] = g[i]
  <2>1. i \in 0 .. n /\ i # 0
    OBVIOUS
  <2>2. g[i] = Shown(g[i - 1], parts[i])
    BY <1>6, <2>1
  <2> QED BY <1>8, <2>2
<1>9. t[0] = g[0]
  BY <1>6
<1> HIDE DEF F
<1>10. AgreeOn(t, g, n)
  BY <1>8 DEF AgreeOn
<1>11. Agree(t, g, n)
  BY <1>9, <1>10, SameTrace
<1> QED BY <1>7, <1>11 DEF Agree

---------------------------------------------------------------------------
(* What a change of the view shows.                                        *)

\* A finite set, in some order.
Lists(q, n, S) ==
  /\ Len(q) = n /\ q \in Seq(S)
  /\ \A i \in 1 .. n : q[i] \in S
  /\ \A x \in S : \E i \in 1 .. n : q[i] = x
\* A finite set has such a list.
LEMMA SetToSeqFacts ==
  ASSUME NEW S, IsFiniteSet(S)
  PROVE  \E n \in Nat : Lists(SetToSeq(S), n, S)
<1>1. PICK n \in Nat : n = Cardinality(S) /\ ExistsBijection(1 .. n, S)
  BY FS_CardinalityType
<1>2. PICK f \in [1 .. n -> S] : IsInjective(f)
  BY <1>1 DEF ExistsBijection, Bijection, Injection
<1>3. PICK q : q = SetToSeq(S)
  OBVIOUS
<1>4. q \in [1 .. n -> S] /\ IsInjective(q)
  BY <1>1, <1>2, <1>3 DEF SetToSeq
<1>5. q \in Injection(1 .. n, S)
  BY <1>4 DEF Injection
<1>6. IsFiniteSet(1 .. n) /\ Cardinality(1 .. n) = n
  BY FS_Interval
<1>7. q \in Surjection(1 .. n, S)
  BY <1>1, <1>5, <1>6, FS_Injection
<1>8. \A x \in S : \E i \in 1 .. n : q[i] = x
  BY <1>7 DEF Surjection
<1>9. q \in Seq(S) /\ Len(q) = n /\ \A i \in 1 .. n : q[i] \in S
  BY <1>4
<1> QED BY <1>3, <1>8, <1>9 DEF Lists

Shows(parts, v, x) ==
  \E t : /\ t[0] = v /\ t[Len(parts)] = x
         /\ \A i \in 1 .. Len(parts) : t[i] = Shown(t[i - 1], parts[i])

\* The parts of one packet, after those before them.
LEMMA ShowsConcat ==
  ASSUME NEW p, IsSequence(p), NEW q, IsSequence(q), NEW v, NEW x, NEW y,
         Shows(p, v, x), Shows(q, x, y)
  PROVE  IsSequence(p \o q) /\ Shows(p \o q, v, y)
<1>1. PICK S, T : p \in Seq(S) /\ q \in Seq(T)
  BY DEF IsSequence
<1>2. p \in Seq(S \cup T) /\ q \in Seq(S \cup T)
  BY <1>1
<1>3. PICK m \in Nat, n \in Nat : m = Len(p) /\ n = Len(q)
  BY <1>1
<1>4. /\ p \o q \in Seq(S \cup T) /\ Len(p \o q) = m + n
      /\ \A i \in 1 .. (m + n) : (p \o q)[i] = IF i <= m THEN p[i] ELSE q[i - m]
  BY <1>2, <1>3, ConcatProperties
<1>5. PICK t : t[0] = v /\ t[m] = x /\ \A i \in 1 .. m : t[i] = Shown(t[i - 1], p[i])
  BY <1>3 DEF Shows
<1>6. PICK u : u[0] = x /\ u[n] = y /\ \A i \in 1 .. n : u[i] = Shown(u[i - 1], q[i])
  BY <1>3 DEF Shows
<1>7. PICK w : w = [i \in 0 .. (m + n) |-> IF i <= m THEN t[i] ELSE u[i - m]]
  OBVIOUS
<1>8. /\ \A i \in 0 .. m : w[i] = t[i]
      /\ \A i \in 0 .. n : w[m + i] = u[i]
  <2>1. ASSUME NEW i \in 0 .. m PROVE w[i] = t[i]
    BY <1>7
  <2>2. ASSUME NEW i \in 0 .. n PROVE w[m + i] = u[i]
    <3>1. CASE i = 0
      BY <1>5, <1>6, <1>7, <3>1
    <3>2. CASE i # 0
      <4>1. m + i \in 0 .. (m + n) /\ ~(m + i <= m) /\ (m + i) - m = i
        BY <3>2
      <4> QED BY <1>7, <4>1
    <3> QED BY <3>1, <3>2
  <2> QED BY <2>1, <2>2
<1>9. w[0] = v /\ w[m + n] = y
  BY <1>5, <1>6, <1>8
<1>10. ASSUME NEW i \in 1 .. (m + n) PROVE w[i] = Shown(w[i - 1], (p \o q)[i])
  <2>1. CASE i <= m
    <3>1. i \in 1 .. m /\ i \in 0 .. m /\ i - 1 \in 0 .. m
      BY <2>1
    <3> QED BY <1>4, <1>5, <1>8, <2>1, <3>1
  <2>2. CASE ~(i <= m)
    <3>1. PICK j \in 1 .. n : j = i - m /\ i = m + j /\ i - 1 = m + (j - 1) /\ j - 1 \in 0 .. n
      BY <2>2
    <3>2. w[i] = u[j] /\ w[i - 1] = u[j - 1] /\ (p \o q)[i] = q[j]
      BY <1>4, <1>8, <2>2, <3>1
    <3> QED BY <1>6, <3>1, <3>2
  <2> QED BY <2>1, <2>2
<1>11. IsSequence(p \o q)
  BY <1>4 DEF IsSequence
<1> QED BY <1>4, <1>9, <1>10, <1>11 DEF Shows

\* A new center, and none.
LEMMA ShowsCenter ==
  ASSUME NEW v, NEW c
  PROVE  /\ IsSequence(<<>>) /\ Shows(<<>>, v, v)
         /\ IsSequence(<<Packet("Center", c)>>)
         /\ Shows(<<Packet("Center", c)>>, v, [center |-> c, chunks |-> v.chunks \cap Around(c)])
<1>1. PICK s : s = Packet("Center", c)
  OBVIOUS
<1>2. s.kind = "Center" /\ s.n = c
  BY <1>1 DEF Packet
<1>3. /\ IsSequence(<<s>>) /\ Len(<<s>>) = 1 /\ <<s>>[1] = s
      /\ IsSequence(<<>>) /\ Len(<<>>) = 0
  <2>1. \A a : <<a>> \in Seq({a})
    OBVIOUS
  <2> QED BY <2>1, NoneFacts DEF IsSequence
<1>4. PICK x : x = [center |-> c, chunks |-> v.chunks \cap Around(c)]
  OBVIOUS
<1>5. x = Shown(v, s)
  BY <1>2, <1>4 DEF Shown
<1>6. PICK t : t = [i \in {0, 1} |-> IF i = 0 THEN v ELSE x]
  OBVIOUS
<1>7. /\ t[0] = v /\ t[1] = x
      /\ \A i \in 1 .. 1 : i = 1 /\ i - 1 = 0
  BY <1>6
<1>8. Shows(<<s>>, v, x)
  BY <1>3, <1>5, <1>7 DEF Shows
<1>9. Shows(<<>>, v, v)
  BY <1>3, <1>7 DEF Shows
<1> QED BY <1>1, <1>3, <1>4, <1>8, <1>9

\* Chunks forgotten, in any order.
LEMMA ShowsForgets ==
  ASSUME NEW v, NEW c, NEW k, v = [center |-> c, chunks |-> k], NEW A, IsFiniteSet(A)
  PROVE  LET q == SetToSeq({Packet("Forget", x) : x \in A})
         IN  IsSequence(q) /\ Shows(q, v, [center |-> c, chunks |-> k \ A])
<1>1. PICK S : S = {Packet("Forget", x) : x \in A}
  OBVIOUS
<1>2. IsFiniteSet(S)
  <2>1. PICK f : f = [x \in A |-> Packet("Forget", x)]
    OBVIOUS
  <2>2. f \in Surjection(A, S)
    BY <1>1, <2>1 DEF Surjection
  <2> QED BY <2>2, FS_Surjection
<1>3. PICK q : q = SetToSeq(S)
  OBVIOUS
<1>4. PICK n \in Nat : Lists(q, n, S)
  BY <1>2, <1>3, SetToSeqFacts
<1>5. ASSUME NEW i \in 1 .. n PROVE q[i].kind = "Forget" /\ q[i].n \in A
  <2>1. PICK x \in A : q[i] = Packet("Forget", x)
    BY <1>1, <1>4 DEF Lists
  <2> QED BY <2>1 DEF Packet
<1>6. ASSUME NEW x \in A PROVE \E i \in 1 .. n : q[i].n = x
  <2>1. PICK y \in S : y = Packet("Forget", x)
    BY <1>1
  <2>2. PICK i \in 1 .. n : q[i] = y
    BY <1>4 DEF Lists
  <2> QED BY <2>1, <2>2 DEF Packet
<1> DEFINE Kept(i) == k \ {q[j].n : j \in 1 .. i}
<1>7. PICK t : t = [i \in 0 .. n |-> [center |-> c, chunks |-> Kept(i)]]
  OBVIOUS
<1>8. t[0] = v
  <2>1. Kept(0) = k
    OBVIOUS
  <2> HIDE DEF Kept
  <2> QED BY <1>7, <2>1
<1>9. t[n] = [center |-> c, chunks |-> k \ A]
  <2>1. {q[j].n : j \in 1 .. n} = A
    BY <1>5, <1>6
  <2>2. Kept(n) = k \ A
    BY <2>1
  <2> HIDE DEF Kept
  <2>3. n \in 0 .. n
    OBVIOUS
  <2>4. t[n] = [center |-> c, chunks |-> Kept(n)]
    BY <1>7, <2>3
  <2> QED BY <2>2, <2>4
<1>10. ASSUME NEW i \in 1 .. n PROVE t[i] = Shown(t[i - 1], q[i])
  <2>1. i - 1 \in 0 .. n /\ i \in 0 .. n /\ 1 .. i = (1 .. (i - 1)) \cup {i}
    OBVIOUS
  <2>2. Kept(i) = Kept(i - 1) \ {q[i].n}
    BY <2>1
  <2>3. /\ t[i] = [center |-> c, chunks |-> Kept(i)]
        /\ t[i - 1] = [center |-> c, chunks |-> Kept(i - 1)]
    BY <1>7, <2>1
  <2> HIDE DEF Kept
  <2>4. Shown(t[i - 1], q[i]) = [t[i - 1] EXCEPT !.chunks = @ \ {q[i].n}]
    BY <1>5 DEF Shown
  <2> QED BY <2>2, <2>3, <2>4
<1>11. IsSequence(q) /\ Len(q) = n
  BY <1>4 DEF IsSequence, Lists
<1>12. Shows(q, v, [center |-> c, chunks |-> k \ A])
  BY <1>8, <1>9, <1>10, <1>11 DEF Shows
<1> QED BY <1>1, <1>3, <1>11, <1>12

\* Chunks near enough, in any order.
LEMMA ShowsChunks ==
  ASSUME NEW v, NEW c, NEW k, v = [center |-> c, chunks |-> k], NEW A, IsFiniteSet(A),
         A \subseteq Around(c)
  PROVE  LET q == SetToSeq({Packet("Chunk", x) : x \in A})
         IN  IsSequence(q) /\ Shows(q, v, [center |-> c, chunks |-> k \cup A])
<1>1. PICK S : S = {Packet("Chunk", x) : x \in A}
  OBVIOUS
<1>2. IsFiniteSet(S)
  <2>1. PICK f : f = [x \in A |-> Packet("Chunk", x)]
    OBVIOUS
  <2>2. f \in Surjection(A, S)
    BY <1>1, <2>1 DEF Surjection
  <2> QED BY <2>2, FS_Surjection
<1>3. PICK q : q = SetToSeq(S)
  OBVIOUS
<1>4. PICK n \in Nat : Lists(q, n, S)
  BY <1>2, <1>3, SetToSeqFacts
<1>5. ASSUME NEW i \in 1 .. n PROVE q[i].kind = "Chunk" /\ q[i].n \in A
  <2>1. PICK x \in A : q[i] = Packet("Chunk", x)
    BY <1>1, <1>4 DEF Lists
  <2> QED BY <2>1 DEF Packet
<1>6. ASSUME NEW x \in A PROVE \E i \in 1 .. n : q[i].n = x
  <2>1. PICK y \in S : y = Packet("Chunk", x)
    BY <1>1
  <2>2. PICK i \in 1 .. n : q[i] = y
    BY <1>4 DEF Lists
  <2> QED BY <2>1, <2>2 DEF Packet
<1> DEFINE Kept(i) == k \cup {q[j].n : j \in 1 .. i}
<1>7. PICK t : t = [i \in 0 .. n |-> [center |-> c, chunks |-> Kept(i)]]
  OBVIOUS
<1>8. t[0] = v
  <2>1. Kept(0) = k
    OBVIOUS
  <2> HIDE DEF Kept
  <2> QED BY <1>7, <2>1
<1>9. t[n] = [center |-> c, chunks |-> k \cup A]
  <2>1. {q[j].n : j \in 1 .. n} = A
    BY <1>5, <1>6
  <2>2. Kept(n) = k \cup A
    BY <2>1
  <2> HIDE DEF Kept
  <2>3. n \in 0 .. n
    OBVIOUS
  <2>4. t[n] = [center |-> c, chunks |-> Kept(n)]
    BY <1>7, <2>3
  <2> QED BY <2>2, <2>4
<1>10. ASSUME NEW i \in 1 .. n PROVE t[i] = Shown(t[i - 1], q[i])
  <2>1. i - 1 \in 0 .. n /\ i \in 0 .. n /\ 1 .. i = (1 .. (i - 1)) \cup {i}
    OBVIOUS
  <2>2. Kept(i) = Kept(i - 1) \cup {q[i].n}
    BY <2>1
  <2>3. /\ t[i] = [center |-> c, chunks |-> Kept(i)]
        /\ t[i - 1] = [center |-> c, chunks |-> Kept(i - 1)]
    BY <1>7, <2>1
  <2> HIDE DEF Kept
  <2>4. Shown(t[i - 1], q[i])
          = [t[i - 1] EXCEPT !.chunks = @ \cup ({q[i].n} \cap Around(t[i - 1].center))]
    BY <1>5 DEF Shown
  <2>5. t[i - 1].center = c /\ {q[i].n} \cap Around(c) = {q[i].n}
    BY <1>5, <2>3
  <2>6. Shown(t[i - 1], q[i]) = [t[i - 1] EXCEPT !.chunks = @ \cup {q[i].n}]
    BY <2>4, <2>5
  <2> QED BY <2>2, <2>3, <2>6
<1>11. IsSequence(q) /\ Len(q) = n
  BY <1>4 DEF IsSequence, Lists
<1>12. Shows(q, v, [center |-> c, chunks |-> k \cup A])
  BY <1>8, <1>9, <1>10, <1>11 DEF Shows
<1> QED BY <1>1, <1>3, <1>11, <1>12

\* Whatever the loop counts as loaded, a change of the view shows what it
\* counts as loaded afterwards.
LEMMA DeltaShows ==
  ASSUME NEW l, IsFiniteSet(l.loaded), NEW c \in Int
  PROVE  /\ Delta(l, c).kind = "View"
         /\ ShownAll([center |-> l.center, chunks |-> l.loaded], Delta(l, c).parts)
              = [center |-> c, chunks |-> Around(c)]
<1>1. PICK v : v = [center |-> l.center, chunks |-> l.loaded]
  OBVIOUS
<1>2. PICK k : k = IF c # l.center THEN l.loaded \cap Around(c) ELSE l.loaded
  OBVIOUS
<1>3. PICK A, N : A = l.loaded \ Around(c) /\ N = Around(c) \ l.loaded
  OBVIOUS
<1>4. PICK p : p = IF c # l.center THEN <<Packet("Center", c)>> ELSE <<>>
  OBVIOUS
<1>5. PICK f, s : /\ f = SetToSeq({Packet("Forget", x) : x \in A})
                  /\ s = SetToSeq({Packet("Chunk", x) : x \in N})
  OBVIOUS
<1>6. IsFiniteSet(Around(c)) /\ IsFiniteSet(A) /\ IsFiniteSet(N) /\ N \subseteq Around(c)
  <2>1. c - Radius \in Int /\ c + Radius \in Int
    BY PlayLoopAssumption
  <2>2. IsFiniteSet(Around(c))
    BY <2>1, FS_Interval DEF Around
  <2> QED BY <1>3, <2>2, FS_Subset
<1>7. IsSequence(p) /\ Shows(p, v, [center |-> c, chunks |-> k])
  BY <1>1, <1>2, <1>4, ShowsCenter
<1>8. IsSequence(f) /\ Shows(f, [center |-> c, chunks |-> k], [center |-> c, chunks |-> k \ A])
  BY <1>5, <1>6, ShowsForgets
<1>9. /\ IsSequence(s)
      /\ Shows(s, [center |-> c, chunks |-> k \ A], [center |-> c, chunks |-> (k \ A) \cup N])
  BY <1>5, <1>6, ShowsChunks
<1>10. (k \ A) \cup N = Around(c)
  BY <1>2, <1>3
<1>11. IsSequence(p \o f) /\ Shows(p \o f, v, [center |-> c, chunks |-> k \ A])
  BY <1>7, <1>8, ShowsConcat
<1>12. IsSequence(p \o f \o s) /\ Shows(p \o f \o s, v, [center |-> c, chunks |-> Around(c)])
  BY <1>9, <1>10, <1>11, ShowsConcat
<1>13. PICK parts : parts = p \o f \o s
  OBVIOUS
<1>14. Delta(l, c) = View(parts)
  BY <1>3, <1>4, <1>5, <1>13 DEF Delta
<1>15. Len(parts) \in Nat
  BY <1>12, <1>13, NoneFacts DEF IsSequence
<1>16. PICK t : /\ t[0] = v /\ t[Len(parts)] = [center |-> c, chunks |-> Around(c)]
                /\ \A i \in 1 .. Len(parts) : t[i] = Shown(t[i - 1], parts[i])
  BY <1>12, <1>13 DEF Shows
<1>17. ShownAll(v, parts) = t[Len(parts)]
  BY <1>15, <1>16, ShownAllIsTheLast
<1> QED BY <1>1, <1>14, <1>16, <1>17 DEF View

---------------------------------------------------------------------------
(* The session beside the handler.                                         *)

Phases == {"Handshake", "Status", "Login", "Configuration", "Play", "Closed"}
SessionFields == {"phase", "named", "statusSent", "successSent", "finishedSent", "pending"}
LoopFields ==
  {"player", "center", "loaded", "accepted", "batched", "ignored", "id", "acked", "ticks"}

Steps == PreplaySteps \cup {"bootstrap", "request", "read", "moving", "ended"}

\* Both are records, whatever their fields hold.
Records ==
  /\ session = [f \in SessionFields |-> session[f]]
  /\ loop = [f \in LoopFields |-> loop[f]]
  /\ step \in Steps

\* What each step expects of the session: the calls it has behind it.  While
\* a request is pending the loop has not seen its answer.
SessionFits ==
  /\ session.phase \in Phases
  /\ step # "ended" => session.phase = PhaseOf(step)
  /\ step = "status" => ~session.statusSent
  /\ step = "ping" => session.statusSent
  /\ step = "loginStart" => ~session.named /\ ~session.successSent
  /\ step = "loginAck" => session.successSent
  /\ step \in {"handshake", "loginStart", "loginAck", "knownPacks"} => ~session.finishedSent
  /\ step = "configAck" => session.finishedSent
  /\ step \in PreplaySteps \cup {"bootstrap", "request"} => session.pending = NoId
  /\ step = "handshake" => session = NewSession
  /\ step \in {"read", "moving"} /\ loop.acked => session.pending = NoId
  /\ step \in PreplaySteps \cup {"bootstrap"} => ~loop.acked

SessionInv == Records /\ SessionFits

\* A step of the handler before Play.
LEMMA HandlerKeepsSession ==
  ASSUME SessionInv, HandlerStep, UNCHANGED playVars
  PROVE  SessionInv'
<1> USE DEF SessionInv, Records, SessionFits, SessionFields, LoopFields, Steps, PreplaySteps,
            PhaseOf, Phases, playVars, Reads, Gets, Consumes, Sends, Ends, Goes, Rest, NoId,
            Allow
<1>1. CASE SkipBrand \/ Unexpected \/ EndOfStream
  BY <1>1 DEF SkipBrand, Unexpected, EndOfStream
<1>2. CASE ReadHandshake
  BY <1>2 DEF ReadHandshake, Handshaken, Closed, NewSession, Illegal
<1>3. CASE AnswerStatus
  BY <1>3 DEF AnswerStatus, StatusResponseSent
<1>4. CASE AnswerPing
  BY <1>4 DEF AnswerPing, PongSent
<1>5. CASE ReadLoginStart
  BY <1>5 DEF ReadLoginStart, LoginStarted, LoginSuccessSent, Closed
<1>6. CASE ReadLoginAcknowledged
  BY <1>6 DEF ReadLoginAcknowledged, LoginAcknowledged
<1>7. CASE ReadAuxiliary \/ ReadKnownPacks
  BY <1>7 DEF ReadAuxiliary, ReadKnownPacks, FinishSent, Closed
<1>8. CASE EnterPlay
  BY <1>8 DEF EnterPlay, ConfigurationAcknowledged
<1> QED BY <1>1, <1>2, <1>3, <1>4, <1>5, <1>6, <1>7, <1>8 DEF HandlerStep

\* What the steps of the loop make of it is a loop again, with the same
\* answer: only a request and its answer change that.
IsLoop(l) == l = [f \in LoopFields |-> l[f]]

\* A loop that has followed, refreshed or moved is one.
LEMMA LoopsStayLoops ==
  ASSUME NEW l, IsLoop(l), NEW c, NEW p
  PROVE  /\ IsLoop(Recentered(l, c)) /\ Recentered(l, c).acked = l.acked
         /\ IsLoop(Followed(l, c)) /\ Followed(l, c).acked = l.acked
         /\ IsLoop(Refreshed(l)) /\ Refreshed(l).acked = l.acked
         /\ IsLoop(Moved(l, p)) /\ Moved(l, p).acked = l.acked
BY DEF IsLoop, LoopFields, Recentered, Followed, Refreshed, Moved

\* The end of a session, and the foot of the loop.
LEMMA FailureFits ==
  ASSUME SessionInv, NEW before, Fails(before), IsLoop(loop')
  PROVE  SessionInv'
BY DEF SessionInv, Records, SessionFits, SessionFields, Steps, PreplaySteps, PhaseOf, Phases,
       Fails, Ends, Closed, IsLoop

\* At the foot of the loop the session is still in Play.
LEMMA NextPacketFits ==
  ASSUME SessionInv, NEW l, IsLoop(l), AfterPacket(l), UNCHANGED session,
         session.phase = "Play", l.acked => session.pending = NoId
  PROVE  SessionInv'
<1>1. /\ loop' = l \/ loop' = [l EXCEPT !.id = @ + 1]
      /\ step' \in {"request", "read"} /\ (step' = "request" => l.acked)
  BY DEF AfterPacket, RoundOver, Goes
<1>2. IsLoop(loop') /\ loop'.acked = l.acked
  BY <1>1 DEF IsLoop, LoopFields
<1> QED BY <1>1, <1>2 DEF SessionInv, Records, SessionFits, SessionFields, Steps, PreplaySteps,
                          PhaseOf, Phases, IsLoop

\* The bootstrap before the loop.
LEMMA BootstrapKeepsSession ==
  ASSUME SessionInv, ReadBootstrap
  PROVE  SessionInv'
<1> DEFINE l == [loop EXCEPT !.accepted = @ \/ Incoming.kind = "Accept",
                             !.batched = @ \/ Incoming.kind = "ChunkBatch",
                             !.ignored = @ + 1]
<1>1. /\ IsLoop(loop) /\ IsLoop(l) /\ IsLoop([l EXCEPT !.ignored = 0])
      /\ ~loop.acked /\ ~l.acked /\ ~[l EXCEPT !.ignored = 0].acked
      /\ session.phase = "Play" /\ session.pending = NoId /\ step = "bootstrap"
  BY DEF SessionInv, Records, SessionFits, IsLoop, LoopFields, ReadBootstrap, Reads, PhaseOf
<1> HIDE DEF l
<1>2. \/ Fails(<<>>) /\ UNCHANGED loop
      \/ LoopStarts([l EXCEPT !.ignored = 0])
      \/ loop' = l /\ Goes("bootstrap") /\ UNCHANGED session
  BY DEF ReadBootstrap, l
<1>3. CASE Fails(<<>>) /\ UNCHANGED loop
  BY <1>1, <1>3, FailureFits
<1>4. CASE LoopStarts([l EXCEPT !.ignored = 0])
  <2> DEFINE m == [l EXCEPT !.ignored = 0]
  <2>1. IsLoop(m)
    BY <1>1
  <2> HIDE DEF m
  <2>2. loop' = Recentered(m, m.center) /\ step' = "request" /\ UNCHANGED session
    BY <1>4 DEF LoopStarts, Goes, m
  <2>3. IsLoop(loop')
    BY <2>1, <2>2, LoopsStayLoops
  <2> QED BY <1>1, <2>2, <2>3 DEF SessionInv, Records, SessionFits, Steps, PreplaySteps,
                                  PhaseOf, IsLoop
<1>5. CASE loop' = l /\ Goes("bootstrap") /\ UNCHANGED session
  BY <1>1, <1>5 DEF SessionInv, Records, SessionFits, Steps, PreplaySteps, PhaseOf, IsLoop, Goes
<1> QED BY <1>2, <1>3, <1>4, <1>5

\* A request goes out when no other is pending, and an answer is taken while
\* one is.
LEMMA RequestKeepsSession ==
  ASSUME SessionInv, Request
  PROVE  SessionInv'
BY DEF SessionInv, Records, SessionFits, SessionFields, LoopFields, Steps, PreplaySteps, PhaseOf,
       Phases, Request, Goes, KeepAliveSent, Allow, NoId

\* Its answer.
LEMMA AnswerKeepsSession ==
  ASSUME SessionInv, ReadAnswer
  PROVE  SessionInv'
<1> DEFINE l == [loop EXCEPT !.acked = TRUE]
<1>1. IsLoop(loop) /\ IsLoop(l) /\ l.acked /\ step = "read" /\ session.phase = "Play"
  BY DEF SessionInv, Records, SessionFits, IsLoop, LoopFields, ReadAnswer, Gets, Reads, PhaseOf
<1> HIDE DEF l
<1>2. CASE Fails(<<>>) /\ UNCHANGED loop
  BY <1>1, <1>2, FailureFits
<1>3. CASE session' = KeepAliveAnswered(session) /\ AfterPacket(l)
  <2>1. /\ session' = [f \in SessionFields |-> session'[f]]
        /\ session'.phase = "Play" /\ session'.pending = NoId
    BY <1>1, <1>3 DEF SessionInv, Records, SessionFields, KeepAliveAnswered
  <2>2. /\ loop' = l \/ loop' = [l EXCEPT !.id = @ + 1]
        /\ step' \in {"request", "read"}
    BY <1>3 DEF AfterPacket, Goes
  <2>3. IsLoop(loop')
    BY <1>1, <2>2 DEF IsLoop, LoopFields
  <2> QED BY <2>1, <2>2, <2>3 DEF SessionInv, Records, SessionFits, Steps, PreplaySteps, PhaseOf,
                                  Phases, IsLoop
<1> QED BY <1>2, <1>3 DEF ReadAnswer, l

\* The other packets that the loop reads.
LEMMA ReadingKeepsSession ==
  ASSUME SessionInv,
         \/ ReadTick \/ ReadUndecodable \/ ReadHarmless \/ ReadChat \/ ReadCommand
         \/ ReadUnknown \/ ReadRespawn
  PROVE  SessionInv'
<1>1. /\ IsLoop(loop) /\ step = "read" /\ session.phase = "Play"
      /\ loop.acked => session.pending = NoId
  BY DEF SessionInv, Records, SessionFits, IsLoop, ReadTick, ReadUndecodable, ReadHarmless,
         ReadChat, ReadCommand, ReadUnknown, ReadRespawn, Gets, Reads, PhaseOf
<1>2. ASSUME NEW l, IsLoop(l), l.acked = loop.acked, AfterPacket(l), UNCHANGED session
      PROVE  SessionInv'
  BY <1>1, <1>2, NextPacketFits
<1>3. CASE Fails(<<>>) /\ UNCHANGED loop
  BY <1>1, <1>3, FailureFits
<1>4. CASE ReadTick
  <2> DEFINE l == [loop EXCEPT !.ticks = IF @ < Interval THEN @ + 1 ELSE @]
  <2>1. IsLoop(l) /\ l.acked = loop.acked
    BY <1>1 DEF IsLoop, LoopFields
  <2> HIDE DEF l
  <2> QED BY <1>2, <1>4, <2>1 DEF ReadTick, l
<1>5. CASE ReadUndecodable
  BY <1>3, <1>5 DEF ReadUndecodable
<1>6. CASE ReadHarmless \/ ReadChat \/ ReadCommand
  BY <1>1, <1>2, <1>6 DEF ReadHarmless, ReadChat, ReadCommand, PlayersSide
<1>7. CASE ReadUnknown
  <2> DEFINE l == [loop EXCEPT !.ignored = @ + 1]
  <2>1. IsLoop(l) /\ l.acked = loop.acked
    BY <1>1 DEF IsLoop, LoopFields
  <2> HIDE DEF l
  <2> QED BY <1>2, <1>3, <1>7, <2>1 DEF ReadUnknown, l
<1>8. CASE ReadRespawn
  <2> DEFINE m == [loop EXCEPT !.player = Spawn]
             l == Followed(m, ChunkOf(Spawn))
  <2>1. IsLoop(m) /\ m.acked = loop.acked
    BY <1>1 DEF IsLoop, LoopFields
  <2> HIDE DEF m
  <2>2. IsLoop(l) /\ l.acked = loop.acked
    BY <2>1, LoopsStayLoops
  <2>3. UNCHANGED session /\ (AfterPacket(l) \/ AfterPacket(loop))
    BY <1>8 DEF ReadRespawn, PlayersSide, m
  <2> HIDE DEF l
  <2> QED BY <1>1, <1>2, <2>2, <2>3
<1> QED BY <1>4, <1>5, <1>6, <1>7, <1>8

\* A movement, in the two steps of its refresh and its synchronize.
LEMMA MovingKeepsSession ==
  ASSUME SessionInv, ReadMovement \/ Synchronize
  PROVE  SessionInv'
<1>1. /\ IsLoop(loop) /\ session.phase = "Play" /\ step \in {"read", "moving"}
      /\ loop.acked => session.pending = NoId
  BY DEF SessionInv, Records, SessionFits, IsLoop, ReadMovement, Synchronize, Reads, PhaseOf
<1>2. CASE ReadMovement
  <2> DEFINE here == Followed(Refreshed(loop), ChunkOf(entity.at))
             view == Following(loop, ChunkOf(entity.at))
  <2>1. IsLoop(here) /\ here.acked = loop.acked
    BY <1>1, LoopsStayLoops
  <2> HIDE DEF here, view
  <2>2. \/ loop' = Moved(here, Incoming) /\ step' = "moving" /\ UNCHANGED session
        \/ Fails(view) /\ loop' = here
    BY <1>2 DEF ReadMovement, here, view, Goes
  <2>3. CASE loop' = Moved(here, Incoming) /\ step' = "moving" /\ UNCHANGED session
    <3>1. IsLoop(loop') /\ loop'.acked = loop.acked
      BY <2>1, <2>3, LoopsStayLoops
    <3> QED BY <1>1, <2>3, <3>1 DEF SessionInv, Records, SessionFits, Steps, PreplaySteps,
                                    PhaseOf, IsLoop
  <2>4. CASE Fails(view) /\ loop' = here
    BY <2>1, <2>4, FailureFits
  <2> QED BY <2>2, <2>3, <2>4
<1>3. CASE Synchronize
  <2> DEFINE l == Followed(loop, ChunkOf(loop.player))
  <2>1. IsLoop(l) /\ l.acked = loop.acked
    BY <1>1, LoopsStayLoops
  <2>2. AfterPacket(l) /\ UNCHANGED session
    BY <1>3 DEF Synchronize, PlayersSide
  <2> HIDE DEF l
  <2> QED BY <1>1, <2>1, <2>2, NextPacketFits
<1> QED BY <1>2, <1>3

\* The end of the stream, in Play.
LEMMA EndKeepsSession ==
  ASSUME SessionInv, PlayEnds
  PROVE  SessionInv'
BY DEF SessionInv, Records, SessionFits, SessionFields, Steps, PreplaySteps, PhaseOf, Phases,
       PlayEnds, Fails, Ends, Closed

\* Every step.
LEMMA SessionKept ==
  ASSUME SessionInv, [Next]_vars
  PROVE  SessionInv'
<1>1. CASE HandlerStep /\ UNCHANGED playVars
  BY <1>1, HandlerKeepsSession
<1>2. CASE LoopStep
  BY <1>2, BootstrapKeepsSession, RequestKeepsSession, AnswerKeepsSession,
     ReadingKeepsSession, MovingKeepsSession, EndKeepsSession DEF LoopStep
<1>3. ASSUME UNCHANGED <<session, loop, step>> PROVE SessionInv'
  BY <1>3 DEF SessionInv, Records, SessionFits
<1>4. CASE ClientStep /\ UNCHANGED playVars
  BY <1>3, <1>4 DEF ClientStep, Open, Receive, Inform, Leave, Stray, ServerRest, playVars
<1>5. CASE Command \/ Dispatch \/ ForeignRequest
  BY <1>3, <1>5 DEF Command, Dispatch, ForeignRequest, connVars
<1>6. CASE PlayerStep
  BY <1>3, <1>6 DEF PlayerStep, Inhabit, Walk, Idle, Speak, AskRespawn, ServerUntouched
<1>7. CASE UNCHANGED vars
  BY <1>3, <1>7 DEF vars, connVars, playVars
<1> QED BY <1>1, <1>2, <1>4, <1>5, <1>6, <1>7 DEF Next

\* A connection begins with a new session.
LEMMA InitSession ==
  ASSUME Init
  PROVE  SessionInv
<1>1. session = NewSession /\ loop = NewLoop /\ step = "handshake"
  BY DEF Init, ConnInit
<1>2. session = [f \in SessionFields |-> session[f]]
  BY <1>1 DEF NewSession, SessionFields
<1>3. loop = [f \in LoopFields |-> loop[f]] /\ ~loop.acked
  BY <1>1 DEF NewLoop, LoopFields
<1>4. session.phase = "Handshake" /\ ~session.finishedSent /\ session.pending = NoId
  BY <1>1 DEF NewSession
<1> QED BY <1>1, <1>2, <1>3, <1>4 DEF SessionInv, Records, SessionFits, Steps, PreplaySteps,
                                      PhaseOf, Phases

\* The handler's place in the code and the ProtocolSession never part: no call
\* the handler makes is out of the session's phase or order, whatever a client
\* sends (ferrum-protocol's ProtocolSession, handle_connection_protocol).
THEOREM SessionStaysWithHandler == Spec => []SessionFollowsHandler
<1>1. Init => SessionInv
  BY InitSession
<1>2. SessionInv /\ [Next]_vars => SessionInv'
  BY SessionKept
<1>3. SessionInv => SessionFollowsHandler
  BY DEF SessionInv, SessionFits, SessionFollowsHandler, Phases, Illegal, NewSession
<1> QED BY <1>1, <1>2, <1>3, PTL DEF Spec

---------------------------------------------------------------------------
(* A conforming client and the handler, up to the bootstrap: what is on    *)
(* its way between them, by the phase the client is in and the step the    *)
(* handler is at.                                                          *)

Positions == Places \cup Destinations
EventTypes ==
  [kind : {"teleported", "respawned"}, at : Positions]
    \cup [kind : {"killed", "broadcast"}, at : {0}]

\* Packets that the client may send at any time of its configuration.
Noise(q) == \A i \in 1 .. Len(q) : q[i].kind \in {"Brand", "ClientInformation"}
ConfigurationPackets ==
  [kind : {"Brand", "ClientInformation", "LoginAcknowledged", "KnownPacks"}, n : {0, 1}]
Choice == Packet("KnownPacks", 1)

OnTheWay(s, up, down) == step = s /\ toServer = up /\ toClient = down
HandlerLeft(down) == step = "ended" /\ toClient = down

Silence == OnTheWay("handshake", <<>>, <<>>)
AskingStatus ==
  \/ OnTheWay("handshake", <<Packet("Handshake", 1), Plain("StatusRequest")>>, <<>>)
  \/ OnTheWay("status", <<Plain("StatusRequest")>>, <<>>)
  \/ OnTheWay("ping", <<>>, <<Plain("StatusResponse")>>)
  \/ OnTheWay("ping", <<Plain("PingRequest")>>, <<>>)
  \/ HandlerLeft(<<Plain("Pong")>>)
LoggingIn ==
  \/ OnTheWay("handshake", <<Packet("Handshake", 2), Packet("LoginStart", 1)>>, <<>>)
  \/ OnTheWay("loginStart", <<Packet("LoginStart", 1)>>, <<>>)
  \/ OnTheWay("loginAck", <<>>, <<Plain("LoginSuccess")>>)
  \/ HandlerLeft(<<Plain("LoginSuccess")>>)
  \/ HandlerLeft(<<Plain("LoginDisconnect")>>)
Configuring ==
  \/ /\ step = "loginAck" /\ toClient = <<>>
     /\ toServer \in Seq(ConfigurationPackets) /\ toServer # <<>>
     /\ toServer[1] = Plain("LoginAcknowledged") /\ Noise(Tail(toServer))
  \/ /\ step = "knownPacks" /\ toClient = <<Plain("SelectKnownPacks")>>
     /\ toServer \in Seq(ConfigurationPackets) /\ Noise(toServer)
  \/ HandlerLeft(<<>>)
  \/ HandlerLeft(<<Plain("SelectKnownPacks")>>)
ChoosingPacks ==
  \/ /\ step = "knownPacks" /\ toClient = <<>>
     /\ \E q \in Seq(ConfigurationPackets) : Noise(q) /\ toServer = Append(q, Choice)
  \/ OnTheWay("configAck", <<>>, <<Plain("ConfigurationData"), Plain("FinishConfiguration")>>)
  \/ HandlerLeft(<<>>)
ReadingData == OnTheWay("configAck", <<>>, <<Plain("FinishConfiguration")>>)
EnteringPlay ==
  \/ OnTheWay("configAck", <<Plain("ConfigurationAcknowledged")>>, <<>>)
  \/ HandlerLeft(<<>>)
  \/ /\ step = "bootstrap" /\ toServer = <<>>
     /\ IsSequence(toClient) /\ toClient # <<>> /\ toClient[1] = Plain("PlayLogin")

Conversation ==
  \/ client.phase = "new" /\ Silence
  \/ client.phase = "Status" /\ AskingStatus
  \/ client.phase = "Login" /\ LoggingIn
  \/ client.phase = "Configuration" /\ Configuring
  \/ client.phase = "Packs" /\ ChoosingPacks
  \/ client.phase = "Data" /\ ReadingData
  \/ client.phase = "Play" /\ EnteringPlay
  \/ client.phase \in {"InWorld", "gone"}

TalkInv ==
  /\ client = [f \in {"phase", "informed"} |-> client[f]]
  /\ conforms \in BOOLEAN
  /\ events \in Seq(EventTypes)
  /\ IF conforms THEN Conversation ELSE client.phase \in {"new", "gone"}

\* Short sequences.
LEMMA ShortSequences ==
  /\ \A a : <<a>> # <<>> /\ <<a>>[1] = a /\ Tail(<<a>>) = <<>> /\ <<>> \o <<a>> = <<a>>
  /\ \A a, b : /\ <<a, b>> # <<>> /\ <<a, b>>[1] = a /\ Tail(<<a, b>>) = <<b>>
               /\ <<>> \o <<a, b>> = <<a, b>>
  /\ \A a, b, c : <<>> \o <<a, b, c>> = <<a, b, c>> /\ <<a, b, c>>[1] = a /\ <<a, b, c>> # <<>>
                  /\ IsSequence(<<a, b, c>>)
<1>1. \A a : <<a>> # <<>> /\ <<a>>[1] = a /\ Tail(<<a>>) = <<>> /\ <<>> \o <<a>> = <<a>>
  OBVIOUS
<1>2. \A a, b : /\ <<a, b>> # <<>> /\ <<a, b>>[1] = a /\ Tail(<<a, b>>) = <<b>>
                /\ <<>> \o <<a, b>> = <<a, b>>
  OBVIOUS
<1>3. \A a, b, c : <<>> \o <<a, b, c>> = <<a, b, c>> /\ <<a, b, c>>[1] = a /\ <<a, b, c>> # <<>>
  OBVIOUS
<1>4. \A a, b, c : <<a, b, c>> \in Seq({a, b, c})
  OBVIOUS
<1>5. \A a, b, c : IsSequence(<<a, b, c>>)
  BY <1>4 DEF IsSequence
<1> QED BY <1>1, <1>2, <1>3, <1>5

\* What the handler does with the first packet on its way, by its step.
LEMMA HandlerReads ==
  ASSUME HandlerStep, conforms, client.phase # "gone"
  PROVE  /\ UNCHANGED <<conforms, client>> /\ step # "ended"
         /\ toServer # <<>> /\ toServer' = Tail(toServer)
         /\ step = "handshake" /\ Incoming.kind = "Handshake" => ReadHandshake
         /\ step = "status" /\ Incoming.kind = "StatusRequest" => AnswerStatus
         /\ step = "ping" /\ Incoming.kind = "PingRequest" => AnswerPing
         /\ step = "loginStart" /\ Incoming.kind = "LoginStart" => ReadLoginStart
         /\ step = "loginAck" /\ Incoming.kind = "LoginAcknowledged" => ReadLoginAcknowledged
         /\ step = "knownPacks" /\ Incoming.kind = "Brand" => SkipBrand
         /\ step = "knownPacks" /\ Incoming.kind = "ClientInformation" => ReadAuxiliary
         /\ step = "knownPacks" /\ Incoming.kind = "KnownPacks" => ReadKnownPacks
         /\ step = "configAck" /\ Incoming.kind = "ConfigurationAcknowledged" => EnterPlay
<1> USE DEF Gets, Reads
<1>1. CASE SkipBrand
  BY <1>1 DEF SkipBrand, Rest, Consumes
<1>2. CASE Unexpected
  <2>1. /\ step = "handshake" => Expected(step) = {"Handshake"}
        /\ step = "status" => Expected(step) = {"StatusRequest"}
        /\ step = "ping" => Expected(step) = {"PingRequest"}
        /\ step = "loginStart" => Expected(step) = {"LoginStart"}
        /\ step = "loginAck" => Expected(step) = {"LoginAcknowledged"}
        /\ step = "knownPacks" => Expected(step) = {"KnownPacks", "ClientInformation"}
        /\ step = "configAck" => Expected(step) = {"ConfigurationAcknowledged"}
    BY DEF Expected
  <2>2. /\ UNCHANGED <<conforms, client>> /\ step # "ended"
        /\ toServer # <<>> /\ toServer' = Tail(toServer)
        /\ Incoming.kind \notin Expected(step) /\ Incoming.kind # "Brand"
    BY <1>2 DEF Unexpected, PreplaySteps, Rest, Consumes
  <2> QED BY <2>1, <2>2
<1>3. CASE ReadHandshake \/ AnswerStatus \/ AnswerPing
  BY <1>3 DEF ReadHandshake, AnswerStatus, AnswerPing, Rest, Consumes, PreplaySteps
<1>4. CASE ReadLoginStart \/ ReadLoginAcknowledged
  BY <1>4 DEF ReadLoginStart, ReadLoginAcknowledged, Rest, Consumes, PreplaySteps
<1>5. CASE ReadAuxiliary \/ ReadKnownPacks
  BY <1>5 DEF ReadAuxiliary, ReadKnownPacks, Rest, Consumes, PreplaySteps
<1>6. CASE EnterPlay
  BY <1>6 DEF EnterPlay, Rest, Consumes, PreplaySteps
<1>7. CASE EndOfStream
  BY <1>7 DEF EndOfStream
<1> QED BY <1>1, <1>2, <1>3, <1>4, <1>5, <1>6, <1>7 DEF HandlerStep

\* The handshake, with either intent.
LEMMA HandshakeTalk ==
  ASSUME TalkInv, conforms, HandlerStep, client.phase # "gone",
         NEW intent \in {1, 2}, NEW p,
         OnTheWay("handshake", <<Packet("Handshake", intent), p>>, <<>>)
  PROVE  IF intent = 1 THEN OnTheWay("status", <<p>>, <<>>)'
         ELSE OnTheWay("loginStart", <<p>>, <<>>)' \/ HandlerLeft(<<Plain("LoginDisconnect")>>)'
<1>1. Incoming = Packet("Handshake", intent) /\ toServer' = <<p>> /\ toClient = <<>>
  BY HandlerReads, ShortSequences DEF OnTheWay, Incoming
<1>2. Incoming.kind = "Handshake" /\ Incoming.n = intent
  BY <1>1 DEF Packet
<1>3. ReadHandshake
  BY <1>2, HandlerReads DEF OnTheWay
<1> QED BY <1>1, <1>2, <1>3, ShortSequences DEF ReadHandshake, Goes, Ends, Sends, OnTheWay,
                                                HandlerLeft

\* The status and the ping.
LEMMA StatusTalk ==
  ASSUME TalkInv, conforms, HandlerStep, client.phase = "Status", AskingStatus
  PROVE  AskingStatus'
<1>1. CASE OnTheWay("handshake", <<Packet("Handshake", 1), Plain("StatusRequest")>>, <<>>)
  BY <1>1, HandshakeTalk DEF OnTheWay, AskingStatus
<1>2. CASE OnTheWay("status", <<Plain("StatusRequest")>>, <<>>)
  <2>1. Incoming.kind = "StatusRequest" /\ toServer' = <<>> /\ toClient = <<>>
    BY <1>2, HandlerReads, ShortSequences DEF OnTheWay, Incoming, Plain, Packet
  <2>2. AnswerStatus
    BY <1>2, <2>1, HandlerReads DEF OnTheWay
  <2> QED BY <2>1, <2>2, ShortSequences DEF AnswerStatus, Goes, Sends, OnTheWay, AskingStatus
<1>3. CASE OnTheWay("ping", <<Plain("PingRequest")>>, <<>>)
  <2>1. Incoming.kind = "PingRequest" /\ toServer' = <<>> /\ toClient = <<>>
    BY <1>3, HandlerReads, ShortSequences DEF OnTheWay, Incoming, Plain, Packet
  <2>2. AnswerPing
    BY <1>3, <2>1, HandlerReads DEF OnTheWay
  <2> QED BY <2>1, <2>2, ShortSequences DEF AnswerPing, Ends, Sends, HandlerLeft, AskingStatus
<1> QED BY <1>1, <1>2, <1>3, HandlerReads DEF AskingStatus, OnTheWay, HandlerLeft

\* The login.
LEMMA LoginTalk ==
  ASSUME TalkInv, conforms, HandlerStep, client.phase = "Login", LoggingIn
  PROVE  LoggingIn'
<1>1. CASE OnTheWay("handshake", <<Packet("Handshake", 2), Packet("LoginStart", 1)>>, <<>>)
  BY <1>1, HandshakeTalk DEF OnTheWay, LoggingIn
<1>2. CASE OnTheWay("loginStart", <<Packet("LoginStart", 1)>>, <<>>)
  <2>1. /\ Incoming.kind = "LoginStart" /\ Incoming.n # 0
        /\ toServer' = <<>> /\ toClient = <<>>
    BY <1>2, HandlerReads, ShortSequences DEF OnTheWay, Incoming, Packet
  <2>2. ReadLoginStart
    BY <1>2, <2>1, HandlerReads DEF OnTheWay
  <2> QED BY <2>1, <2>2, ShortSequences DEF ReadLoginStart, Goes, Ends, Sends, OnTheWay,
                                            HandlerLeft, LoggingIn
<1> QED BY <1>1, <1>2, HandlerReads DEF LoggingIn, OnTheWay, HandlerLeft

\* The rest of a sequence of noise is noise.
LEMMA NoiseTaken ==
  ASSUME NEW q \in Seq(ConfigurationPackets), q # <<>>, Noise(q)
  PROVE  /\ Tail(q) \in Seq(ConfigurationPackets) /\ Noise(Tail(q))
         /\ q[1].kind \in {"Brand", "ClientInformation"}
<1> DEFINE r == Tail(q)
<1>1. /\ Len(q) \in Nat \ {0} /\ r \in Seq(ConfigurationPackets) /\ Len(r) = Len(q) - 1
      /\ \A i \in 1 .. Len(r) : r[i] = q[i + 1]
  BY EmptySeq, HeadTailProperties
<1> HIDE DEF r
<1>2. 1 \in 1 .. Len(q) /\ \A i \in 1 .. Len(r) : i + 1 \in 1 .. Len(q)
  BY <1>1
<1>3. Noise(r) /\ q[1].kind \in {"Brand", "ClientInformation"}
  BY <1>1, <1>2 DEF Noise
<1> QED BY <1>1, <1>3 DEF r

\* The configuration, before the client has chosen its packs.
LEMMA ConfigurationTalk ==
  ASSUME TalkInv, conforms, HandlerStep, client.phase = "Configuration", Configuring
  PROVE  Configuring'
<1>1. CASE /\ step = "loginAck" /\ toClient = <<>>
           /\ toServer \in Seq(ConfigurationPackets) /\ toServer # <<>>
           /\ toServer[1] = Plain("LoginAcknowledged") /\ Noise(Tail(toServer))
  <2>1. ReadLoginAcknowledged /\ toServer' = Tail(toServer)
    BY <1>1, HandlerReads DEF Incoming, Plain, Packet
  <2>2. Tail(toServer) \in Seq(ConfigurationPackets)
    BY <1>1, HeadTailProperties
  <2>3. step' = "knownPacks" /\ toClient' = <<Plain("SelectKnownPacks")>>
    BY <1>1, <2>1, ShortSequences DEF ReadLoginAcknowledged, Goes, Sends
  <2>4. toServer' \in Seq(ConfigurationPackets) /\ Noise(toServer')
    BY <1>1, <2>1, <2>2
  <2> QED BY <2>3, <2>4 DEF Configuring, Noise
<1>2. CASE /\ step = "knownPacks" /\ toClient = <<Plain("SelectKnownPacks")>>
           /\ toServer \in Seq(ConfigurationPackets) /\ Noise(toServer)
  <2>1. toServer # <<>> /\ toServer' = Tail(toServer)
    BY HandlerReads
  <2>2. /\ toServer' \in Seq(ConfigurationPackets) /\ Noise(toServer')
        /\ Incoming.kind \in {"Brand", "ClientInformation"}
    BY <1>2, <2>1, NoiseTaken DEF Incoming
  <2>3. SkipBrand \/ ReadAuxiliary
    BY <1>2, <2>2, HandlerReads
  <2>4. toClient' = toClient /\ step' \in {"knownPacks", "ended"}
    BY <1>2, <2>3 DEF SkipBrand, ReadAuxiliary, Goes, Ends
  <2> QED BY <1>2, <2>2, <2>4 DEF Configuring, Noise, HandlerLeft
<1> QED BY <1>1, <1>2, HandlerReads DEF Configuring, HandlerLeft

\* The configuration, once it has.
LEMMA PacksTalk ==
  ASSUME TalkInv, conforms, HandlerStep, client.phase = "Packs", ChoosingPacks
  PROVE  ChoosingPacks'
<1>1. CASE /\ step = "knownPacks" /\ toClient = <<>>
           /\ \E q \in Seq(ConfigurationPackets) : Noise(q) /\ toServer = Append(q, Choice)
  <2>1. PICK q \in Seq(ConfigurationPackets) : Noise(q) /\ toServer = Append(q, Choice)
    BY <1>1
  <2>2. toServer' = Tail(toServer) /\ Choice.kind = "KnownPacks" /\ Choice.n = 1
    BY HandlerReads DEF Choice, Packet
  <2>3. CASE q = <<>>
    <3>1. toServer = <<Choice>>
      BY <2>1, <2>3
    <3>2. Incoming = Choice /\ toServer' = <<>>
      BY <2>2, <3>1, ShortSequences DEF Incoming
    <3>3. ReadKnownPacks
      BY <1>1, <2>2, <3>2, HandlerReads
    <3> QED BY <1>1, <2>2, <3>2, <3>3, ShortSequences
            DEF ReadKnownPacks, Goes, Sends, ChoosingPacks, OnTheWay
  <2>4. CASE q # <<>>
    <3>1. Append(q, Choice)[1] = q[1] /\ Tail(Append(q, Choice)) = Append(Tail(q), Choice)
      BY <2>4
    <3>2. /\ Tail(q) \in Seq(ConfigurationPackets) /\ Noise(Tail(q))
          /\ Incoming.kind \in {"Brand", "ClientInformation"}
      BY <2>1, <2>4, <3>1, NoiseTaken DEF Incoming
    <3>3. SkipBrand \/ ReadAuxiliary
      BY <1>1, <3>2, HandlerReads
    <3>4. toClient' = toClient /\ step' \in {"knownPacks", "ended"}
      BY <1>1, <3>3 DEF SkipBrand, ReadAuxiliary, Goes, Ends
    <3>5. \E r \in Seq(ConfigurationPackets) : Noise(r) /\ toServer' = Append(r, Choice)
      BY <2>1, <2>2, <3>1, <3>2
    <3> QED BY <1>1, <3>4, <3>5 DEF ChoosingPacks, HandlerLeft
  <2> QED BY <2>3, <2>4
<1> QED BY <1>1, HandlerReads DEF ChoosingPacks, HandlerLeft, OnTheWay

\* The entry into Play.
LEMMA EntryTalk ==
  ASSUME TalkInv, conforms, HandlerStep, client.phase = "Play", EnteringPlay
  PROVE  EnteringPlay'
<1>1. CASE OnTheWay("configAck", <<Plain("ConfigurationAcknowledged")>>, <<>>)
  <2>1. Incoming.kind = "ConfigurationAcknowledged" /\ toServer' = <<>> /\ toClient = <<>>
    BY <1>1, HandlerReads, ShortSequences DEF OnTheWay, Incoming, Plain, Packet
  <2>2. EnterPlay
    BY <1>1, <2>1, HandlerReads DEF OnTheWay
  <2> QED BY <2>1, <2>2, ShortSequences DEF EnterPlay, Goes, Ends, Sends, HandlerLeft, EnteringPlay
<1> QED BY <1>1, HandlerReads DEF EnteringPlay, HandlerLeft, OnTheWay

\* A step of the handler before Play.
LEMMA HandlerTalk ==
  ASSUME TalkInv, HandlerStep, UNCHANGED playVars
  PROVE  TalkInv'
<1>1. UNCHANGED <<conforms, client, events>>
  BY DEF HandlerStep, SkipBrand, Unexpected, ReadHandshake, AnswerStatus, AnswerPing,
       ReadLoginStart, ReadLoginAcknowledged, ReadAuxiliary, ReadKnownPacks, EnterPlay,
       EndOfStream, Rest, playVars
<1>2. ASSUME conforms PROVE Conversation'
  <2>1. Conversation
    BY <1>2 DEF TalkInv
  <2>2. CASE client.phase = "new" /\ Silence
    BY <1>2, <2>2, HandlerReads DEF Silence, OnTheWay
  <2>3. CASE client.phase = "Data" /\ ReadingData
    BY <1>2, <2>3, HandlerReads DEF ReadingData, OnTheWay
  <2>4. CASE client.phase = "Status" /\ AskingStatus
    BY <1>1, <1>2, <2>4, StatusTalk DEF Conversation
  <2>5. CASE client.phase = "Login" /\ LoggingIn
    BY <1>1, <1>2, <2>5, LoginTalk DEF Conversation
  <2>6. CASE client.phase = "Configuration" /\ Configuring
    BY <1>1, <1>2, <2>6, ConfigurationTalk DEF Conversation
  <2>7. CASE client.phase = "Packs" /\ ChoosingPacks
    BY <1>1, <1>2, <2>7, PacksTalk DEF Conversation
  <2>8. CASE client.phase = "Play" /\ EnteringPlay
    BY <1>1, <1>2, <2>8, EntryTalk DEF Conversation
  <2>9. CASE client.phase \in {"InWorld", "gone"}
    BY <1>1, <2>9 DEF Conversation
  <2> QED BY <2>1, <2>2, <2>3, <2>4, <2>5, <2>6, <2>7, <2>8, <2>9 DEF Conversation
<1> QED BY <1>1, <1>2 DEF TalkInv

\* One packet of the server to a client that has not entered Play: where it
\* leaves the two.
LEMMA ReceptionTalk ==
  ASSUME TalkInv, Receive
  PROVE  Conversation'
<1> DEFINE done == Understood(client.phase, toClient[1])
<1>1. /\ conforms /\ Conversation /\ toClient # <<>>
      /\ client.phase \notin {"new", "Play", "InWorld", "gone", "confused"}
      /\ toServer' = toServer \o done.answers /\ toClient' = Tail(toClient)
      /\ UNCHANGED step /\ client'.phase = done.phase
  BY DEF Receive, TalkInv, ClientSends, ServerRest
<1> HIDE DEF done
<1>2. ASSUME NEW answers, NEW phase, done = Answer(answers, phase)
      PROVE  toServer' = toServer \o answers /\ client'.phase = phase
  BY <1>1, <1>2 DEF Answer
<1>3. CASE client.phase = "Status"
  <2>1. \/ step = "ping" /\ toServer = <<>> /\ toClient = <<Plain("StatusResponse")>>
        \/ toClient = <<Plain("Pong")>>
    BY <1>1, <1>3 DEF Conversation, AskingStatus, OnTheWay, HandlerLeft
  <2>2. CASE step = "ping" /\ toServer = <<>> /\ toClient = <<Plain("StatusResponse")>>
    <3>1. toClient[1].kind = "StatusResponse" /\ toClient' = <<>>
      BY <1>1, <2>2, ShortSequences DEF Plain, Packet
    <3>2. done = Answer(<<Plain("PingRequest")>>, "Status")
      BY <1>3, <3>1 DEF Understood, done
    <3>3. toServer' = <<Plain("PingRequest")>> /\ client'.phase = "Status"
      BY <1>2, <2>2, <3>2, ShortSequences
    <3>4. AskingStatus'
      BY <1>1, <2>2, <3>1, <3>3 DEF AskingStatus, OnTheWay
    <3> QED BY <3>3, <3>4 DEF Conversation
  <2>3. CASE toClient = <<Plain("Pong")>>
    <3>1. toClient[1].kind = "Pong"
      BY <2>3, ShortSequences DEF Plain, Packet
    <3>2. done = Answer(<<>>, "gone")
      BY <1>3, <3>1 DEF Understood, done
    <3> QED BY <1>2, <3>2 DEF Conversation
  <2> QED BY <2>1, <2>2, <2>3
<1>4. CASE client.phase = "Login"
  <2>1. \/ step = "loginAck" /\ toServer = <<>> /\ toClient = <<Plain("LoginSuccess")>>
        \/ step = "ended" /\ toClient = <<Plain("LoginSuccess")>>
        \/ toClient = <<Plain("LoginDisconnect")>>
    BY <1>1, <1>4 DEF Conversation, LoggingIn, OnTheWay, HandlerLeft
  <2>2. CASE toClient = <<Plain("LoginSuccess")>>
    <3> DEFINE a == Plain("LoginAcknowledged")
               b == Plain("Brand")
               i == Plain("ClientInformation")
    <3>1. toClient[1].kind = "LoginSuccess" /\ toClient' = <<>>
      BY <1>1, <2>2, ShortSequences DEF Plain, Packet
    <3>2. done = Answer(<<a, b, i>>, "Configuration")
      BY <1>4, <3>1 DEF Understood, done
    <3>3. toServer' = toServer \o <<a, b, i>> /\ client'.phase = "Configuration"
      BY <1>2, <3>2
    <3>4. /\ <<a, b, i>> \in Seq(ConfigurationPackets) /\ <<a, b, i>> # <<>>
          /\ <<a, b, i>>[1] = a /\ Tail(<<a, b, i>>) = <<b, i>>
      BY DEF Plain, Packet, ConfigurationPackets
    <3>5. Noise(<<b, i>>)
      BY DEF Plain, Packet, Noise
    <3>6. CASE step = "loginAck" /\ toServer = <<>>
      <4>1. toServer' = <<a, b, i>>
        BY <3>3, <3>6, ShortSequences
      <4> HIDE DEF a, b, i
      <4>2. Configuring'
        BY <1>1, <3>1, <3>4, <3>5, <3>6, <4>1 DEF Configuring, Noise, a
      <4> QED BY <3>3, <4>2 DEF Conversation
    <3>7. CASE step = "ended"
      BY <1>1, <3>1, <3>3, <3>7 DEF Configuring, HandlerLeft, Conversation
    <3>8. Plain("LoginSuccess") # Plain("LoginDisconnect")
      BY DEF Plain, Packet
    <3> QED BY <2>1, <2>2, <3>6, <3>7, <3>8, ShortSequences
  <2>3. CASE toClient = <<Plain("LoginDisconnect")>>
    <3>1. toClient[1].kind = "LoginDisconnect"
      BY <2>3, ShortSequences DEF Plain, Packet
    <3>2. done = Answer(<<>>, "gone")
      BY <1>4, <3>1 DEF Understood, done
    <3> QED BY <1>2, <3>2 DEF Conversation
  <2> QED BY <2>1, <2>2, <2>3
<1>5. CASE client.phase = "Configuration"
  <2>1. /\ toClient = <<Plain("SelectKnownPacks")>>
        /\ \/ step = "knownPacks" /\ toServer \in Seq(ConfigurationPackets) /\ Noise(toServer)
           \/ step = "ended"
    BY <1>1, <1>5 DEF Conversation, Configuring, HandlerLeft
  <2>2. toClient[1].kind = "SelectKnownPacks" /\ toClient' = <<>>
    BY <1>1, <2>1, ShortSequences DEF Plain, Packet
  <2>3. done = Answer(<<Choice>>, "Packs")
    BY <1>5, <2>2 DEF Understood, done, Choice
  <2>4. toServer' = toServer \o <<Choice>> /\ client'.phase = "Packs"
    BY <1>2, <2>3
  <2>5. CASE step = "knownPacks" /\ toServer \in Seq(ConfigurationPackets) /\ Noise(toServer)
    <3>1. toServer' = Append(toServer, Choice)
      BY <2>4, <2>5
    <3>2. ChoosingPacks'
      BY <1>1, <2>2, <2>5, <3>1 DEF ChoosingPacks
    <3> QED BY <2>4, <3>2 DEF Conversation
  <2>6. CASE step = "ended"
    BY <1>1, <2>2, <2>4, <2>6 DEF ChoosingPacks, HandlerLeft, Conversation
  <2> QED BY <2>1, <2>5, <2>6
<1>6. CASE client.phase = "Packs"
  <2>1. /\ step = "configAck" /\ toServer = <<>>
        /\ toClient = <<Plain("ConfigurationData"), Plain("FinishConfiguration")>>
    BY <1>1, <1>6 DEF Conversation, ChoosingPacks, OnTheWay, HandlerLeft
  <2>2. toClient[1].kind = "ConfigurationData" /\ toClient' = <<Plain("FinishConfiguration")>>
    BY <1>1, <2>1, ShortSequences DEF Plain, Packet
  <2>3. done = Answer(<<>>, "Data")
    BY <1>6, <2>2 DEF Understood, done
  <2>4. toServer' = <<>> /\ client'.phase = "Data"
    BY <1>2, <2>1, <2>3
  <2> QED BY <1>1, <2>1, <2>2, <2>4 DEF Conversation, ReadingData, OnTheWay
<1>7. CASE client.phase = "Data"
  <2>1. /\ step = "configAck" /\ toServer = <<>> /\ toClient = <<Plain("FinishConfiguration")>>
    BY <1>1, <1>7 DEF Conversation, ReadingData, OnTheWay
  <2>2. toClient[1].kind = "FinishConfiguration" /\ toClient' = <<>>
    BY <1>1, <2>1, ShortSequences DEF Plain, Packet
  <2>3. done = Answer(<<Plain("ConfigurationAcknowledged")>>, "Play")
    BY <1>7, <2>2 DEF Understood, done
  <2>4. toServer' = <<Plain("ConfigurationAcknowledged")>> /\ client'.phase = "Play"
    BY <1>2, <2>1, <2>3, ShortSequences
  <2>5. EnteringPlay'
    BY <1>1, <2>1, <2>2, <2>4 DEF EnteringPlay, OnTheWay
  <2> QED BY <2>4, <2>5 DEF Conversation
<1> QED BY <1>1, <1>3, <1>4, <1>5, <1>6, <1>7 DEF Conversation

\* The other steps of a client before Play.
LEMMA ClientTalk ==
  ASSUME TalkInv, ClientStep, UNCHANGED playVars
  PROVE  TalkInv'
<1>1. UNCHANGED <<conforms, events, step>>
      /\ client' = [f \in {"phase", "informed"} |-> client'[f]]
  BY DEF ClientStep, Open, Receive, Inform, Leave, Stray, ServerRest, playVars, TalkInv
<1>2. CASE Receive
  BY <1>1, <1>2, ReceptionTalk DEF TalkInv, Receive
<1>3. CASE Leave
  BY <1>1, <1>3 DEF Leave, TalkInv, Conversation
<1>4. CASE Stray
  BY <1>1, <1>4 DEF Stray, TalkInv
<1>5. ASSUME NEW intent \in {1, 2}, Open(intent) PROVE TalkInv'
  <2>1. conforms /\ step = "handshake" /\ toServer = <<>> /\ toClient = <<>>
        /\ client'.phase = (IF intent = 1 THEN "Status" ELSE "Login")
        /\ toClient' = toClient
        /\ toServer' = <<>> \o <<Packet("Handshake", intent),
             IF intent = 1 THEN Plain("StatusRequest") ELSE Packet("LoginStart", 1)>>
    BY <1>5 DEF Open, ClientSends, TalkInv, Conversation, Silence, OnTheWay
  <2>2. CASE intent = 1
    BY <1>1, <2>1, <2>2, ShortSequences DEF TalkInv, Conversation, AskingStatus, OnTheWay
  <2>3. CASE intent = 2
    BY <1>1, <2>1, <2>3, ShortSequences DEF TalkInv, Conversation, LoggingIn, OnTheWay
  <2> QED BY <2>2, <2>3
<1>6. CASE Inform
  <2> DEFINE i == Plain("ClientInformation")
  <2>1. /\ conforms /\ Configuring /\ client'.phase = "Configuration"
        /\ toServer' = toServer \o <<i>> /\ toClient' = toClient
    BY <1>6 DEF Inform, ClientSends, TalkInv, Conversation
  <2>2. i \in ConfigurationPackets /\ i.kind = "ClientInformation"
    BY DEF Plain, Packet, ConfigurationPackets
  <2> HIDE DEF i
  <2>3. ASSUME NEW q \in Seq(ConfigurationPackets), Noise(q)
        PROVE  Append(q, i) \in Seq(ConfigurationPackets) /\ Noise(Append(q, i))
    BY <2>2, <2>3 DEF Noise
  <2>4. Configuring'
    <3>1. CASE /\ step = "loginAck" /\ toClient = <<>>
               /\ toServer \in Seq(ConfigurationPackets) /\ toServer # <<>>
               /\ toServer[1] = Plain("LoginAcknowledged") /\ Noise(Tail(toServer))
      <4>1. /\ toServer' = Append(toServer, i) /\ toServer' \in Seq(ConfigurationPackets)
            /\ toServer' # <<>> /\ toServer'[1] = toServer[1]
            /\ Tail(toServer') = Append(Tail(toServer), i)
            /\ Tail(toServer) \in Seq(ConfigurationPackets)
        BY <2>1, <2>2, <3>1
      <4>2. Noise(Tail(toServer'))
        BY <2>3, <3>1, <4>1
      <4> QED BY <1>1, <2>1, <3>1, <4>1, <4>2 DEF Configuring, Noise
    <3>2. CASE /\ step = "knownPacks" /\ toClient = <<Plain("SelectKnownPacks")>>
               /\ toServer \in Seq(ConfigurationPackets) /\ Noise(toServer)
      <4>1. toServer' = Append(toServer, i)
        BY <2>1, <2>2, <3>2
      <4> QED BY <1>1, <2>1, <2>3, <3>2, <4>1 DEF Configuring, Noise
    <3>3. CASE HandlerLeft(<<>>) \/ HandlerLeft(<<Plain("SelectKnownPacks")>>)
      BY <1>1, <2>1, <3>3 DEF Configuring, HandlerLeft
    <3> QED BY <2>1, <3>1, <3>2, <3>3 DEF Configuring
  <2> QED BY <1>1, <2>1, <2>4 DEF TalkInv, Conversation
<1> QED BY <1>2, <1>3, <1>4, <1>5, <1>6 DEF ClientStep

\* What is appended to a packet on its way leaves it the first.
LEMMA FirstStays ==
  ASSUME NEW q, IsSequence(q), q # <<>>, NEW r, IsSequence(r)
  PROVE  IsSequence(q \o r) /\ q \o r # <<>> /\ (q \o r)[1] = q[1]
<1>1. PICK S : q \in Seq(S)
  BY DEF IsSequence
<1>2. PICK T : r \in Seq(T)
  BY DEF IsSequence
<1>3. q \in Seq(S \cup T) /\ r \in Seq(S \cup T)
  BY <1>1, <1>2
<1>4. /\ q \o r \in Seq(S \cup T) /\ Len(q \o r) = Len(q) + Len(r)
      /\ Len(q) \in Nat \ {0} /\ Len(r) \in Nat
      /\ \A i \in 1 .. Len(q) : (q \o r)[i] = q[i]
  BY <1>3, EmptySeq, ConcatProperties
<1>5. (q \o r)[1] = q[1] /\ Len(q \o r) # 0
  BY <1>4
<1> QED BY <1>4, <1>5 DEF IsSequence

\* What replication queues for an event is a sequence.
LEMMA OutputsAreSequences ==
  ASSUME NEW e \in EventTypes
  PROVE  IsSequence(OutputsOf(e))
<1>1. \A a : <<a>> \in Seq({a})
  OBVIOUS
<1>2. \A a, b : <<a, b>> \in Seq({a, b})
  OBVIOUS
<1>3. \A a : IsSequence(<<a>>)
  BY <1>1 DEF IsSequence
<1>4. \A a, b : IsSequence(<<a, b>>)
  BY <1>2 DEF IsSequence
<1>5. e.kind \in {"teleported", "killed", "broadcast", "respawned"}
  BY DEF EventTypes
<1> QED BY <1>3, <1>4, <1>5 DEF OutputsOf

\* Steps of the loop, and of the rest of the server: a conforming client has
\* entered Play, or has yet to read that it has.
LEMMA PublishedEvents ==
  ASSUME events \in Seq(EventTypes), NEW kind, NEW at,
         \/ kind \in {"teleported", "respawned"} /\ at \in Positions
         \/ kind \in {"killed", "broadcast"} /\ at = 0,
         Publishes(kind, at)
  PROVE  events' \in Seq(EventTypes)
<1>1. [kind |-> kind, at |-> at] \in EventTypes
  BY DEF EventTypes
<1> QED BY <1>1 DEF Publishes

\* A step of the loop.
LEMMA LoopTalk ==
  ASSUME TalkInv, LoopStep
  PROVE  TalkInv'
<1>1. UNCHANGED <<conforms, client>>
  BY DEF LoopStep, ReadBootstrap, Request, ReadAnswer, ReadTick, ReadUndecodable, ReadHarmless,
         ReadChat, ReadCommand, ReadUnknown, ReadMovement, Synchronize, ReadRespawn, PlayEnds,
         Unaffected, PlayersSide, Rest
<1>2. events' \in Seq(EventTypes)
  <2>1. Spawn \in Positions /\ Destinations \subseteq Positions
    BY PlayLoopAssumption DEF Positions
  <2>2. ASSUME NEW acts, Executes(acts) PROVE events' \in Seq(EventTypes)
    BY <2>1, <2>2, PublishedEvents DEF Executes, TeleportTo, Kill, TalkInv
  <2>3. CASE ReadChat
    BY <2>1, <2>3, PublishedEvents DEF ReadChat, TalkInv
  <2>4. CASE ReadCommand
    BY <2>2, <2>4 DEF ReadCommand, TalkInv
  <2>5. CASE ReadRespawn
    BY <2>1, <2>5, PublishedEvents DEF ReadRespawn, Respawns, TalkInv
  <2>6. CASE UNCHANGED events
    BY <2>6 DEF TalkInv
  <2> QED BY <2>3, <2>4, <2>5, <2>6
          DEF LoopStep, ReadBootstrap, Request, ReadAnswer, ReadTick, ReadUndecodable,
              ReadHarmless, ReadUnknown, ReadMovement, Synchronize, PlayEnds, Unaffected,
              PlayersSide, GameRest
<1>3. ASSUME conforms PROVE client.phase \in {"InWorld", "gone"}
  <2>1. /\ step \in {"bootstrap", "request", "read", "moving"}
        /\ toServer = <<>> /\ step = "bootstrap" => client.phase = "gone"
    BY <1>3 DEF LoopStep, ReadBootstrap, Request, ReadAnswer, ReadTick, ReadUndecodable,
         ReadHarmless, ReadChat, ReadCommand, ReadUnknown, ReadMovement, Synchronize,
         ReadRespawn, PlayEnds, Gets, Reads
  <2> QED BY <1>3, <2>1 DEF TalkInv, Conversation, Silence, AskingStatus, LoggingIn, Configuring,
                            ChoosingPacks, ReadingData, EnteringPlay, OnTheWay, HandlerLeft
<1> QED BY <1>1, <1>2, <1>3 DEF TalkInv, Conversation

\* A step of the rest of the server.
LEMMA ServerTalk ==
  ASSUME TalkInv, Command \/ Dispatch \/ ForeignRequest
  PROVE  TalkInv'
<1>1. CASE Command
  <2>1. UNCHANGED <<conforms, client, step, toServer, toClient>> /\ \E acts : Executes(acts)
    BY <1>1 DEF Command, connVars
  <2>2. events' \in Seq(EventTypes)
    BY <2>1, PublishedEvents DEF Executes, TeleportTo, Kill, TalkInv, Positions
  <2>3. Conversation <=> Conversation'
    BY <2>1 DEF Conversation, Silence, AskingStatus, LoggingIn, Configuring, ChoosingPacks,
                ReadingData, EnteringPlay, OnTheWay, HandlerLeft, Noise
  <2> QED BY <2>1, <2>2, <2>3 DEF TalkInv
<1>2. CASE Dispatch \/ ForeignRequest
  <2>1. PICK r : /\ IsSequence(r) /\ toClient' = toClient \o r
                 /\ UNCHANGED <<conforms, client, step, toServer>> /\ InPlay
                 /\ events' \in Seq(EventTypes)
    <3>1. CASE Dispatch
      <4>1. events[1] \in EventTypes /\ Tail(events) \in Seq(EventTypes)
        BY <3>1, HeadTailProperties DEF Dispatch, TalkInv
      <4> QED BY <3>1, <4>1, OutputsAreSequences DEF Dispatch
    <3>2. CASE ForeignRequest
      <4>1. \A a : <<a>> \in Seq({a})
        OBVIOUS
      <4>2. \A a : IsSequence(<<a>>)
        BY <4>1 DEF IsSequence
      <4> QED BY <3>2, <4>2 DEF ForeignRequest, Sends, MayAct, TalkInv
    <3> QED BY <1>2, <3>1, <3>2
  <2>2. ASSUME conforms PROVE Conversation'
    <3>1. client.phase \in {"InWorld", "gone"} \/ (client.phase = "Play" /\ EnteringPlay)
      BY <2>1, <2>2 DEF InPlay, TalkInv, Conversation, Silence, AskingStatus, LoggingIn,
           Configuring, ChoosingPacks, ReadingData, OnTheWay, HandlerLeft
    <3>2. ASSUME EnteringPlay PROVE EnteringPlay'
      <4>1. /\ step = "bootstrap" /\ toServer = <<>>
            /\ IsSequence(toClient) /\ toClient # <<>> /\ toClient[1] = Plain("PlayLogin")
        BY <2>1, <3>2 DEF InPlay, EnteringPlay, OnTheWay, HandlerLeft
      <4> QED BY <2>1, <4>1, FirstStays DEF EnteringPlay, IsSequence
    <3> QED BY <2>1, <3>1, <3>2 DEF Conversation
  <2> QED BY <2>1, <2>2 DEF TalkInv
<1> QED BY <1>1, <1>2

\* Packets of the game, from the server and from a conforming client.
ServerPacket(p) ==
  /\ p.kind \in WorldKinds \cup {"PlayDisconnect"}
  /\ p.kind = "Teleport" => p.n \in Nat /\ p.to \in Positions
ClientPacket(p) ==
  \/ p.kind \in {"Turn", "Tick", "Other", "ClientCommand"} /\ p.n = 0
  \/ p.kind \in {"Chat", "ChatCommand", "ChunkBatch"} /\ p.n = 1
  \/ p.kind = "Move" /\ p.n \in Positions
  \/ p.kind = "Accept" /\ p.n \in Nat
  \/ p.kind = "KeepAlive"
FromServer(q) == IsSequence(q) /\ \A i \in 1 .. Len(q) : ServerPacket(q[i])
FromClient(q) == IsSequence(q) /\ \A i \in 1 .. Len(q) : ClientPacket(q[i])

\* Packets of the game, once the first is read.
LEMMA FromServerRead ==
  ASSUME NEW q, FromServer(q), q # <<>>
  PROVE  FromServer(Tail(q)) /\ ServerPacket(q[1])
<1>1. /\ IsSequence(Tail(q)) /\ Len(q) \in Nat /\ Len(q) >= 1 /\ Len(Tail(q)) = Len(q) - 1
      /\ \A i \in 1 .. (Len(q) - 1) : Tail(q)[i] = q[i + 1]
  BY TailFacts DEF FromServer
<1> QED BY <1>1 DEF FromServer

\* And once one more is sent.
LEMMA FromServerSent ==
  ASSUME NEW q, FromServer(q), NEW p, ServerPacket(p)
  PROVE  FromServer(Append(q, p))
<1>1. /\ IsSequence(Append(q, p)) /\ Len(q) \in Nat /\ Len(Append(q, p)) = Len(q) + 1
      /\ \A i \in 1 .. Len(q) : Append(q, p)[i] = q[i]
      /\ Append(q, p)[Len(q) + 1] = p
  BY AppendFacts DEF FromServer
<1>2. \A i \in 1 .. (Len(q) + 1) : i = Len(q) + 1 \/ i \in 1 .. Len(q)
  BY <1>1
<1> QED BY <1>1, <1>2 DEF FromServer

\* Packets of a client, once the first is read.
LEMMA FromClientRead ==
  ASSUME NEW q, FromClient(q), q # <<>>
  PROVE  FromClient(Tail(q)) /\ ClientPacket(q[1])
<1>1. /\ IsSequence(Tail(q)) /\ Len(q) \in Nat /\ Len(q) >= 1 /\ Len(Tail(q)) = Len(q) - 1
      /\ \A i \in 1 .. (Len(q) - 1) : Tail(q)[i] = q[i + 1]
  BY TailFacts DEF FromClient
<1> QED BY <1>1 DEF FromClient

\* And once one more is sent.
LEMMA FromClientSent ==
  ASSUME NEW q, FromClient(q), NEW p, ClientPacket(p)
  PROVE  FromClient(Append(q, p))
<1>1. /\ IsSequence(Append(q, p)) /\ Len(q) \in Nat /\ Len(Append(q, p)) = Len(q) + 1
      /\ \A i \in 1 .. Len(q) : Append(q, p)[i] = q[i]
      /\ Append(q, p)[Len(q) + 1] = p
  BY AppendFacts DEF FromClient
<1>2. \A i \in 1 .. (Len(q) + 1) : i = Len(q) + 1 \/ i \in 1 .. Len(q)
  BY <1>1
<1> QED BY <1>1, <1>2 DEF FromClient

\* Steps of a client in Play.
LEMMA PlayerTalk ==
  ASSUME TalkInv, InWorld => FromServer(toClient), PlayerStep
  PROVE  TalkInv'
<1>1. CASE Inhabit
  <2>1. conforms /\ UNCHANGED <<conforms, events>> /\ toClient # <<>>
    BY <1>1 DEF Inhabit, ServerUntouched
  <2>2. \/ client' = client /\ client.phase = "InWorld"
        \/ client' = [client EXCEPT !.phase = "gone"]
        \/ /\ client.phase = "Play" /\ toClient[1].kind # "PlayDisconnect"
           /\ client' = [client EXCEPT !.phase = IF toClient[1].kind = "PlayLogin"
                                                 THEN "InWorld" ELSE "confused"]
    <3>1. InWorld => toClient[1].kind \in WorldKinds \cup {"PlayDisconnect"}
      BY <2>1, FromServerRead DEF ServerPacket
    <3> QED BY <1>1, <3>1 DEF Inhabit, InWorld
  <2>3. client.phase = "Play" => toClient[1].kind = "PlayLogin"
    BY <2>1 DEF TalkInv, Conversation, EnteringPlay, OnTheWay, HandlerLeft, Plain, Packet
  <2>4. client'.phase \in {"InWorld", "gone"}
        /\ client' = [f \in {"phase", "informed"} |-> client'[f]]
    BY <2>2, <2>3 DEF TalkInv
  <2> QED BY <2>1, <2>4 DEF TalkInv, Conversation
<1>2. CASE Walk \/ Idle \/ Speak \/ AskRespawn
  BY <1>2 DEF Walk, Idle, Speak, AskRespawn, InWorld, ServerUntouched, TalkInv, Conversation
<1> QED BY <1>1, <1>2 DEF PlayerStep

---------------------------------------------------------------------------
(* The types of the game, and what a step of the loop does to each of the  *)
(* parts that the properties relate.                                       *)

AvatarFields == {"at", "view", "alive", "placed", "asked"}
HistoryFields == {"acts", "foreign", "teleported"}
LoopTypes(l) ==
  /\ IsLoop(l)
  /\ l.player \in Positions /\ l.center \in Int /\ IsFiniteSet(l.loaded)
  /\ l.ignored \in Nat /\ l.id \in Nat \ {0}
EntityTypes == entity \in [at : Positions, dead : BOOLEAN]
AvatarTypes ==
  /\ avatar = [f \in AvatarFields |-> avatar[f]]
  /\ avatar.at \in Positions
  /\ avatar.alive \in BOOLEAN /\ avatar.placed \in BOOLEAN /\ avatar.asked \in BOOLEAN
HistoryTypes ==
  /\ history = [f \in HistoryFields |-> history[f]]
  /\ history.acts \in Nat /\ history.foreign \in Nat /\ history.teleported \in BOOLEAN
Fresh ==
  /\ loop = NewLoop /\ entity = [at |-> Spawn, dead |-> FALSE] /\ events = <<>>
  /\ avatar = NewAvatar /\ history = Quiet
PacketTypes ==
  /\ InWorld => step \notin PreplaySteps /\ FromServer(toClient) /\ FromClient(toServer)
  /\ conforms /\ client.phase = "Play" /\ step = "bootstrap" => FromServer(Tail(toClient))
Types ==
  /\ LoopTypes(loop) /\ EntityTypes /\ AvatarTypes /\ HistoryTypes
  /\ step \in PreplaySteps => Fresh
  /\ step # "ended" => outcome = "open"
  /\ IsSequence(toClient) /\ PacketTypes

\* A position's chunk has a number.
LEMMA ChunksAreNumbers ==
  ASSUME NEW p \in Positions
  PROVE  ChunkOf(p) \in Int
BY PlayLoopAssumption DEF Positions

\* The spawn is a place.
LEMMA SpawnIsThere == Spawn \in Places /\ Spawn \in Positions /\ ChunkOf(Spawn) \in Int
BY PlayLoopAssumption, ChunksAreNumbers DEF Positions

\* The chunks around another are finitely many.
LEMMA AroundIsFinite ==
  ASSUME NEW c \in Int
  PROVE  IsFiniteSet(Around(c)) /\ c \in Around(c)
<1>1. c - Radius \in Int /\ c + Radius \in Int
  BY PlayLoopAssumption
<1>2. IsFiniteSet(Around(c))
  BY <1>1, FS_Interval DEF Around
<1>3. c \in Around(c)
  BY PlayLoopAssumption DEF Around
<1> QED BY <1>2, <1>3

\* The loop after it has followed the player.
LEMMA FollowedTypes ==
  ASSUME NEW l, LoopTypes(l), NEW c \in Int
  PROVE  /\ LoopTypes(Recentered(l, c)) /\ LoopTypes(Followed(l, c))
         /\ Recentered(l, c) = [l EXCEPT !.center = c, !.loaded = Around(c)]
         /\ Followed(l, c).center = c
         /\ Followed(l, c).player = l.player /\ Followed(l, c).ignored = l.ignored
         /\ Followed(l, c).id = l.id /\ Followed(l, c).acked = l.acked
<1>1. LoopTypes(Recentered(l, c))
  BY AroundIsFinite DEF LoopTypes, IsLoop, LoopFields, Recentered
<1> QED BY <1>1 DEF Followed, Recentered, LoopTypes, IsLoop, LoopFields

\* The foot of the loop changes its number of the request only.
LEMMA FootTypes ==
  ASSUME NEW l, LoopTypes(l), AfterPacket(l)
  PROVE  /\ LoopTypes(loop') /\ step' \in {"request", "read"} /\ UNCHANGED outcome
         /\ loop'.player = l.player /\ loop'.center = l.center /\ loop'.loaded = l.loaded
         /\ loop'.ignored = l.ignored /\ loop'.acked = l.acked
         /\ step' = "read" => loop'.id = l.id
         /\ step' = "request" => l.acked
<1>1. \/ loop' = [l EXCEPT !.id = @ + 1] /\ step' = "request" /\ l.acked
      \/ loop' = l /\ step' = "read"
  BY DEF AfterPacket, RoundOver, Goes
<1>2. UNCHANGED outcome
  BY DEF AfterPacket, Goes
<1> QED BY <1>1, <1>2 DEF LoopTypes, IsLoop, LoopFields

---------------------------------------------------------------------------
\* The view: a step of the loop leaves it, perhaps with another packet, or
\* sends what changes it.
Neutral == {"KeepAlive", "SystemChat"}
ViewStays(l) == l.center = loop.center /\ l.loaded = loop.loaded
ViewStep ==
  \/ ViewStays(loop') /\ toClient' = toClient
  \/ ViewStays(loop') /\ \E p : p.kind \in Neutral /\ toClient' = toClient \o <<p>>
  \/ \E c \in Int :
       /\ toClient' = toClient \o <<Delta(loop, c)>>
       /\ loop'.center = c /\ loop'.loaded = Around(c)

\* Following the player, or not having to.
LEMMA FollowingIsAViewStep ==
  ASSUME NEW l, l.center = loop.center, l.loaded = loop.loaded, LoopTypes(l), NEW c \in Int,
         Sends(Following(l, c)), IsSequence(toClient),
         loop'.center = Followed(l, c).center, loop'.loaded = Followed(l, c).loaded
  PROVE  ViewStep
<1>1. CASE c = l.center
  <2>1. toClient' = toClient
    BY <1>1, ConcatFacts DEF Sends, Following
  <2> QED BY <1>1, <2>1 DEF ViewStep, ViewStays, Followed
<1>2. CASE c # l.center
  <2>1. Delta(l, c) = Delta(loop, c)
    BY DEF Delta
  <2>2. toClient' = toClient \o <<Delta(loop, c)>>
    BY <1>2, <2>1 DEF Sends, Following
  <2>3. loop'.center = c /\ loop'.loaded = Around(c)
    BY <1>2 DEF Followed, Recentered, LoopTypes, IsLoop, LoopFields
  <2> QED BY <2>2, <2>3 DEF ViewStep
<1> QED BY <1>1, <1>2

\* A reason that ends the connection, perhaps after a change of the view.
Farewell ==
  /\ step' = "ended" /\ outcome' # "open"
  /\ \/ toClient' = toClient
     \/ toClient' = toClient \o <<Plain("PlayDisconnect")>>
     \/ \E c : toClient' = toClient \o <<Delta(loop, c), Plain("PlayDisconnect")>>

\* The loop fails before it has sent anything,
LEMMA FailureIsAFarewell ==
  ASSUME Fails(<<>>)
  PROVE  Farewell
BY ShortSequences DEF Fails, Sends, Ends, Farewell

\* or after it has followed the player.
LEMMA LateFailureIsAFarewell ==
  ASSUME NEW l, l.center = loop.center, l.loaded = loop.loaded, NEW c, Fails(Following(l, c))
  PROVE  Farewell
<1>1. \A a, b : <<a>> \o <<b>> = <<a, b>>
  BY PairConcat
<1>2. Following(l, c) = <<>> \/ Following(l, c) = <<Delta(loop, c)>>
  BY DEF Following, Delta
<1>3. \/ toClient' = toClient \o (<<>> \o <<Plain("PlayDisconnect")>>)
      \/ toClient' = toClient \o (<<Delta(loop, c)>> \o <<Plain("PlayDisconnect")>>)
  BY <1>2 DEF Fails, Sends
<1> QED BY <1>1, <1>3, ShortSequences DEF Fails, Ends, Farewell

---------------------------------------------------------------------------
\* A step of the loop: the records it keeps, what it reads, and what it sends.
Takes == toServer' = toServer \/ (toServer # <<>> /\ toServer' = Tail(toServer))
Going == step' \in {"bootstrap", "request", "read", "moving"} /\ UNCHANGED outcome
Traffic == Takes /\ (Farewell \/ (Going /\ ViewStep))
Kept == LoopTypes(loop') /\ EntityTypes' /\ HistoryTypes'

\* A packet of the bootstrap.
LEMMA BootstrapEffect ==
  ASSUME Types, IsSequence(toClient), ReadBootstrap
  PROVE  Kept /\ Traffic
<1> DEFINE l == [loop EXCEPT !.accepted = @ \/ Incoming.kind = "Accept",
                             !.batched = @ \/ Incoming.kind = "ChunkBatch",
                             !.ignored = @ + 1]
           m == [l EXCEPT !.ignored = 0]
<1>1. /\ LoopTypes(l) /\ l.center = loop.center /\ l.loaded = loop.loaded
      /\ LoopTypes(m) /\ m.center = loop.center /\ m.loaded = loop.loaded
  <2>1. LoopTypes(loop)
    BY DEF Types
  <2>2. IsLoop(l) /\ l.player = loop.player /\ l.center = loop.center /\ l.loaded = loop.loaded
        /\ l.id = loop.id /\ l.ignored = loop.ignored + 1
    BY <2>1 DEF LoopTypes, IsLoop, LoopFields
  <2> HIDE DEF l
  <2>3. LoopTypes(l)
    BY <2>1, <2>2 DEF LoopTypes
  <2>4. LoopTypes(m) /\ m.center = l.center /\ m.loaded = l.loaded
    BY <2>3 DEF LoopTypes, IsLoop, LoopFields
  <2> QED BY <2>2, <2>3, <2>4
<1> HIDE DEF l, m
<1>2. \/ Fails(<<>>) /\ UNCHANGED loop
      \/ LoopStarts(m)
      \/ loop' = l /\ Goes("bootstrap") /\ UNCHANGED toClient
  BY DEF ReadBootstrap, l, m
<1>3. Takes /\ UNCHANGED <<entity, history>>
  BY DEF ReadBootstrap, Reads, Consumes, Takes, Unaffected, GameRest
<1>4. EntityTypes' /\ HistoryTypes'
  BY <1>3 DEF Types, EntityTypes, HistoryTypes
<1>5. CASE Fails(<<>>) /\ UNCHANGED loop
  BY <1>3, <1>4, <1>5, FailureIsAFarewell DEF Types, Kept, Traffic
<1>6. CASE LoopStarts(m)
  <2>1. /\ loop' = Recentered(m, m.center) /\ step' = "request" /\ UNCHANGED outcome
        /\ toClient' = toClient \o <<Delta(m, m.center)>>
    BY <1>6 DEF LoopStarts, Sends, Goes
  <2>2. Delta(m, m.center) = Delta(loop, loop.center)
    BY <1>1 DEF Delta
  <2>3. loop.center \in Int
    BY DEF Types, LoopTypes
  <2>4. PICK c \in Int : c = loop.center
    BY <2>3
  <2>6. loop' = Recentered(m, c)
    BY <1>1, <2>1, <2>4
  <2>7. LoopTypes(loop') /\ loop' = [m EXCEPT !.center = c, !.loaded = Around(c)]
    BY <1>1, <2>6, FollowedTypes
  <2>8. loop'.center = c /\ loop'.loaded = Around(c)
    BY <1>1, <2>7 DEF LoopTypes, IsLoop, LoopFields
  <2>5. ViewStep
    BY <2>1, <2>2, <2>4, <2>8 DEF ViewStep
  <2> QED BY <1>3, <1>4, <2>1, <2>5, <2>7 DEF Kept, Traffic, Going
<1>7. CASE loop' = l /\ Goes("bootstrap") /\ UNCHANGED toClient
  <2>1. ViewStep
    BY <1>1, <1>7 DEF ViewStep, ViewStays
  <2> QED BY <1>1, <1>3, <1>4, <1>7, <2>1 DEF Kept, Traffic, Going, Goes
<1> QED BY <1>2, <1>5, <1>6, <1>7

\* Steps at whose end the loop is one that has the view of the loop before.
LEMMA FootEffect ==
  ASSUME Types, NEW l, LoopTypes(l), ViewStays(l), AfterPacket(l), Takes,
         EntityTypes', HistoryTypes',
         \/ toClient' = toClient
         \/ \E p : p.kind \in Neutral /\ toClient' = toClient \o <<p>>
  PROVE  Kept /\ Traffic
<1>1. /\ LoopTypes(loop') /\ step' \in {"request", "read"} /\ UNCHANGED outcome
      /\ loop'.center = l.center /\ loop'.loaded = l.loaded
  BY FootTypes
<1>2. ViewStep
  BY <1>1 DEF ViewStep, ViewStays
<1> QED BY <1>1, <1>2 DEF Kept, Traffic, Going

\* The head of a round.
LEMMA RequestEffect ==
  ASSUME Types, Request
  PROVE  Kept /\ Traffic
<1>1. LoopTypes(loop') /\ ViewStays(loop')
  BY DEF Types, LoopTypes, IsLoop, LoopFields, ViewStays, Request
<1>2. Takes /\ Going /\ UNCHANGED <<entity, history>>
  BY DEF Request, Takes, Going, Goes, Unaffected, GameRest
<1>3. toClient' = toClient \o <<Packet("KeepAlive", loop.id)>>
      /\ Packet("KeepAlive", loop.id).kind \in Neutral
  BY DEF Request, Sends, Packet, Neutral
<1>4. ViewStep
  BY <1>1, <1>3 DEF ViewStep
<1> QED BY <1>1, <1>2, <1>4 DEF Kept, Traffic, Types, EntityTypes, HistoryTypes

\* What a command does keeps the types.
LEMMA CommandTypes ==
  ASSUME Types, NEW acts \in Nat, Executes(acts) \/ UNCHANGED <<entity, history>>
  PROVE  EntityTypes' /\ HistoryTypes'
<1>1. Destinations \subseteq Positions
  BY DEF Positions
<1> QED BY <1>1 DEF Types, EntityTypes, HistoryTypes, HistoryFields, Executes, TeleportTo, Kill

\* Packets that leave the player where it is.
LEMMA ReadingEffect ==
  ASSUME Types,
         \/ ReadAnswer \/ ReadTick \/ ReadHarmless \/ ReadChat \/ ReadCommand \/ ReadUnknown
         \/ ReadUndecodable \/ PlayEnds
  PROVE  Kept /\ Traffic
<1>1. LoopTypes(loop) /\ EntityTypes /\ HistoryTypes
  BY DEF Types
<1>2. ASSUME Takes, UNCHANGED <<loop, entity, history>>, Fails(<<>>) PROVE Kept /\ Traffic
  BY <1>1, <1>2, FailureIsAFarewell DEF Kept, Traffic, EntityTypes, HistoryTypes
<1>3. ASSUME UNCHANGED <<entity, history>> PROVE EntityTypes' /\ HistoryTypes'
  BY <1>1, <1>3 DEF EntityTypes, HistoryTypes
<1>4. CASE ReadAnswer
  <2> DEFINE l == [loop EXCEPT !.acked = TRUE]
  <2>1. LoopTypes(l) /\ ViewStays(l)
    BY <1>1 DEF LoopTypes, IsLoop, LoopFields, ViewStays
  <2>2. Takes /\ UNCHANGED <<entity, history>>
    BY <1>4 DEF ReadAnswer, Gets, Reads, Consumes, Takes, Unaffected, GameRest
  <2>3. \/ Fails(<<>>) /\ UNCHANGED loop
        \/ AfterPacket(l) /\ UNCHANGED toClient
    BY <1>4 DEF ReadAnswer
  <2> HIDE DEF l
  <2> QED BY <1>2, <1>3, <2>1, <2>2, <2>3, FootEffect
<1>5. CASE ReadTick
  <2> DEFINE l == [loop EXCEPT !.ticks = IF @ < Interval THEN @ + 1 ELSE @]
  <2>1. LoopTypes(l) /\ ViewStays(l)
    BY <1>1 DEF LoopTypes, IsLoop, LoopFields, ViewStays
  <2>2. Takes /\ UNCHANGED <<entity, history>> /\ AfterPacket(l) /\ UNCHANGED toClient
    BY <1>5 DEF ReadTick, Gets, Reads, Consumes, Takes, Unaffected, GameRest
  <2> HIDE DEF l
  <2> QED BY <1>3, <2>1, <2>2, FootEffect
<1>6. CASE ReadHarmless \/ ReadChat
  <2>1. ViewStays(loop)
    BY DEF ViewStays
  <2>2. Takes /\ UNCHANGED <<entity, history>> /\ AfterPacket(loop) /\ UNCHANGED toClient
    BY <1>6 DEF ReadHarmless, ReadChat, Gets, Reads, Consumes, Takes, Unaffected, GameRest,
                PlayersSide
  <2> QED BY <1>1, <1>3, <2>1, <2>2, FootEffect
<1>7. CASE ReadCommand
  <2>1. ViewStays(loop)
    BY DEF ViewStays
  <2>2. Takes /\ AfterPacket(loop) /\ toClient' = toClient \o <<Plain("SystemChat")>>
        /\ Plain("SystemChat").kind \in Neutral
    BY <1>7 DEF ReadCommand, Gets, Reads, Consumes, Takes, Sends, Plain, Packet, Neutral
  <2>3. history.acts \in Nat
    BY <1>1 DEF HistoryTypes
  <2>4. Executes(history.acts) \/ UNCHANGED <<entity, history>>
    BY <1>7 DEF ReadCommand
  <2>5. EntityTypes' /\ HistoryTypes'
    BY <2>3, <2>4, CommandTypes
  <2> QED BY <1>1, <2>1, <2>2, <2>5, FootEffect
<1>8. CASE ReadUnknown
  <2> DEFINE l == [loop EXCEPT !.ignored = @ + 1]
  <2>1. LoopTypes(l) /\ ViewStays(l)
    BY <1>1 DEF LoopTypes, IsLoop, LoopFields, ViewStays
  <2>2. Takes /\ UNCHANGED <<entity, history>>
    BY <1>8 DEF ReadUnknown, Reads, Consumes, Takes, Unaffected, GameRest
  <2>3. \/ Fails(<<>>) /\ UNCHANGED loop
        \/ AfterPacket(l) /\ UNCHANGED toClient
    BY <1>8 DEF ReadUnknown
  <2> HIDE DEF l
  <2> QED BY <1>2, <1>3, <2>1, <2>2, <2>3, FootEffect
<1>9. CASE ReadUndecodable
  <2>1. Takes /\ UNCHANGED <<loop, entity, history>> /\ Fails(<<>>)
    BY <1>9 DEF ReadUndecodable, Reads, Consumes, Takes, Unaffected, GameRest
  <2> QED BY <1>2, <2>1
<1>10. CASE PlayEnds
  <2>1. Takes /\ UNCHANGED <<loop, entity, history>>
    BY <1>10 DEF PlayEnds, Takes, Unaffected, GameRest
  <2>2. CASE Fails(<<>>)
    BY <1>2, <2>1, <2>2
  <2>3. CASE Ends("done") /\ UNCHANGED toClient
    BY <1>1, <2>1, <2>3 DEF Ends, Farewell, Kept, Traffic, EntityTypes, HistoryTypes
  <2> QED BY <1>10, <2>2, <2>3 DEF PlayEnds
<1> QED BY <1>4, <1>5, <1>6, <1>7, <1>8, <1>9, <1>10

\* The loop that has read where the entity is.
LEMMA RefreshedTypes ==
  ASSUME Types
  PROVE  /\ LoopTypes(Refreshed(loop)) /\ ViewStays(Refreshed(loop))
         /\ Refreshed(loop).player = entity.at /\ Refreshed(loop).ignored = loop.ignored
         /\ Refreshed(loop).id = loop.id /\ Refreshed(loop).acked = loop.acked
         /\ entity.at \in Positions
BY DEF Types, LoopTypes, IsLoop, LoopFields, ViewStays, Refreshed, EntityTypes

\* A movement, up to its synchronize.
LEMMA MovementEffect ==
  ASSUME Types, IsSequence(toClient), ReadMovement
  PROVE  Kept /\ Traffic
<1>1. PICK l : l = Refreshed(loop)
  OBVIOUS
<1>2. PICK c : c = ChunkOf(entity.at)
  OBVIOUS
<1>3. PICK here : here = Followed(l, c)
  OBVIOUS
<1>4. LoopTypes(l) /\ l.center = loop.center /\ l.loaded = loop.loaded /\ c \in Int
  BY <1>1, <1>2, RefreshedTypes, ChunksAreNumbers DEF ViewStays
<1>5. LoopTypes(here)
  BY <1>3, <1>4, FollowedTypes
<1>6. Takes /\ UNCHANGED <<entity, history>>
  BY DEF ReadMovement, Reads, Consumes, Takes, Unaffected, GameRest
<1>7. EntityTypes' /\ HistoryTypes'
  BY <1>6 DEF Types, EntityTypes, HistoryTypes
<1>8. Following(loop, c) = Following(l, c)
  BY <1>4 DEF Following, Delta
<1>9. CASE Acceptable(Incoming)
  <2>1. /\ Sends(Following(l, c)) /\ loop' = Moved(here, Incoming) /\ step' = "moving"
        /\ UNCHANGED outcome /\ Incoming.kind \in MovementKinds
    BY <1>1, <1>2, <1>3, <1>8, <1>9 DEF ReadMovement, Goes
  <2>2. LoopTypes(loop') /\ loop'.center = here.center /\ loop'.loaded = here.loaded
    BY <1>5, <1>9, <2>1 DEF Moved, LoopTypes, IsLoop, LoopFields, MovementKinds, Acceptable,
                                Positions
  <2>3. ViewStep
    BY <1>3, <1>4, <2>1, <2>2, FollowingIsAViewStep
  <2> QED BY <1>6, <1>7, <2>1, <2>2, <2>3 DEF Kept, Traffic, Going
<1>10. CASE ~Acceptable(Incoming)
  <2>1. Fails(Following(l, c)) /\ loop' = here
    BY <1>1, <1>2, <1>3, <1>8, <1>10 DEF ReadMovement
  <2>2. Farewell
    BY <1>4, <2>1, LateFailureIsAFarewell
  <2> QED BY <1>5, <1>6, <1>7, <2>1, <2>2 DEF Kept, Traffic
<1> QED BY <1>9, <1>10

\* The synchronize.
LEMMA SynchronizeEffect ==
  ASSUME Types, IsSequence(toClient), Synchronize
  PROVE  Kept /\ Traffic
<1>1. PICK c : c = ChunkOf(loop.player)
  OBVIOUS
<1>2. PICK l : l = Followed(loop, c)
  OBVIOUS
<1>3. LoopTypes(loop) /\ c \in Int
  BY <1>1, ChunksAreNumbers DEF Types, LoopTypes
<1>4. LoopTypes(l)
  BY <1>2, <1>3, FollowedTypes
<1>5. /\ Takes /\ UNCHANGED history /\ entity' = [entity EXCEPT !.at = loop.player]
      /\ Sends(Following(loop, c)) /\ AfterPacket(l)
  BY <1>1, <1>2 DEF Synchronize, Takes, PlayersSide, Synchronized
<1>6. EntityTypes' /\ HistoryTypes'
  BY <1>3, <1>5 DEF Types, EntityTypes, HistoryTypes, LoopTypes
<1>7. /\ LoopTypes(loop') /\ step' \in {"request", "read"} /\ UNCHANGED outcome
      /\ loop'.center = l.center /\ loop'.loaded = l.loaded
  BY <1>4, <1>5, FootTypes
<1>8. ViewStep
  BY <1>2, <1>3, <1>5, <1>7, FollowingIsAViewStep
<1> QED BY <1>5, <1>6, <1>7, <1>8 DEF Kept, Traffic, Going

\* A request to respawn.
LEMMA RespawnEffect ==
  ASSUME Types, IsSequence(toClient), ReadRespawn
  PROVE  Kept /\ Traffic
<1>1. PICK m : m = [loop EXCEPT !.player = Spawn]
  OBVIOUS
<1>2. PICK c : c = ChunkOf(Spawn)
  OBVIOUS
<1>3. PICK l : l = Followed(m, c)
  OBVIOUS
<1>4. LoopTypes(m) /\ m.center = loop.center /\ m.loaded = loop.loaded /\ c \in Int
  BY <1>1, <1>2, SpawnIsThere DEF Types, LoopTypes, IsLoop, LoopFields
<1>5. LoopTypes(l)
  BY <1>3, <1>4, FollowedTypes
<1>6. Takes /\ UNCHANGED history
  BY DEF ReadRespawn, Gets, Reads, Consumes, Takes, PlayersSide
<1>7. EntityTypes' /\ HistoryTypes'
  <2>1. entity' = [at |-> Spawn, dead |-> FALSE] \/ entity' = entity
    BY DEF ReadRespawn, Respawns
  <2>2. EntityTypes'
    <3>1. CASE entity' = [at |-> Spawn, dead |-> FALSE]
      BY <3>1, SpawnIsThere DEF EntityTypes
    <3>2. CASE entity' = entity
      BY <3>2 DEF Types, EntityTypes
    <3> QED BY <2>1, <3>1, <3>2
  <2> QED BY <1>6, <2>2 DEF Types, HistoryTypes
<1>8. Following(loop, c) = Following(m, c)
  BY <1>4 DEF Following, Delta
<1>9. CASE Sends(Following(m, c)) /\ AfterPacket(l)
  <2>1. /\ LoopTypes(loop') /\ step' \in {"request", "read"} /\ UNCHANGED outcome
        /\ loop'.center = l.center /\ loop'.loaded = l.loaded
    BY <1>5, <1>9, FootTypes
  <2>2. ViewStep
    BY <1>3, <1>4, <1>9, <2>1, FollowingIsAViewStep
  <2> QED BY <1>6, <1>7, <2>1, <2>2 DEF Kept, Traffic, Going
<1>10. CASE AfterPacket(loop) /\ UNCHANGED toClient
  <2>1. LoopTypes(loop) /\ ViewStays(loop)
    BY DEF Types, ViewStays
  <2> QED BY <1>6, <1>7, <1>10, <2>1, FootEffect
<1>11. \/ Sends(Following(m, c)) /\ AfterPacket(l)
       \/ AfterPacket(loop) /\ UNCHANGED toClient
  BY <1>1, <1>2, <1>3, <1>8 DEF ReadRespawn
<1> QED BY <1>9, <1>10, <1>11

\* Any step of the loop.
LEMMA LoopEffect ==
  ASSUME Types, LoopStep
  PROVE  Kept /\ Traffic /\ UNCHANGED <<conforms, client, avatar>>
<1>1. UNCHANGED <<conforms, client, avatar>>
  BY DEF LoopStep, ReadBootstrap, Request, ReadAnswer, ReadTick, ReadUndecodable, ReadHarmless,
         ReadChat, ReadCommand, ReadUnknown, ReadMovement, Synchronize, ReadRespawn, PlayEnds,
         Unaffected, PlayersSide, GameRest, Rest
<1>2. Kept /\ Traffic
  BY BootstrapEffect, RequestEffect, ReadingEffect, MovementEffect, SynchronizeEffect,
     RespawnEffect DEF LoopStep, Types
<1> QED BY <1>1, <1>2

---------------------------------------------------------------------------
\* The other steps, as far as the game is concerned.

\* While the loop runs, a client that conforms and has not left is in the
\* world, or has yet to read that it is.
LEMMA PlayMeetsTheWorld ==
  ASSUME TalkInv, conforms, InPlay
  PROVE  \/ client.phase \in {"InWorld", "gone"}
         \/ /\ client.phase = "Play" /\ step = "bootstrap" /\ toServer = <<>>
            /\ IsSequence(toClient) /\ toClient # <<>> /\ toClient[1] = Plain("PlayLogin")
BY DEF TalkInv, Conversation, InPlay, Silence, AskingStatus, LoggingIn, Configuring, ChoosingPacks,
       ReadingData, EnteringPlay, OnTheWay, HandlerLeft

\* A step of the loop finds a conforming client in the world or gone.
LEMMA LoopMeetsTheWorld ==
  ASSUME TalkInv, LoopStep
  PROVE  InPlay /\ (conforms => client.phase \in {"InWorld", "gone"})
<1>1. InPlay /\ (toServer = <<>> /\ step = "bootstrap" /\ conforms => client.phase = "gone")
  BY DEF LoopStep, ReadBootstrap, Request, ReadAnswer, ReadTick, ReadUndecodable, ReadHarmless,
         ReadChat, ReadCommand, ReadUnknown, ReadMovement, Synchronize, ReadRespawn, PlayEnds,
         Gets, Reads, InPlay
<1> QED BY <1>1, PlayMeetsTheWorld

\* What replication sends of the event it dispatches.
LEMMA DispatchEffect ==
  ASSUME TalkInv, IsSequence(toClient), Dispatch
  PROVE  /\ InPlay /\ events # <<>> /\ events[1] \in EventTypes /\ events' = Tail(events)
         /\ UNCHANGED <<conforms, step, session, outcome, client, toServer, loop, entity,
                        avatar, history>>
         /\ \/ /\ events[1].kind = "teleported"
               /\ toClient' = Append(toClient, Teleport(TeleportId, events[1].at))
            \/ /\ events[1].kind = "killed" /\ toClient' = Append(toClient, Plain("Died"))
            \/ /\ events[1].kind = "broadcast" /\ toClient' = Append(toClient, Plain("SystemChat"))
            \/ /\ events[1].kind = "respawned"
               /\ toClient' = Append(Append(toClient, Plain("Respawned")),
                                     Teleport(TeleportId, events[1].at))
<1>1. events[1] \in EventTypes
  BY HeadTailProperties DEF Dispatch, TalkInv
<1>2. PICK e : e = events[1]
  OBVIOUS
<1>3. e.kind \in {"teleported", "killed", "broadcast", "respawned"}
  BY <1>1, <1>2 DEF EventTypes
<1>4. toClient' = toClient \o OutputsOf(e)
  BY <1>2 DEF Dispatch
<1>5. \A p : toClient \o <<p>> = Append(toClient, p)
  BY AppendFacts
<1>6. \A p, r : toClient \o <<p, r>> = Append(Append(toClient, p), r)
  BY ConcatFacts
<1>7. /\ e.kind = "teleported" => OutputsOf(e) = <<Teleport(TeleportId, e.at)>>
      /\ e.kind = "killed" => OutputsOf(e) = <<Plain("Died")>>
      /\ e.kind = "broadcast" => OutputsOf(e) = <<Plain("SystemChat")>>
      /\ e.kind = "respawned" =>
           OutputsOf(e) = <<Plain("Respawned"), Teleport(TeleportId, e.at)>>
  BY DEF OutputsOf
<1>8. \/ /\ e.kind = "teleported"
         /\ toClient' = Append(toClient, Teleport(TeleportId, e.at))
      \/ /\ e.kind = "killed" /\ toClient' = Append(toClient, Plain("Died"))
      \/ /\ e.kind = "broadcast" /\ toClient' = Append(toClient, Plain("SystemChat"))
      \/ /\ e.kind = "respawned"
         /\ toClient' = Append(Append(toClient, Plain("Respawned")), Teleport(TeleportId, e.at))
  BY <1>3, <1>4, <1>5, <1>6, <1>7
<1> QED BY <1>1, <1>2, <1>8 DEF Dispatch

\* What a client makes of the next packet.
Leaves == client' = [client EXCEPT !.phase = "gone"] /\ UNCHANGED <<toServer, avatar>>
Enters ==
  /\ client.phase = "Play" /\ client' = [client EXCEPT !.phase = "InWorld"]
  /\ step = "bootstrap" /\ toServer = <<>> /\ toClient[1] = Plain("PlayLogin")
  /\ UNCHANGED <<toServer, avatar>>
Lives ==
  /\ client.phase = "InWorld" /\ toClient[1].kind \in WorldKinds /\ UNCHANGED client
  /\ avatar' = AvatarAfter(avatar, toClient[1])
  /\ toServer' = toServer \o AnswersTo(toClient[1])

\* It leaves, enters, or lives on with what the packet changes.
LEMMA InhabitEffect ==
  ASSUME TalkInv, Types, Inhabit
  PROVE  /\ conforms /\ toClient # <<>> /\ toClient' = Tail(toClient)
         /\ UNCHANGED <<conforms, step, session, outcome, loop, entity, events, history>>
         /\ Leaves \/ Enters \/ Lives
<1>1. /\ conforms /\ toClient # <<>> /\ toClient' = Tail(toClient)
      /\ UNCHANGED <<conforms, step, session, outcome, loop, entity, events, history>>
  BY DEF Inhabit, ServerUntouched
<1>2. PICK p : p = toClient[1]
  OBVIOUS
<1>3. \/ /\ client.phase \in {"Play", "InWorld"} /\ p.kind = "PlayDisconnect"
         /\ client' = [client EXCEPT !.phase = "gone"] /\ UNCHANGED <<toServer, avatar>>
      \/ /\ client.phase = "Play" /\ p.kind # "PlayDisconnect"
         /\ client' = [client EXCEPT !.phase = IF p.kind = "PlayLogin" THEN "InWorld"
                                                                       ELSE "confused"]
         /\ UNCHANGED <<toServer, avatar>>
      \/ /\ InWorld /\ p.kind # "PlayDisconnect"
         /\ p.kind \in WorldKinds =>
              avatar' = AvatarAfter(avatar, p) /\ ClientSends(AnswersTo(p)) /\ UNCHANGED client
  BY <1>2 DEF Inhabit
<1>4. ASSUME client.phase = "Play"
      PROVE  step = "bootstrap" /\ toServer = <<>> /\ p = Plain("PlayLogin") /\ p.kind = "PlayLogin"
  BY <1>1, <1>2, <1>4 DEF TalkInv, Conversation, EnteringPlay, OnTheWay, HandlerLeft, Plain, Packet
<1>5. ASSUME InWorld, p.kind # "PlayDisconnect" PROVE p.kind \in WorldKinds
  BY <1>1, <1>2, <1>5, FromServerRead DEF Types, PacketTypes, ServerPacket
<1>6. Leaves \/ Enters \/ Lives
  <2>1. CASE client' = [client EXCEPT !.phase = "gone"] /\ UNCHANGED <<toServer, avatar>>
    BY <2>1 DEF Leaves
  <2>2. CASE /\ client.phase = "Play" /\ p.kind # "PlayDisconnect"
             /\ client' = [client EXCEPT !.phase = IF p.kind = "PlayLogin" THEN "InWorld"
                                                                           ELSE "confused"]
             /\ UNCHANGED <<toServer, avatar>>
    BY <1>2, <1>4, <2>2 DEF Enters
  <2>3. CASE /\ InWorld /\ p.kind # "PlayDisconnect"
             /\ p.kind \in WorldKinds =>
                  avatar' = AvatarAfter(avatar, p) /\ ClientSends(AnswersTo(p)) /\ UNCHANGED client
    BY <1>2, <1>5, <2>3 DEF Lives, InWorld, ClientSends
  <2> QED BY <1>3, <2>1, <2>2, <2>3
<1> QED BY <1>1, <1>6

\* The answers to it, one after the other.
LEMMA AnswersFacts ==
  ASSUME NEW q, IsSequence(q), NEW p, p.kind \in WorldKinds
  PROVE  /\ p.kind = "View" => q \o AnswersTo(p) = Append(q, Packet("ChunkBatch", 1))
         /\ p.kind = "Teleport" =>
              q \o AnswersTo(p) = Append(Append(q, Packet("Accept", p.n)), Packet("Move", p.to))
         /\ p.kind = "KeepAlive" => q \o AnswersTo(p) = Append(q, Packet("KeepAlive", p.n))
         /\ p.kind \in {"SystemChat", "Died", "Respawned"} => q \o AnswersTo(p) = q
<1>1. /\ \A a : q \o <<a>> = Append(q, a)
      /\ \A a, b : q \o <<a, b>> = Append(Append(q, a), b)
      /\ q \o <<>> = q
  BY AppendFacts, ConcatFacts
<1>2. /\ p.kind = "View" => AnswersTo(p) = <<Packet("ChunkBatch", 1)>>
      /\ p.kind = "Teleport" => AnswersTo(p) = <<Packet("Accept", p.n), Packet("Move", p.to)>>
      /\ p.kind = "KeepAlive" => AnswersTo(p) = <<Packet("KeepAlive", p.n)>>
      /\ p.kind \in {"SystemChat", "Died", "Respawned"} => AnswersTo(p) = <<>>
  BY DEF AnswersTo
<1> QED BY <1>1, <1>2

\* What each packet changes of the avatar.
LEMMA AvatarFacts ==
  ASSUME NEW a, a = [f \in AvatarFields |-> a[f]], NEW p, p.kind \in WorldKinds
  PROVE  /\ AvatarAfter(a, p) = [f \in AvatarFields |-> AvatarAfter(a, p)[f]]
         /\ AvatarAfter(a, p).at = (IF p.kind = "Teleport" THEN p.to ELSE a.at)
         /\ AvatarAfter(a, p).view = ShownBy(a.view, p)
         /\ AvatarAfter(a, p).alive
              = (IF p.kind = "Died" THEN FALSE ELSE IF p.kind = "Respawned" THEN TRUE ELSE a.alive)
         /\ AvatarAfter(a, p).placed
              = (IF p.kind = "Teleport" THEN TRUE
                 ELSE IF p.kind = "Respawned" THEN FALSE ELSE a.placed)
         /\ AvatarAfter(a, p).asked = (IF p.kind = "Respawned" THEN FALSE ELSE a.asked)
<1>1. CASE p.kind = "View"
  BY <1>1 DEF AvatarAfter, AvatarFields, ShownBy
<1>2. CASE p.kind = "Teleport"
  BY <1>2 DEF AvatarAfter, AvatarFields, ShownBy
<1>3. CASE p.kind = "Died"
  BY <1>3 DEF AvatarAfter, AvatarFields, ShownBy
<1>4. CASE p.kind = "Respawned"
  BY <1>4 DEF AvatarAfter, AvatarFields, ShownBy
<1>5. CASE p.kind \in {"KeepAlive", "SystemChat"}
  <2>1. AvatarAfter(a, p) = a
    BY <1>5 DEF AvatarAfter
  <2> QED BY <1>5, <2>1 DEF ShownBy
<1> QED BY <1>1, <1>2, <1>3, <1>4, <1>5 DEF WorldKinds

---------------------------------------------------------------------------
\* Types hold after every step.

\* What is sent after a sequence makes a sequence.
LEMMA SentIsSequence ==
  ASSUME NEW q, IsSequence(q)
  PROVE  /\ \A a : IsSequence(q \o <<a>>)
         /\ \A a, b : IsSequence(q \o <<a, b>>)
         /\ \A a, b, c : IsSequence(q \o <<a, b, c>>)
<1>1. PICK S : q \in Seq(S)
  BY DEF IsSequence
<1>2. ASSUME NEW a, NEW b, NEW c
      PROVE IsSequence(q \o <<a>>) /\ IsSequence(q \o <<a, b>>) /\ IsSequence(q \o <<a, b, c>>)
  <2>1. PICK T : T = S \cup {a, b, c}
    OBVIOUS
  <2>2. q \in Seq(T) /\ <<a>> \in Seq(T) /\ <<a, b>> \in Seq(T) /\ <<a, b, c>> \in Seq(T)
    BY <1>1, <2>1
  <2>3. q \o <<a>> \in Seq(T) /\ q \o <<a, b>> \in Seq(T) /\ q \o <<a, b, c>> \in Seq(T)
    BY <2>2
  <2> QED BY <2>3 DEF IsSequence
<1> QED BY <1>2

\* The packets that enter Play are those of the game.
LEMMA EntryPackets ==
  /\ ServerPacket(View(<<Packet("Center", ChunkOf(Spawn)), Packet("Chunk", ChunkOf(Spawn))>>))
  /\ ServerPacket(Teleport(SpawnTeleport, Spawn))
  /\ ServerPacket(Plain("PlayDisconnect")) /\ ServerPacket(Plain("Died"))
  /\ ServerPacket(Plain("SystemChat")) /\ ServerPacket(Plain("Respawned"))
  /\ \A l, c : ServerPacket(Delta(l, c))
  /\ \A at \in Positions : ServerPacket(Teleport(TeleportId, at))
  /\ \A n : ServerPacket(Packet("KeepAlive", n))
BY SpawnIsThere, ConnectionAssumption
   DEF ServerPacket, WorldKinds, View, Teleport, Packet, Plain, Delta, TeleportId

\* After the first packet of three, the others.
LEMMA FirstOfThree ==
  ASSUME NEW a, NEW b, NEW c, ServerPacket(b), ServerPacket(c)
  PROVE  FromServer(Tail(<<a, b, c>>))
<1>1. Tail(<<a, b, c>>) = <<b, c>>
  OBVIOUS
<1>2. <<b, c>> \in Seq({b, c}) /\ Len(<<b, c>>) = 2 /\ <<b, c>>[1] = b /\ <<b, c>>[2] = c
  OBVIOUS
<1>3. IsSequence(<<b, c>>)
  BY <1>2 DEF IsSequence
<1>4. \A i \in 1 .. 2 : ServerPacket(<<b, c>>[i])
  BY <1>2
<1> QED BY <1>1, <1>2, <1>3, <1>4 DEF FromServer

\* A step of the handler before Play.
LEMMA HandlerTypes ==
  ASSUME TalkInv, TalkInv', Types, HandlerStep, UNCHANGED playVars
  PROVE  Types'
<1>1. UNCHANGED <<conforms, client, loop, entity, events, avatar, history>>
  BY DEF HandlerStep, SkipBrand, Unexpected, ReadHandshake, AnswerStatus, AnswerPing,
       ReadLoginStart, ReadLoginAcknowledged, ReadAuxiliary, ReadKnownPacks, EnterPlay,
       EndOfStream, Rest, playVars, Gets, Reads, Consumes, Ends
<1>2. step \in PreplaySteps \/ SkipBrand
  BY DEF HandlerStep, Unexpected, ReadHandshake, AnswerStatus, AnswerPing,
       ReadLoginStart, ReadLoginAcknowledged, ReadAuxiliary, ReadKnownPacks, EnterPlay,
       EndOfStream, Gets, Reads, PreplaySteps
<1>3. IsSequence(toClient')
  <2>1. IsSequence(toClient)
    BY DEF Types
  <2> QED BY <2>1, SentIsSequence
          DEF HandlerStep, SkipBrand, Unexpected, ReadHandshake, AnswerStatus, AnswerPing,
              ReadLoginStart, ReadLoginAcknowledged, ReadAuxiliary, ReadKnownPacks, EnterPlay,
              EndOfStream, Sends
<1>4. LoopTypes(loop') /\ EntityTypes' /\ AvatarTypes' /\ HistoryTypes'
  BY <1>1 DEF Types, EntityTypes, AvatarTypes, HistoryTypes
<1>5. CASE SkipBrand
  <2>1. UNCHANGED <<step, outcome, toClient>> /\ toServer # <<>> /\ toServer[1].kind = "Brand"
    BY <1>5 DEF SkipBrand, Incoming
  <2>2. ~InWorld
    BY <2>1, FromClientRead DEF Types, PacketTypes, ClientPacket
  <2>3. PacketTypes'
    BY <1>1, <2>1, <2>2 DEF Types, PacketTypes, InWorld
  <2> QED BY <1>1, <1>3, <1>4, <2>1, <2>3 DEF Types, Fresh
<1>6. CASE step \in PreplaySteps
  <2>1. Fresh' /\ ~InWorld /\ step # "ended" /\ step # "bootstrap"
    BY <1>1, <1>6 DEF Types, Fresh, PacketTypes, PreplaySteps
  <2>2. step' # "ended" => UNCHANGED outcome
    BY DEF HandlerStep, SkipBrand, Unexpected, ReadHandshake, AnswerStatus, AnswerPing,
         ReadLoginStart, ReadLoginAcknowledged, ReadAuxiliary, ReadKnownPacks, EnterPlay,
         EndOfStream, Goes, Ends
  <2>3. step' = "bootstrap" => EnterPlay /\ ~Ends("refused")
    BY <2>1 DEF HandlerStep, SkipBrand, Unexpected, ReadHandshake, AnswerStatus, AnswerPing,
         ReadLoginStart, ReadLoginAcknowledged, ReadAuxiliary, ReadKnownPacks, EnterPlay,
         EndOfStream, Goes, Ends
  <2>4. ASSUME conforms, client.phase = "Play", step' = "bootstrap"
        PROVE  FromServer(Tail(toClient'))
    <3>1. toClient = <<>>
      BY <2>1, <2>4 DEF TalkInv, Conversation, EnteringPlay, OnTheWay, HandlerLeft
    <3>2. PICK a, b, c : /\ a = Plain("PlayLogin")
                         /\ b = View(<<Packet("Center", ChunkOf(Spawn)),
                                       Packet("Chunk", ChunkOf(Spawn))>>)
                         /\ c = Teleport(SpawnTeleport, Spawn)
      OBVIOUS
    <3>3. toClient' = toClient \o <<a, b, c>>
      BY <2>3, <2>4, <3>2 DEF EnterPlay, Sends
    <3>4. toClient' = <<a, b, c>>
      BY <3>1, <3>3, ShortSequences
    <3> QED BY <3>2, <3>4, EntryPackets, FirstOfThree
  <2>5. PacketTypes'
    BY <1>1, <2>1, <2>4 DEF PacketTypes, InWorld
  <2>6. step' # "ended" => outcome' = "open"
    BY <2>1, <2>2 DEF Types
  <2> QED BY <1>3, <1>4, <2>1, <2>5, <2>6 DEF Types
<1> QED BY <1>2, <1>5, <1>6

\* A step of the client before Play.
LEMMA ClientTypes ==
  ASSUME TalkInv, TalkInv', Types, ClientStep, UNCHANGED playVars
  PROVE  Types'
<1>1. UNCHANGED <<conforms, step, outcome, loop, entity, events, avatar, history>>
  BY DEF ClientStep, Open, Receive, Inform, Leave, Stray, ServerRest, playVars
<1>2. /\ LoopTypes(loop') /\ EntityTypes' /\ AvatarTypes' /\ HistoryTypes'
      /\ step' \in PreplaySteps => Fresh'
      /\ step' # "ended" => outcome' = "open"
  BY <1>1 DEF Types, EntityTypes, AvatarTypes, HistoryTypes, Fresh
<1>3. IsSequence(toClient')
  <2>1. CASE Receive
    BY <2>1, TailFacts DEF Receive, Types
  <2> QED BY <2>1, NoneFacts DEF ClientStep, Open, Inform, Leave, Stray, Types
<1>4. conforms => client'.phase # "InWorld" /\ (client'.phase = "Play" => Receive)
  <2>1. client = [f \in {"phase", "informed"} |-> client[f]]
    BY DEF TalkInv
  <2>2. CASE Receive
    <3>1. Understood(client.phase, toClient[1]).phase # "InWorld"
      BY DEF Understood, Answer, NotUnderstood
    <3>2. client'.phase = Understood(client.phase, toClient[1]).phase
      BY <2>1, <2>2 DEF Receive
    <3> QED BY <2>2, <3>1, <3>2
  <2>3. CASE Leave
    BY <2>1, <2>3 DEF Leave
  <2>4. ASSUME NEW intent \in {1, 2}, Open(intent)
        PROVE  client'.phase # "InWorld" /\ client'.phase # "Play"
    BY <2>1, <2>4 DEF Open
  <2>5. CASE Inform
    BY <2>1, <2>5 DEF Inform
  <2>6. CASE Stray
    BY <2>6 DEF Stray
  <2> QED BY <2>2, <2>3, <2>4, <2>5, <2>6 DEF ClientStep
<1>5. ASSUME conforms, client'.phase = "Play", step = "bootstrap" PROVE FALSE
  <2>1. Receive
    BY <1>4, <1>5
  <2>2. client.phase \notin {"Play", "InWorld", "gone"}
    BY <2>1 DEF Receive
  <2> QED BY <1>5, <2>2, PlayMeetsTheWorld DEF InPlay
<1>6. PacketTypes'
  BY <1>1, <1>4, <1>5 DEF PacketTypes, InWorld
<1> QED BY <1>2, <1>3, <1>6 DEF Types

\* What the server sends in Play is the game's.
LEMMA ServerSends ==
  ASSUME Types, NEW p, ServerPacket(p), toClient' = Append(toClient, p)
  PROVE  /\ IsSequence(toClient')
         /\ FromServer(toClient) => FromServer(toClient')
         /\ toClient # <<>> /\ FromServer(Tail(toClient)) => FromServer(Tail(toClient'))
         /\ toClient' # <<>>
<1>1. IsSequence(toClient)
  BY DEF Types
<1>2. IsSequence(toClient') /\ toClient' # <<>>
  BY <1>1, AppendFacts
<1>3. toClient # <<>> => Tail(toClient') = Append(Tail(toClient), p)
  <2>1. PICK S : toClient \in Seq(S)
    BY <1>1 DEF IsSequence
  <2>2. toClient \in Seq(S \cup {p}) /\ p \in S \cup {p}
    BY <2>1
  <2> QED BY <2>2
<1> QED BY <1>2, <1>3, FromServerSent

\* A step of the loop.
LEMMA LoopTypesKept ==
  ASSUME TalkInv, Types, LoopStep
  PROVE  Types'
<1>1. Kept /\ Traffic /\ UNCHANGED <<conforms, client, avatar>>
  BY LoopEffect
<1>2. InPlay /\ (conforms => client.phase \in {"InWorld", "gone"})
  BY LoopMeetsTheWorld
<1>3. AvatarTypes'
  BY <1>1 DEF Types, AvatarTypes
<1>4. step' \notin PreplaySteps /\ (step' # "ended" => outcome' = "open")
  BY <1>1, <1>2 DEF Traffic, Farewell, Going, PreplaySteps, Types, InPlay
<1>5. IsSequence(toClient') /\ (FromServer(toClient) => FromServer(toClient'))
  <2>1. IsSequence(toClient)
    BY DEF Types
  <2>2. ASSUME NEW p, ServerPacket(p), toClient' = toClient \o <<p>>
        PROVE  IsSequence(toClient') /\ (FromServer(toClient) => FromServer(toClient'))
    <3>1. toClient' = Append(toClient, p)
      BY <2>1, <2>2, AppendFacts
    <3> QED BY <2>2, <3>1, ServerSends
  <2>3. ASSUME NEW p, NEW r, ServerPacket(p), ServerPacket(r), toClient' = toClient \o <<p, r>>
        PROVE  IsSequence(toClient') /\ (FromServer(toClient) => FromServer(toClient'))
    <3>1. PICK q : q = Append(toClient, p)
      OBVIOUS
    <3>2. toClient' = Append(q, r)
      BY <2>1, <2>3, <3>1, ConcatFacts
    <3>3. IsSequence(q) /\ (FromServer(toClient) => FromServer(q))
      BY <2>1, <2>3, <3>1, AppendFacts, FromServerSent
    <3>4. IsSequence(Append(q, r)) /\ (FromServer(q) => FromServer(Append(q, r)))
      BY <2>3, <3>3, AppendFacts, FromServerSent
    <3> QED BY <3>2, <3>3, <3>4
  <2>4. CASE Farewell
    <3>1. CASE toClient' = toClient
      BY <2>1, <3>1
    <3>2. CASE toClient' = toClient \o <<Plain("PlayDisconnect")>>
      BY <2>2, <3>2, EntryPackets
    <3>3. ASSUME NEW c, toClient' = toClient \o <<Delta(loop, c), Plain("PlayDisconnect")>>
          PROVE  IsSequence(toClient') /\ (FromServer(toClient) => FromServer(toClient'))
      <4>1. ServerPacket(Delta(loop, c)) /\ ServerPacket(Plain("PlayDisconnect"))
        BY EntryPackets
      <4> QED BY <2>3, <3>3, <4>1
    <3> QED BY <2>4, <3>1, <3>2, <3>3 DEF Farewell
  <2>5. CASE ViewStep
    <3>1. ASSUME NEW p, p.kind \in Neutral PROVE ServerPacket(p)
      BY <3>1 DEF Neutral, ServerPacket, WorldKinds
    <3> QED BY <2>1, <2>2, <2>5, <3>1, EntryPackets DEF ViewStep
  <2> QED BY <1>1, <2>4, <2>5 DEF Traffic
<1>6. FromClient(toServer) => FromClient(toServer')
  BY <1>1, FromClientRead DEF Traffic, Takes
<1>7. PacketTypes'
  BY <1>1, <1>2, <1>4, <1>5, <1>6 DEF Types, PacketTypes, InWorld
<1> QED BY <1>1, <1>3, <1>4, <1>5, <1>7 DEF Types, Kept

\* A step of the rest of the server.
LEMMA ServerTypes ==
  ASSUME TalkInv, Types, Command \/ Dispatch \/ ForeignRequest
  PROVE  Types'
<1>1. InPlay /\ UNCHANGED <<conforms, client, step, outcome, toServer, loop, avatar>>
  BY DEF Command, Dispatch, ForeignRequest, MayAct, connVars
<1>2. step \notin PreplaySteps /\ LoopTypes(loop') /\ AvatarTypes' /\ outcome' = "open"
  BY <1>1 DEF InPlay, PreplaySteps, Types, AvatarTypes
<1>3. EntityTypes' /\ HistoryTypes'
  <2>1. CASE Command
    <3>3. history.acts \in Nat
      BY DEF Types, HistoryTypes
    <3>1. PICK acts \in Nat : acts = history.acts + 1
      BY <3>3
    <3>2. Executes(acts)
      BY <2>1, <3>1 DEF Command
    <3> QED BY <3>2, CommandTypes
  <2>2. CASE Dispatch
    <3>1. UNCHANGED <<entity, history>>
      BY <2>2 DEF Dispatch
    <3> QED BY <3>1 DEF Types, EntityTypes, HistoryTypes
  <2>3. CASE ForeignRequest
    <3>1. UNCHANGED entity /\ history' = [history EXCEPT !.acts = @ + 1, !.foreign = @ + 1]
      BY <2>3 DEF ForeignRequest
    <3>2. EntityTypes /\ HistoryTypes
      BY DEF Types
    <3>3. HistoryTypes'
      <4>1. PICK h : h = history
        OBVIOUS
      <4>2. PICK g : g = [h EXCEPT !.acts = @ + 1, !.foreign = @ + 1]
        OBVIOUS
      <4>3. /\ h = [f \in HistoryFields |-> h[f]]
            /\ h.acts \in Nat /\ h.foreign \in Nat /\ h.teleported \in BOOLEAN
        BY <3>2, <4>1 DEF HistoryTypes
      <4>4. g = [f \in HistoryFields |-> g[f]]
        BY <4>2, <4>3 DEF HistoryFields
      <4>5. g.acts = h.acts + 1 /\ g.foreign = h.foreign + 1 /\ g.teleported = h.teleported
        BY <4>2, <4>3 DEF HistoryFields
      <4>6. history' = g
        BY <3>1, <4>1, <4>2
      <4>7. g.acts \in Nat /\ g.foreign \in Nat /\ g.teleported \in BOOLEAN
        BY <4>3, <4>5
      <4> QED BY <4>4, <4>6, <4>7 DEF HistoryTypes
    <3> QED BY <3>1, <3>2, <3>3 DEF EntityTypes
  <2> QED BY <2>1, <2>2, <2>3
<1>4. CASE Command
  <2>1. UNCHANGED toClient
    BY <1>4 DEF Command, connVars
  <2> QED BY <1>1, <1>2, <1>3, <2>1 DEF Types, PacketTypes, InWorld
<1>5. ASSUME NEW p, ServerPacket(p), toClient' = Append(toClient, p) PROVE Types'
  <2>1. conforms /\ client.phase = "Play" => toClient # <<>>
    BY <1>1, PlayMeetsTheWorld
  <2> QED BY <1>1, <1>2, <1>3, <1>5, <2>1, ServerSends DEF Types, PacketTypes, InWorld
<1>6. ASSUME NEW p, NEW r, ServerPacket(p), ServerPacket(r),
             toClient' = Append(Append(toClient, p), r)
      PROVE  Types'
  <2>1. conforms /\ client.phase = "Play" => toClient # <<>>
    BY <1>1, PlayMeetsTheWorld
  <2>2. PICK S : toClient \in Seq(S)
    BY DEF Types, IsSequence
  <2>9. PICK T : T = S \cup {p, r}
    OBVIOUS
  <2>3. toClient \in Seq(T) /\ p \in T /\ r \in T
    BY <2>2, <2>9
  <2>4. Append(toClient, p) \in Seq(T) /\ toClient' \in Seq(T)
    BY <1>6, <2>3
  <2>5. toClient # <<>> => Tail(toClient') = Append(Append(Tail(toClient), p), r)
    BY <1>6, <2>3, <2>4
  <2>6. FromServer(toClient) => FromServer(toClient')
    BY <1>6, FromServerSent
  <2>7. toClient # <<>> /\ FromServer(Tail(toClient)) => FromServer(Tail(toClient'))
    <3>1. PICK q : q = Append(Tail(toClient), p)
      OBVIOUS
    <3>2. FromServer(Tail(toClient)) => FromServer(q)
      BY <1>6, <3>1, FromServerSent
    <3> QED BY <1>6, <2>5, <3>1, <3>2, FromServerSent
  <2>8. IsSequence(toClient')
    BY <2>4 DEF IsSequence
  <2> QED BY <1>1, <1>2, <1>3, <2>1, <2>6, <2>7, <2>8 DEF Types, PacketTypes, InWorld
<1>7. CASE Dispatch
  <2>1. IsSequence(toClient)
    BY DEF Types
  <2>2. events[1] \in EventTypes
    BY <1>7, <2>1, DispatchEffect
  <2>3. events[1].kind \in {"teleported", "respawned"} => events[1].at \in Positions
    BY <2>2 DEF EventTypes
  <2> QED BY <1>5, <1>6, <1>7, <2>1, <2>3, DispatchEffect, EntryPackets
<1>8. CASE ForeignRequest
  <2>1. IsSequence(toClient)
    BY DEF Types
  <2>2. PICK p : p = Packet("KeepAlive", history'.foreign)
    OBVIOUS
  <2>3. toClient' = toClient \o <<p>>
    BY <1>8, <2>2 DEF ForeignRequest, Sends
  <2>4. toClient' = Append(toClient, p)
    BY <2>1, <2>3, AppendFacts
  <2> QED BY <1>5, <2>2, <2>4, EntryPackets
<1> QED BY <1>4, <1>7, <1>8

\* What a conforming client sends.
LEMMA AnswersTypes ==
  ASSUME NEW q, FromClient(q), NEW p, ServerPacket(p), p.kind \in WorldKinds
  PROVE  FromClient(q \o AnswersTo(p))
<1>1. IsSequence(q)
  BY DEF FromClient
<1>2. /\ ClientPacket(Packet("ChunkBatch", 1)) /\ ClientPacket(Packet("KeepAlive", p.n))
      /\ p.kind = "Teleport" =>
           ClientPacket(Packet("Accept", p.n)) /\ ClientPacket(Packet("Move", p.to))
  BY DEF ClientPacket, ServerPacket, Packet
<1>3. CASE p.kind = "Teleport"
  <2>1. PICK r : r = Append(q, Packet("Accept", p.n))
    OBVIOUS
  <2>2. FromClient(r)
    BY <1>2, <1>3, <2>1, FromClientSent
  <2>3. q \o AnswersTo(p) = Append(r, Packet("Move", p.to))
    BY <1>1, <1>3, <2>1, AnswersFacts
  <2> QED BY <1>2, <1>3, <2>2, <2>3, FromClientSent
<1>4. ASSUME NEW r, ClientPacket(r), q \o AnswersTo(p) = Append(q, r)
      PROVE  FromClient(q \o AnswersTo(p))
  BY <1>4, FromClientSent
<1>6. CASE p.kind \in {"View", "KeepAlive"}
  BY <1>1, <1>2, <1>4, <1>6, AnswersFacts
<1>5. CASE p.kind \in {"SystemChat", "Died", "Respawned"}
  BY <1>1, <1>5, AnswersFacts
<1> QED BY <1>3, <1>5, <1>6 DEF WorldKinds

\* A step of the client in the world.
LEMMA PlayerTypes ==
  ASSUME TalkInv, Types, PlayerStep
  PROVE  Types'
<1>1. UNCHANGED <<conforms, step, outcome, loop, entity, events>> /\ conforms
  BY DEF PlayerStep, Inhabit, Walk, Idle, Speak, AskRespawn, ServerUntouched, InWorld
<1>2. LoopTypes(loop') /\ EntityTypes' /\ (step' # "ended" => outcome' = "open")
  BY <1>1 DEF Types, EntityTypes
<1>3. CASE Inhabit
  <2>1. /\ toClient # <<>> /\ toClient' = Tail(toClient) /\ UNCHANGED history
        /\ Leaves \/ Enters \/ Lives
    BY <1>3, InhabitEffect
  <2>2. IsSequence(toClient') /\ HistoryTypes'
    BY <2>1, TailFacts DEF Types, HistoryTypes
  <2>3. client = [f \in {"phase", "informed"} |-> client[f]]
    BY DEF TalkInv
  <2>4. CASE Leaves
    <3>1. client'.phase = "gone" /\ UNCHANGED avatar
      BY <2>3, <2>4 DEF Leaves
    <3>2. PacketTypes' /\ AvatarTypes' /\ (step' \in PreplaySteps => Fresh')
      BY <1>1, <2>1, <3>1 DEF PacketTypes, InWorld, Types, AvatarTypes, Fresh
    <3> QED BY <1>2, <2>2, <3>2 DEF Types
  <2>5. CASE Enters
    <3>1. /\ client.phase = "Play" /\ client'.phase = "InWorld" /\ UNCHANGED <<toServer, avatar>>
          /\ step = "bootstrap" /\ toServer = <<>>
      BY <2>3, <2>5 DEF Enters
    <3>2. FromClient(<<>>)
      BY NoneFacts DEF FromClient
    <3>3. FromServer(toClient')
      BY <1>1, <2>1, <3>1 DEF Types, PacketTypes
    <3>4. PacketTypes' /\ AvatarTypes' /\ step' \notin PreplaySteps
      BY <1>1, <3>1, <3>2, <3>3 DEF PacketTypes, InWorld, Types, AvatarTypes, PreplaySteps
    <3> QED BY <1>2, <2>2, <3>4 DEF Types
  <2>6. CASE Lives
    <3>1. PICK p : p = toClient[1]
      OBVIOUS
    <3>2. /\ p.kind \in WorldKinds /\ avatar' = AvatarAfter(avatar, p)
          /\ toServer' = toServer \o AnswersTo(p) /\ client' = client /\ client.phase = "InWorld"
      BY <2>6, <3>1 DEF Lives
    <3>3. FromServer(toClient) /\ FromClient(toServer) /\ step \notin PreplaySteps
      BY <1>1, <3>2 DEF Types, PacketTypes, InWorld
    <3>4. FromServer(toClient') /\ ServerPacket(p)
      BY <2>1, <3>1, <3>3, FromServerRead
    <3>5. FromClient(toServer')
      BY <3>2, <3>3, <3>4, AnswersTypes
    <3>6. AvatarTypes
      BY DEF Types
    <3>7. avatar = [f \in AvatarFields |-> avatar[f]]
      BY <3>6 DEF AvatarTypes
    <3>8. PICK a : a = AvatarAfter(avatar, p)
      OBVIOUS
    <3>9. /\ a = [f \in AvatarFields |-> a[f]] /\ a.at \in Positions
          /\ a.alive \in BOOLEAN /\ a.placed \in BOOLEAN /\ a.asked \in BOOLEAN
      <4>1. /\ a = [f \in AvatarFields |-> a[f]]
            /\ a.at = (IF p.kind = "Teleport" THEN p.to ELSE avatar.at)
            /\ a.alive = (IF p.kind = "Died" THEN FALSE
                          ELSE IF p.kind = "Respawned" THEN TRUE ELSE avatar.alive)
            /\ a.placed = (IF p.kind = "Teleport" THEN TRUE
                           ELSE IF p.kind = "Respawned" THEN FALSE ELSE avatar.placed)
            /\ a.asked = (IF p.kind = "Respawned" THEN FALSE ELSE avatar.asked)
        <5>1. PICK v : v = avatar
          OBVIOUS
        <5>2. v = [f \in AvatarFields |-> v[f]] /\ a = AvatarAfter(v, p)
          BY <3>7, <3>8, <5>1
        <5>3. AvatarAfter(v, p) = [f \in AvatarFields |-> AvatarAfter(v, p)[f]]
          BY <3>2, <5>2, AvatarFacts
        <5>4. /\ a.at = (IF p.kind = "Teleport" THEN p.to ELSE v.at)
              /\ a.alive = (IF p.kind = "Died" THEN FALSE
                            ELSE IF p.kind = "Respawned" THEN TRUE ELSE v.alive)
          BY <3>2, <5>2, AvatarFacts
        <5>5. /\ a.placed = (IF p.kind = "Teleport" THEN TRUE
                             ELSE IF p.kind = "Respawned" THEN FALSE ELSE v.placed)
              /\ a.asked = (IF p.kind = "Respawned" THEN FALSE ELSE v.asked)
          BY <3>2, <5>2, AvatarFacts
        <5> QED BY <5>1, <5>2, <5>3, <5>4, <5>5
      <4> QED BY <3>4, <3>6, <4>1 DEF AvatarTypes, ServerPacket
    <3>10. AvatarTypes'
      BY <3>2, <3>8, <3>9 DEF AvatarTypes
    <3> QED BY <1>1, <1>2, <2>2, <3>2, <3>3, <3>4, <3>5, <3>10 DEF Types, PacketTypes, InWorld
  <2> QED BY <2>1, <2>4, <2>5, <2>6
<1>4. CASE Walk \/ Idle \/ Speak \/ AskRespawn
  <2>1. InWorld /\ UNCHANGED <<client, toClient>>
    BY <1>4 DEF Walk, Idle, Speak, AskRespawn
  <2>2. FromClient(toServer) /\ FromServer(toClient) /\ step \notin PreplaySteps
        /\ IsSequence(toClient) /\ AvatarTypes /\ HistoryTypes
    BY <2>1 DEF Types, PacketTypes
  <2>3. PICK p : ClientPacket(p) /\ toServer' = toServer \o <<p>>
    <3>1. Places \subseteq Positions
      BY DEF Positions
    <3> QED BY <1>4, <3>1
            DEF Walk, Idle, Speak, AskRespawn, ClientSends, ClientPacket, Packet, Plain
  <2>4. FromClient(toServer')
    <3>1. toServer' = Append(toServer, p)
      BY <2>2, <2>3, AppendFacts DEF FromClient
    <3> QED BY <2>2, <2>3, <3>1, FromClientSent
  <2>5. AvatarTypes' /\ HistoryTypes'
    <3>1. \/ UNCHANGED avatar
          \/ \E at \in Places : avatar' = [avatar EXCEPT !.at = at]
          \/ avatar' = [avatar EXCEPT !.asked = TRUE]
      BY <1>4 DEF Walk, Idle, Speak, AskRespawn
    <3>2. \/ UNCHANGED history
          \/ history' = [history EXCEPT !.acts = @ + 1]
          \/ history' = [history EXCEPT !.acts = @ + 2]
      BY <1>4 DEF Walk, Idle, Speak, AskRespawn
    <3>3. AvatarTypes'
      BY <2>2, <3>1 DEF AvatarTypes, AvatarFields, Positions
    <3>4. HistoryTypes'
      BY <2>2, <3>2 DEF HistoryTypes, HistoryFields
    <3> QED BY <3>3, <3>4
  <2> QED BY <1>1, <1>2, <2>1, <2>2, <2>4, <2>5 DEF Types, PacketTypes, InWorld
<1> QED BY <1>3, <1>4 DEF PlayerStep

\* A connection begins with nothing on its way.
LEMMA InitTalk ==
  ASSUME Init
  PROVE  TalkInv /\ Types
<1>1. /\ client = [phase |-> "new", informed |-> 0] /\ client.phase = "new"
      /\ step = "handshake" /\ toServer = <<>> /\ toClient = <<>> /\ outcome = "open"
      /\ events = <<>> /\ conforms \in BOOLEAN
  BY DEF Init, ConnInit
<1>2. client = [f \in {"phase", "informed"} |-> client[f]]
  BY <1>1
<1>3. events \in Seq(EventTypes)
  BY <1>1
<1>4. TalkInv
  BY <1>1, <1>2, <1>3 DEF TalkInv, Conversation, Silence, OnTheWay
<1>5. LoopTypes(loop)
  <2>1. PICK c \in Int : c = ChunkOf(Spawn)
    BY SpawnIsThere
  <2>2. loop = [player |-> Spawn, center |-> c, loaded |-> {c}, accepted |-> FALSE,
                batched |-> FALSE, ignored |-> 0, id |-> 1, acked |-> FALSE, ticks |-> 0]
    BY <2>1 DEF Init, NewLoop
  <2>3. IsFiniteSet({c})
    BY FS_Singleton
  <2>4. IsLoop(loop)
    BY <2>2 DEF IsLoop, LoopFields
  <2> QED BY <2>2, <2>3, <2>4, SpawnIsThere DEF LoopTypes
<1>6. EntityTypes
  BY SpawnIsThere DEF Init, EntityTypes
<1>7. AvatarTypes
  BY SpawnIsThere DEF Init, AvatarTypes, AvatarFields, NewAvatar
<1>8. HistoryTypes
  BY DEF Init, HistoryTypes, HistoryFields, Quiet
<1>9. PacketTypes /\ IsSequence(toClient)
  BY <1>1, NoneFacts DEF PacketTypes, InWorld
<1>10. Fresh
  BY DEF Init, Fresh
<1> QED BY <1>1, <1>4, <1>5, <1>6, <1>7, <1>8, <1>9, <1>10 DEF Types

\* Every step keeps the conversation and the types.
LEMMA NextTalk ==
  ASSUME TalkInv, Types, [Next]_vars
  PROVE  TalkInv' /\ Types'
<1>1. CASE UNCHANGED vars
  <2>1. TalkInv'
    BY <1>1 DEF vars, connVars, playVars, TalkInv, Conversation, Silence, AskingStatus, LoggingIn,
                Configuring, ChoosingPacks, ReadingData, EnteringPlay, OnTheWay, HandlerLeft, Noise
  <2>2. Types'
    BY <1>1 DEF vars, connVars, playVars, Types, EntityTypes, AvatarTypes, HistoryTypes, Fresh,
                PacketTypes, InWorld
  <2> QED BY <2>1, <2>2
<1>2. CASE (HandlerStep \/ ClientStep) /\ UNCHANGED playVars
  BY <1>2, HandlerTalk, HandlerTypes, ClientTalk, ClientTypes
<1>3. CASE LoopStep
  BY <1>3, LoopTalk, LoopTypesKept
<1>4. CASE Command \/ Dispatch \/ ForeignRequest
  BY <1>4, ServerTalk, ServerTypes
<1>5. CASE PlayerStep
  BY <1>5, PlayerTalk, PlayerTypes DEF Types, PacketTypes
<1> QED BY <1>1, <1>2, <1>3, <1>4, <1>5 DEF Next

\* A conforming client is never sent a packet that its phase does not know, on
\* its way to the Play phase or in the world, with the packets of both
\* directions in flight (handle_connection_protocol, negotiate_known_packs,
\* try_enter_play, the Play loop and replication).
THEOREM ClientUnderstandsTheServer == Spec => []ClientUnderstands
<1>1. Init => TalkInv /\ Types
  BY InitTalk
<1>2. TalkInv /\ Types /\ [Next]_vars => TalkInv' /\ Types'
  BY NextTalk
<1>3. TalkInv => ClientUnderstands
  BY DEF TalkInv, Conversation, ClientUnderstands
<1> QED BY <1>1, <1>2, <1>3, PTL DEF Spec

---------------------------------------------------------------------------
(* Where the client shows its player, and where the game has it.           *)

\* What a step makes of the entity and of the events to dispatch.
Published(kind, at) == events' = Append(events, [kind |-> kind, at |-> at])
Happens ==
  \/ UNCHANGED events /\ entity'.dead = entity.dead
  \/ Published("broadcast", 0) /\ UNCHANGED entity
  \/ /\ \E p \in Destinations : Published("teleported", p) /\ entity'.at = p
     /\ entity'.dead = entity.dead /\ history'.teleported
  \/ /\ entity'.dead /\ entity'.at = entity.at
     /\ IF entity.dead THEN UNCHANGED events ELSE Published("killed", 0)
  \/ /\ entity.dead /\ entity' = [at |-> Spawn, dead |-> FALSE] /\ Published("respawned", Spawn)
     /\ step = "read"

\* A command is one of them.
LEMMA ExecutionHappens ==
  ASSUME Types, conforms, NEW acts, Executes(acts)
  PROVE  Happens /\ (~history'.teleported => entity'.at = entity.at)
<1>1. entity \in [at : Positions, dead : BOOLEAN] /\ history = [f \in HistoryFields |-> history[f]]
  BY DEF Types, EntityTypes, HistoryTypes
<1>2. CASE \E p \in Destinations : TeleportTo(p)
  BY <1>1, <1>2 DEF TeleportTo, Publishes, Published, Happens, Executes, Kill, HistoryFields
<1>3. CASE Kill
  BY <1>1, <1>3 DEF Kill, Publishes, Published, Happens
<1> QED BY <1>2, <1>3 DEF Executes

\* A step of the loop is one of them.
LEMMA LoopHappens ==
  ASSUME Types, conforms, LoopStep
  PROVE  Happens
<1>1. entity \in [at : Positions, dead : BOOLEAN]
  BY DEF Types, EntityTypes
<1>2. CASE ReadChat
  BY <1>2 DEF ReadChat, Publishes, Published, Happens
<1>3. CASE ReadCommand
  <2>1. Executes(history.acts) \/ UNCHANGED <<entity, events>>
    BY <1>3 DEF ReadCommand
  <2> QED BY <2>1, ExecutionHappens DEF Happens
<1>4. CASE ReadRespawn
  BY <1>4 DEF ReadRespawn, Respawns, Publishes, Published, Happens, Gets, Reads
<1>5. CASE UNCHANGED <<entity, events>>
  BY <1>5 DEF Happens
<1>6. CASE Synchronize
  <2>1. UNCHANGED events /\ entity' = [entity EXCEPT !.at = loop.player]
    BY <1>6 DEF Synchronize, Synchronized
  <2> QED BY <1>1, <2>1 DEF Happens
<1> QED BY <1>2, <1>3, <1>4, <1>5, <1>6
        DEF LoopStep, ReadBootstrap, Request, ReadAnswer, ReadTick, ReadUndecodable, ReadHarmless,
            ReadUnknown, ReadMovement, PlayEnds, Unaffected, GameRest

---------------------------------------------------------------------------
\* What is among the packets on their way, and before others.
Has(q, K) == \E i \in 1 .. Len(q) : q[i].kind \in K
Preceded(q, K, L) ==
  \A i \in 1 .. Len(q) : q[i].kind \in K => \E j \in 1 .. (i - 1) : q[j].kind \in L

\* One more packet is among those sent.
LEMMA HasAppended ==
  ASSUME NEW q, IsSequence(q), NEW p, NEW K
  PROVE  Has(Append(q, p), K) <=> Has(q, K) \/ p.kind \in K
<1>1. /\ Len(q) \in Nat /\ Len(Append(q, p)) = Len(q) + 1
      /\ \A i \in 1 .. Len(q) : Append(q, p)[i] = q[i]
      /\ Append(q, p)[Len(q) + 1] = p
  BY AppendFacts
<1>2. ASSUME Has(Append(q, p), K) PROVE Has(q, K) \/ p.kind \in K
  <2>1. PICK i \in 1 .. (Len(q) + 1) : Append(q, p)[i].kind \in K
    BY <1>1, <1>2 DEF Has
  <2>2. i = Len(q) + 1 \/ i \in 1 .. Len(q)
    BY <1>1
  <2> QED BY <1>1, <2>1, <2>2 DEF Has
<1>3. ASSUME Has(q, K) PROVE Has(Append(q, p), K)
  <2>1. PICK i \in 1 .. Len(q) : q[i].kind \in K
    BY <1>3 DEF Has
  <2>2. i \in 1 .. (Len(q) + 1)
    BY <1>1
  <2> QED BY <1>1, <2>1, <2>2 DEF Has
<1>4. ASSUME p.kind \in K PROVE Has(Append(q, p), K)
  <2>1. Len(q) + 1 \in 1 .. (Len(q) + 1)
    BY <1>1
  <2> QED BY <1>1, <1>4, <2>1 DEF Has
<1> QED BY <1>2, <1>3, <1>4

\* The first packet is among those sent.
LEMMA HasRead ==
  ASSUME NEW q, IsSequence(q), q # <<>>, NEW K
  PROVE  Has(q, K) <=> q[1].kind \in K \/ Has(Tail(q), K)
<1>1. /\ Len(q) \in Nat /\ Len(q) >= 1 /\ Len(Tail(q)) = Len(q) - 1
      /\ \A i \in 1 .. (Len(q) - 1) : Tail(q)[i] = q[i + 1]
  BY TailFacts
<1>2. ASSUME Has(q, K) PROVE q[1].kind \in K \/ Has(Tail(q), K)
  <2>1. PICK i \in 1 .. Len(q) : q[i].kind \in K
    BY <1>2 DEF Has
  <2>2. CASE i = 1
    BY <2>1, <2>2
  <2>3. CASE i # 1
    <3>1. PICK j \in 1 .. (Len(q) - 1) : i = j + 1
      BY <1>1, <2>3
    <3> QED BY <1>1, <2>1, <3>1 DEF Has
  <2> QED BY <2>2, <2>3
<1>3. ASSUME Has(Tail(q), K) PROVE Has(q, K)
  <2>1. PICK i \in 1 .. (Len(q) - 1) : q[i + 1].kind \in K
    BY <1>1, <1>3 DEF Has
  <2>2. i + 1 \in 1 .. Len(q)
    BY <1>1
  <2> QED BY <2>1, <2>2 DEF Has
<1>4. 1 \in 1 .. Len(q)
  BY <1>1
<1> QED BY <1>2, <1>3, <1>4 DEF Has

\* Nothing has no packet.
LEMMA HasNothing ==
  ASSUME NEW K, NEW L
  PROVE  ~Has(<<>>, K) /\ Preceded(<<>>, K, L)
BY NoneFacts DEF Has, Preceded

\* One more packet, if it is not to be preceded or something precedes it.
LEMMA PrecededAppended ==
  ASSUME NEW q, IsSequence(q), NEW p, NEW K, NEW L, Preceded(q, K, L),
         p.kind \notin K \/ Has(q, L)
  PROVE  Preceded(Append(q, p), K, L)
<1>1. /\ Len(q) \in Nat /\ Len(Append(q, p)) = Len(q) + 1
      /\ \A i \in 1 .. Len(q) : Append(q, p)[i] = q[i]
      /\ Append(q, p)[Len(q) + 1] = p
  BY AppendFacts
<1>2. PICK n \in Nat : n = Len(q)
  BY <1>1
<1>3. PICK r : r = Append(q, p)
  OBVIOUS
<1>4. Len(r) = n + 1 /\ r[n + 1] = p /\ \A i \in 1 .. n : r[i] = q[i]
  BY <1>1, <1>2, <1>3
<1>5. ASSUME NEW i \in 1 .. (n + 1), r[i].kind \in K
      PROVE  \E j \in 1 .. (i - 1) : r[j].kind \in L
  <2>1. CASE i = n + 1
    <3>1. PICK j \in 1 .. n : q[j].kind \in L
      BY <1>2, <1>4, <1>5, <2>1 DEF Has
    <3> QED BY <1>4, <2>1, <3>1
  <2>2. CASE i # n + 1
    <3>1. i \in 1 .. n
      BY <2>2
    <3>2. PICK j \in 1 .. (i - 1) : q[j].kind \in L
      BY <1>2, <1>4, <1>5, <3>1 DEF Preceded
    <3>3. j \in 1 .. n
      BY <3>1, <3>2
    <3> QED BY <1>4, <3>2, <3>3
  <2> QED BY <2>1, <2>2
<1> QED BY <1>3, <1>4, <1>5 DEF Preceded

\* The first packet is preceded by none.
LEMMA PrecededRead ==
  ASSUME NEW q, IsSequence(q), q # <<>>, NEW K, NEW L, Preceded(q, K, L)
  PROVE  q[1].kind \notin K /\ (q[1].kind \notin L => Preceded(Tail(q), K, L))
<1>1. /\ Len(q) \in Nat /\ Len(q) >= 1 /\ Len(Tail(q)) = Len(q) - 1
      /\ \A i \in 1 .. (Len(q) - 1) : Tail(q)[i] = q[i + 1]
  BY TailFacts
<1>2. q[1].kind \notin K
  BY <1>1 DEF Preceded
<1>3. ASSUME q[1].kind \notin L, NEW i \in 1 .. (Len(q) - 1), Tail(q)[i].kind \in K
      PROVE  \E j \in 1 .. (i - 1) : Tail(q)[j].kind \in L
  <2>1. i + 1 \in 1 .. Len(q) /\ (i + 1) - 1 = i /\ q[i + 1].kind \in K
    BY <1>1, <1>3
  <2>2. PICK k \in 1 .. i : q[k].kind \in L
    BY <2>1 DEF Preceded
  <2>3. PICK j \in 1 .. (i - 1) : k = j + 1
    BY <1>3, <2>2
  <2>4. j \in 1 .. (Len(q) - 1)
    BY <1>1, <2>3
  <2> QED BY <1>1, <2>2, <2>3, <2>4
<1> QED BY <1>1, <1>2, <1>3 DEF Preceded

\* Where the last of the moves on their way leads, from f if there is none.
Lands(q, f, x) ==
  \/ ~Has(q, {"Move"}) /\ x = f
  \/ \E i \in 1 .. Len(q) :
       /\ q[i].kind = "Move" /\ q[i].n = x
       /\ \A j \in 1 .. Len(q) : i < j => q[j].kind # "Move"

\* One more packet is the last move, if it is one.
LEMMA LandsAppended ==
  ASSUME NEW q, IsSequence(q), NEW p, NEW f, NEW x
  PROVE  /\ p.kind = "Move" => Lands(Append(q, p), f, p.n)
         /\ p.kind # "Move" /\ Lands(q, f, x) => Lands(Append(q, p), f, x)
<1>1. /\ Len(q) \in Nat /\ Len(Append(q, p)) = Len(q) + 1
      /\ \A i \in 1 .. Len(q) : Append(q, p)[i] = q[i]
      /\ Append(q, p)[Len(q) + 1] = p
  BY AppendFacts
<1>2. PICK n \in Nat : n = Len(q)
  BY <1>1
<1>3. PICK r : r = Append(q, p)
  OBVIOUS
<1>4. Len(r) = n + 1 /\ r[n + 1] = p /\ \A i \in 1 .. n : r[i] = q[i]
  BY <1>1, <1>2, <1>3
<1>5. ASSUME p.kind = "Move" PROVE Lands(r, f, p.n)
  <2>1. n + 1 \in 1 .. (n + 1) /\ \A j \in 1 .. (n + 1) : ~(n + 1 < j)
    OBVIOUS
  <2> QED BY <1>4, <1>5, <2>1 DEF Lands
<1>6. ASSUME p.kind # "Move", Lands(q, f, x) PROVE Lands(r, f, x)
  <2>1. CASE ~Has(q, {"Move"}) /\ x = f
    <3>1. ~Has(r, {"Move"})
      BY <1>3, <1>6, <2>1, HasAppended
    <3> QED BY <2>1, <3>1 DEF Lands
  <2>2. ASSUME NEW i \in 1 .. n, q[i].kind = "Move", q[i].n = x,
               \A j \in 1 .. n : i < j => q[j].kind # "Move"
        PROVE  Lands(r, f, x)
    <3>1. i \in 1 .. (n + 1) /\ r[i] = q[i]
      BY <1>4
    <3>2. ASSUME NEW j \in 1 .. (n + 1), i < j PROVE r[j].kind # "Move"
      BY <1>4, <1>6, <2>2, <3>2
    <3> QED BY <1>4, <2>2, <3>1, <3>2 DEF Lands
  <2> QED BY <1>2, <1>6, <2>1, <2>2 DEF Lands
<1> QED BY <1>3, <1>5, <1>6

\* The first packet read, the last move is the same.
LEMMA LandsRead ==
  ASSUME NEW q, IsSequence(q), q # <<>>, NEW f, NEW x, Lands(q, f, x)
  PROVE  Lands(Tail(q), WalkedBy(f, q[1]), x)
<1>1. /\ Len(q) \in Nat /\ Len(q) >= 1 /\ Len(Tail(q)) = Len(q) - 1
      /\ \A i \in 1 .. (Len(q) - 1) : Tail(q)[i] = q[i + 1]
  BY TailFacts
<1>2. CASE ~Has(q, {"Move"}) /\ x = f
  BY <1>2, HasRead DEF Lands, WalkedBy
<1>3. ASSUME NEW i \in 1 .. Len(q), q[i].kind = "Move", q[i].n = x,
             \A j \in 1 .. Len(q) : i < j => q[j].kind # "Move"
      PROVE  Lands(Tail(q), WalkedBy(f, q[1]), x)
  <2>1. ASSUME NEW j \in 1 .. (Len(q) - 1), i < j + 1 PROVE Tail(q)[j].kind # "Move"
    <3>1. j + 1 \in 1 .. Len(q)
      BY <1>1
    <3> QED BY <1>1, <1>3, <2>1, <3>1
  <2>2. CASE i = 1
    <3>1. ~Has(Tail(q), {"Move"})
      BY <1>1, <2>1, <2>2 DEF Has
    <3> QED BY <1>3, <2>2, <3>1 DEF Lands, WalkedBy
  <2>3. CASE i # 1
    <3>1. PICK k \in 1 .. (Len(q) - 1) : i = k + 1
      BY <1>1, <2>3
    <3>2. Tail(q)[k].kind = "Move" /\ Tail(q)[k].n = x
      BY <1>1, <1>3, <3>1
    <3>3. \A j \in 1 .. (Len(q) - 1) : k < j => Tail(q)[j].kind # "Move"
      BY <1>1, <2>1, <3>1
    <3> QED BY <1>1, <3>2, <3>3 DEF Lands
  <2> QED BY <2>2, <2>3
<1> QED BY <1>2, <1>3 DEF Lands

---------------------------------------------------------------------------
\* The steps of a conforming client that has not left, while the loop runs.
Entered == conforms /\ client.phase \in {"Play", "InWorld"} /\ InPlay

\* The client and the server enter Play.
FirstView == View(<<Packet("Center", ChunkOf(Spawn)), Packet("Chunk", ChunkOf(Spawn))>>)
EntersPlay ==
  /\ Fresh' /\ step' = "bootstrap" /\ toServer' = <<>>
  /\ toClient' = Append(Append(Append(<<>>, Plain("PlayLogin")), FirstView),
                        Teleport(SpawnTeleport, Spawn))
  /\ conforms /\ client.phase = "Play" /\ EnterPlay

\* It is the only step of the handler that gets them there.
LEMMA HandlerEntry ==
  ASSUME TalkInv, Types, HandlerStep, UNCHANGED playVars, Entered'
  PROVE  EntersPlay
<1>1. UNCHANGED <<conforms, client, loop, entity, events, avatar, history>>
  BY DEF HandlerStep, SkipBrand, Unexpected, ReadHandshake, AnswerStatus, AnswerPing,
       ReadLoginStart, ReadLoginAcknowledged, ReadAuxiliary, ReadKnownPacks, EnterPlay,
       EndOfStream, Rest, playVars
<1>2. conforms /\ client.phase \in {"Play", "InWorld"} /\ InPlay'
  BY <1>1 DEF Entered
<1>3. ASSUME SkipBrand PROVE FALSE
  <2>1. toServer # <<>> /\ toServer[1].kind = "Brand" /\ InPlay
    BY <1>2, <1>3 DEF SkipBrand, Incoming, InPlay
  <2>2. ~InWorld
    BY <2>1, FromClientRead DEF Types, PacketTypes, ClientPacket
  <2> QED BY <1>2, <2>1, <2>2, PlayMeetsTheWorld DEF InWorld
<1>4. step' \in {"bootstrap", "request", "read", "moving"} /\ ~(step' = "ended")
  BY <1>2 DEF InPlay
<1>5. EnterPlay /\ ~Ends("refused")
  BY <1>3, <1>4
     DEF HandlerStep, Unexpected, ReadHandshake, AnswerStatus, AnswerPing,
         ReadLoginStart, ReadLoginAcknowledged, ReadAuxiliary, ReadKnownPacks, EnterPlay,
         EndOfStream, Goes, Ends
<1>6. step = "configAck" /\ toServer # <<>> /\ toServer' = Tail(toServer)
  BY <1>5 DEF EnterPlay, Gets, Reads, Consumes
<1>7. ~InWorld /\ Fresh
  BY <1>6 DEF Types, PacketTypes, PreplaySteps
<1>8. toClient = <<>> /\ toServer = <<Plain("ConfigurationAcknowledged")>> /\ client.phase = "Play"
  BY <1>2, <1>6, <1>7 DEF TalkInv, Conversation, EnteringPlay, OnTheWay, HandlerLeft, InWorld
<1>9. toServer' = <<>>
  BY <1>6, <1>8, ShortSequences
<1>10. PICK a, b, c : a = Plain("PlayLogin") /\ b = FirstView /\ c = Teleport(SpawnTeleport, Spawn)
  OBVIOUS
<1>11. toClient' = toClient \o <<a, b, c>> /\ step' = "bootstrap"
  BY <1>4, <1>5, <1>10 DEF EnterPlay, Sends, FirstView, Goes
<1>12. <<a, b, c>> = Append(Append(Append(<<>>, a), b), c)
  <2>1. PICK T : T = {a, b, c}
    OBVIOUS
  <2>2. <<>> \in Seq(T) /\ a \in T /\ b \in T /\ c \in T /\ <<a>> \in Seq(T) /\ <<a, b>> \in Seq(T)
    BY <2>1
  <2>3. Append(<<>>, a) = <<a>>
    OBVIOUS
  <2>4. Append(<<a>>, b) = <<a, b>>
    BY <2>2, PairConcat, AppendIsConcat
  <2>5. /\ Append(<<a, b>>, c) \in Seq(T) /\ Len(Append(<<a, b>>, c)) = 3
        /\ Append(<<a, b>>, c)[1] = a /\ Append(<<a, b>>, c)[2] = b /\ Append(<<a, b>>, c)[3] = c
    BY <2>2, AppendProperties
  <2>6. /\ <<a, b, c>> \in Seq(T) /\ Len(<<a, b, c>>) = 3
        /\ <<a, b, c>>[1] = a /\ <<a, b, c>>[2] = b /\ <<a, b, c>>[3] = c
    BY <2>1
  <2>7. \A i \in 1 .. 3 : Append(<<a, b>>, c)[i] = <<a, b, c>>[i]
    BY <2>5, <2>6
  <2>8. Append(<<a, b>>, c) = <<a, b, c>>
    BY <2>5, <2>6, <2>7, SeqEqual
  <2> QED BY <2>3, <2>4, <2>8
<1>13. toClient' = Append(Append(Append(<<>>, a), b), c)
  BY <1>8, <1>11, <1>12, ShortSequences
<1>14. Fresh'
  BY <1>1, <1>7 DEF Fresh
<1> QED BY <1>2, <1>5, <1>8, <1>9, <1>10, <1>11, <1>13, <1>14 DEF EntersPlay

\* While the loop runs, the other steps of Connection only take a client away.
LEMMA ClientGone ==
  ASSUME TalkInv, ClientStep, UNCHANGED playVars
  PROVE  ~Entered'
<1>1. UNCHANGED <<conforms, step>>
  BY DEF ClientStep, Open, Receive, Inform, Leave, Stray, ServerRest
<1>2. SUFFICES ASSUME conforms, InPlay PROVE client'.phase \notin {"Play", "InWorld"}
  BY <1>1 DEF Entered, InPlay
<1>3. client.phase \in {"Play", "InWorld", "gone"}
  BY <1>2, PlayMeetsTheWorld
<1>4. CASE Leave
  BY <1>4 DEF Leave, TalkInv
<1>5. ~Receive /\ ~Inform /\ ~Stray /\ \A intent \in {1, 2} : ~Open(intent)
  BY <1>2, <1>3 DEF Receive, Inform, Stray, Open
<1> QED BY <1>4, <1>5 DEF ClientStep

\* What a client in the world does of its own.
ActsAlone(p) ==
  /\ InWorld /\ toServer' = Append(toServer, p) /\ AvatarTypes'
  /\ UNCHANGED <<config, conforms, step, session, outcome, client, toClient, loop, entity, events>>
AvatarActs(p) ==
  /\ avatar'.view = avatar.view /\ avatar'.alive = avatar.alive
  /\ avatar'.placed = avatar.placed
  /\ \/ /\ p.kind = "Move" /\ p.n \in Places /\ Distance(p.n, avatar.at) <= 1
        /\ avatar'.at = p.n /\ avatar.placed /\ avatar.alive
     \/ p.kind = "Turn" /\ avatar.placed /\ avatar'.at = avatar.at
     \/ p.kind \in {"Tick", "Other", "Chat", "ChatCommand"} /\ avatar'.at = avatar.at
     \/ /\ p.kind = "ClientCommand" /\ ~avatar.alive /\ ~avatar.asked /\ avatar'.asked
        /\ avatar'.at = avatar.at
  /\ p.kind # "ClientCommand" => avatar'.asked = avatar.asked
HistoryActs(p) ==
  /\ history'.teleported = history.teleported /\ history'.foreign = history.foreign
  /\ IF p.kind = "ClientCommand" THEN history'.acts = history.acts
     ELSE history'.acts \in {history.acts + 1, history.acts + 2} /\ history'.acts <= MaxActs
Acts(p) == ActsAlone(p) /\ AvatarActs(p) /\ HistoryActs(p)

\* Each of its own steps is such an act.
LEMMA PlayerActs ==
  ASSUME Types, Types', Walk \/ Idle \/ Speak \/ AskRespawn
  PROVE  \E p : Acts(p)
<1>1. /\ InWorld /\ UNCHANGED <<config, conforms, step, session, outcome, client, toClient, loop,
                                entity, events>>
  BY DEF Walk, Idle, Speak, AskRespawn, ServerUntouched
<1>2. IsSequence(toServer) /\ AvatarTypes' /\ AvatarTypes /\ HistoryTypes
  BY <1>1 DEF Types, PacketTypes, FromClient
<1>3. \A p : toServer \o <<p>> = Append(toServer, p)
  BY <1>2, AppendFacts
<1>4. avatar = [f \in AvatarFields |-> avatar[f]] /\ history = [f \in HistoryFields |-> history[f]]
      /\ history.acts \in Nat
  BY <1>2 DEF AvatarTypes, HistoryTypes
<1>5. ASSUME history' = [history EXCEPT !.acts = @ + 1], history.acts < MaxActs
      PROVE  /\ history'.teleported = history.teleported /\ history'.foreign = history.foreign
             /\ history'.acts = history.acts + 1 /\ history'.acts <= MaxActs
  BY <1>4, <1>5, PlayLoopAssumption DEF HistoryFields
<1>6. ASSUME NEW at \in Places, Distance(at, avatar.at) <= 1, avatar.placed, avatar.alive,
             avatar' = [avatar EXCEPT !.at = at],
             history' = [history EXCEPT !.acts = @ + 1], history.acts < MaxActs,
             toServer' = toServer \o <<Packet("Move", at)>>
      PROVE  \E p : Acts(p)
  <2>1. PICK p : p = Packet("Move", at)
    OBVIOUS
  <2>2. p.kind = "Move" /\ p.n = at /\ toServer' = Append(toServer, p)
    BY <1>3, <1>6, <2>1 DEF Packet
  <2>3. /\ avatar'.view = avatar.view /\ avatar'.alive = avatar.alive /\ avatar'.at = at
        /\ avatar'.placed = avatar.placed /\ avatar'.asked = avatar.asked
    BY <1>4, <1>6 DEF AvatarFields
  <2>4. ActsAlone(p)
    BY <1>1, <1>2, <2>2 DEF ActsAlone
  <2>5. AvatarActs(p)
    BY <1>6, <2>2, <2>3 DEF AvatarActs
  <2>6. HistoryActs(p)
    BY <1>5, <1>6, <2>2 DEF HistoryActs
  <2> QED BY <2>4, <2>5, <2>6 DEF Acts
<1>7. ASSUME NEW kind \in {"Turn", "Tick", "Other"}, kind = "Turn" => avatar.placed,
             UNCHANGED avatar,
             history' = [history EXCEPT !.acts = @ + 1], history.acts < MaxActs,
             toServer' = toServer \o <<Plain(kind)>>
      PROVE  \E p : Acts(p)
  <2>1. PICK p : p = Plain(kind)
    OBVIOUS
  <2>2. p.kind = kind /\ toServer' = Append(toServer, p)
    BY <1>3, <1>7, <2>1 DEF Plain, Packet
  <2>3. ActsAlone(p)
    BY <1>1, <1>2, <2>2 DEF ActsAlone
  <2>4. AvatarActs(p)
    BY <1>7, <2>2 DEF AvatarActs
  <2>5. HistoryActs(p)
    BY <1>5, <1>7, <2>2 DEF HistoryActs
  <2> QED BY <2>3, <2>4, <2>5 DEF Acts
<1>8. CASE Walk
  BY <1>6, <1>7, <1>8 DEF Walk, ClientSends
<1>9. CASE Idle
  BY <1>7, <1>9 DEF Idle, ClientSends
<1>10. CASE Speak
  <2>1. PICK kind \in {"Chat", "ChatCommand"} : toServer' = toServer \o <<Packet(kind, 1)>>
    BY <1>10 DEF Speak, ClientSends
  <2>2. PICK p : p = Packet(kind, 1)
    OBVIOUS
  <2>3. p.kind = kind /\ toServer' = Append(toServer, p)
    BY <1>3, <2>1, <2>2 DEF Packet
  <2>4. /\ history'.teleported = history.teleported /\ history'.foreign = history.foreign
        /\ history'.acts = history.acts + 2 /\ history'.acts <= MaxActs /\ UNCHANGED avatar
    BY <1>4, <1>10, PlayLoopAssumption DEF HistoryFields, Speak
  <2>5. ActsAlone(p)
    BY <1>1, <1>2, <2>3 DEF ActsAlone
  <2>6. AvatarActs(p)
    BY <2>1, <2>3, <2>4 DEF AvatarActs
  <2>7. HistoryActs(p)
    BY <2>1, <2>3, <2>4 DEF HistoryActs
  <2> QED BY <2>5, <2>6, <2>7 DEF Acts
<1>11. CASE AskRespawn
  <2>1. PICK p : p = Plain("ClientCommand")
    OBVIOUS
  <2>2. /\ p.kind = "ClientCommand" /\ toServer' = Append(toServer, p) /\ UNCHANGED history
        /\ ~avatar.alive /\ ~avatar.asked /\ avatar' = [avatar EXCEPT !.asked = TRUE]
    BY <1>3, <1>11, <2>1 DEF AskRespawn, ClientSends, Plain, Packet
  <2>3. /\ avatar'.view = avatar.view /\ avatar'.alive = avatar.alive /\ avatar'.at = avatar.at
        /\ avatar'.placed = avatar.placed /\ avatar'.asked
    BY <1>4, <2>2 DEF AvatarFields
  <2>4. ActsAlone(p)
    BY <1>1, <1>2, <2>2 DEF ActsAlone
  <2>5. AvatarActs(p)
    BY <2>2, <2>3 DEF AvatarActs
  <2>6. HistoryActs(p)
    BY <2>2 DEF HistoryActs
  <2> QED BY <2>4, <2>5, <2>6 DEF Acts
<1> QED BY <1>8, <1>9, <1>10, <1>11

---------------------------------------------------------------------------
\* While the loop runs for a conforming client, both directions are
\* sequences, and a client that has yet to enter has sent nothing.
LEMMA EnteredFacts ==
  ASSUME TalkInv, Types, Entered
  PROVE  /\ IsSequence(toServer) /\ IsSequence(toClient) /\ events \in Seq(EventTypes)
         /\ client.phase = "Play" =>
              /\ step = "bootstrap" /\ toServer = <<>> /\ toClient # <<>>
              /\ toClient[1] = Plain("PlayLogin")
<1>1. client.phase = "Play" => /\ step = "bootstrap" /\ toServer = <<>> /\ toClient # <<>>
                               /\ toClient[1] = Plain("PlayLogin")
  BY PlayMeetsTheWorld DEF Entered
<1>2. IsSequence(toServer)
  BY <1>1, NoneFacts DEF Entered, Types, PacketTypes, InWorld, FromClient
<1> QED BY <1>1, <1>2 DEF Types, TalkInv

\* The steps after which such a client is still there.
LEMMA StepsOfTheEntered ==
  ASSUME TalkInv, Types, Types', [Next]_vars, Entered'
  PROVE  \/ EntersPlay
         \/ /\ Entered
            /\ \/ LoopStep \/ Command \/ Dispatch \/ ForeignRequest
               \/ Inhabit /\ (Enters \/ Lives)
               \/ \E p : Acts(p)
               \/ UNCHANGED vars
<1>1. CASE UNCHANGED vars
  BY <1>1 DEF vars, connVars, Entered, InPlay
<1>2. CASE HandlerStep /\ UNCHANGED playVars
  BY <1>2, HandlerEntry
<1>3. CASE ClientStep /\ UNCHANGED playVars
  BY <1>3, ClientGone
<1>4. CASE LoopStep
  <2>1. InPlay /\ UNCHANGED <<conforms, client>>
    BY <1>4, LoopMeetsTheWorld, LoopEffect
  <2> QED BY <1>4, <2>1 DEF Entered
<1>5. CASE Command \/ ForeignRequest
  BY <1>5 DEF Command, ForeignRequest, connVars, MayAct, Entered
<1>6. CASE Dispatch
  BY <1>6 DEF Dispatch, Entered
<1>7. CASE Inhabit
  <2>1. conforms /\ UNCHANGED step /\ (Leaves \/ Enters \/ Lives)
    BY <1>7, InhabitEffect
  <2>2. ~Leaves
    <3>1. client = [f \in {"phase", "informed"} |-> client[f]]
      BY DEF TalkInv
    <3> QED BY <3>1 DEF Leaves, Entered
  <2>3. Entered
    BY <2>1, <2>2 DEF Entered, InPlay, Enters, Lives
  <2> QED BY <1>7, <2>1, <2>2, <2>3
<1>8. CASE Walk \/ Idle \/ Speak \/ AskRespawn
  <2>1. PICK p : Acts(p)
    BY <1>8, PlayerActs
  <2>2. Entered
    BY <2>1 DEF Acts, ActsAlone, Entered, InPlay
  <2> QED BY <2>1, <2>2
<1> QED BY <1>1, <1>2, <1>3, <1>4, <1>5, <1>6, <1>7, <1>8 DEF Next, PlayerStep

---------------------------------------------------------------------------
\* The view that the client shows once all packets have come is the loop's.
LoopsView == [center |-> loop.center, chunks |-> loop.loaded]
ViewArrives == Entered => Arrives(toClient, avatar.view, LoopsView)

\* Packets that leave the view.
LEMMA ViewUnchanged ==
  ASSUME NEW q, IsSequence(q), NEW v, NEW x, Arrives(q, v, x), NEW p, p.kind # "View"
  PROVE  Arrives(Append(q, p), v, x)
BY ArrivesAppended DEF ShownBy

\* The first two packets of the view.
LEMMA FirstViewShows ==
  ASSUME NEW c \in Int
  PROVE  ShownAll([center |-> c, chunks |-> {}], <<Packet("Center", c), Packet("Chunk", c)>>)
           = [center |-> c, chunks |-> {c}]
<1>1. PICK parts : parts = <<Packet("Center", c), Packet("Chunk", c)>>
  OBVIOUS
<1>2. Len(parts) = 2 /\ parts[1] = Packet("Center", c) /\ parts[2] = Packet("Chunk", c)
  BY <1>1
<1>3. PICK v : v = [center |-> c, chunks |-> {}]
  OBVIOUS
<1>4. PICK x : x = [center |-> c, chunks |-> {c}]
  OBVIOUS
<1>5. PICK t : t = [i \in 0 .. 2 |-> IF i = 2 THEN x ELSE v]
  OBVIOUS
<1>6. t[0] = v /\ t[1] = v /\ t[2] = x
  BY <1>5
<1>7. Shown(v, parts[1]) = v
  BY <1>2, <1>3 DEF Shown, Packet
<1>8. Shown(v, parts[2]) = x
  <2>1. parts[2].kind = "Chunk" /\ parts[2].n = c
    BY <1>2 DEF Packet
  <2>2. c \in Around(c)
    BY AroundIsFinite
  <2>3. {} \cup ({c} \cap Around(c)) = {c}
    BY <2>2
  <2> QED BY <1>3, <1>4, <2>1, <2>3 DEF Shown
<1>11. PICK n \in Nat : n = 2
  OBVIOUS
<1>9. \A i \in 1 .. n : t[i] = Shown(t[i - 1], parts[i])
  <2>1. t[1] = Shown(t[0], parts[1]) /\ t[2] = Shown(t[1], parts[2])
    BY <1>6, <1>7, <1>8
  <2> QED BY <1>11, <2>1
<1>12. Len(parts) = n
  BY <1>2, <1>11
<1>10. ShownAll(v, parts) = t[n]
  BY <1>6, <1>9, <1>12, ShownAllIsTheLast
<1> QED BY <1>1, <1>3, <1>4, <1>6, <1>10, <1>11

\* The view of the bootstrap is the one that the loop starts with.
LEMMA FirstViewArrives ==
  ASSUME EntersPlay
  PROVE  Arrives(toClient', avatar'.view, LoopsView')
<1>1. PICK c \in Int : c = ChunkOf(Spawn)
  BY SpawnIsThere
<1>2. PICK v : v = [center |-> c, chunks |-> {}]
  OBVIOUS
<1>3. PICK x : x = [center |-> c, chunks |-> {c}]
  OBVIOUS
<1>4. avatar'.view = v /\ LoopsView' = x
  BY <1>1, <1>2, <1>3 DEF EntersPlay, Fresh, NewAvatar, NewLoop, LoopsView
<1>5. PICK a : a = Plain("PlayLogin")
  OBVIOUS
<1>6. PICK b : b = FirstView
  OBVIOUS
<1>7. PICK d : d = Teleport(SpawnTeleport, Spawn)
  OBVIOUS
<1>8. a.kind # "View" /\ b.kind = "View" /\ d.kind # "View"
      /\ b.parts = <<Packet("Center", c), Packet("Chunk", c)>>
  BY <1>1, <1>5, <1>6, <1>7 DEF Plain, Packet, FirstView, View, Teleport
<1>9. ShownBy(v, b) = x
  BY <1>2, <1>3, <1>8, FirstViewShows DEF ShownBy
<1>10. IsSequence(<<>>) /\ Arrives(<<>>, v, v)
  BY NoneFacts, NothingArrives
<1>11. PICK q1 : q1 = Append(<<>>, a)
  OBVIOUS
<1>12. IsSequence(q1) /\ Arrives(q1, v, v)
  BY <1>8, <1>10, <1>11, ViewUnchanged, AppendFacts
<1>13. PICK q2 : q2 = Append(q1, b)
  OBVIOUS
<1>14. IsSequence(q2) /\ Arrives(q2, v, x)
  <2>1. IsSequence(q2)
    BY <1>12, <1>13, AppendFacts
  <2>2. Arrives(Append(q1, b), v, ShownBy(v, b))
    BY <1>12, ArrivesAppended
  <2> QED BY <1>9, <1>13, <2>1, <2>2
<1>15. Arrives(Append(q2, d), v, x)
  BY <1>8, <1>14, ViewUnchanged
<1> QED BY <1>4, <1>5, <1>6, <1>7, <1>11, <1>13, <1>15 DEF EntersPlay

\* A step of the loop.
LEMMA LoopsViewArrives ==
  ASSUME Types, ViewStep, UNCHANGED avatar, Arrives(toClient, avatar.view, LoopsView)
  PROVE  Arrives(toClient', avatar'.view, LoopsView')
<1>1. IsSequence(toClient) /\ IsFiniteSet(loop.loaded)
  BY DEF Types, LoopTypes
<1>2. CASE ViewStays(loop') /\ toClient' = toClient
  BY <1>2 DEF ViewStays, LoopsView
<1>3. ASSUME ViewStays(loop'), NEW p, p.kind \in Neutral, toClient' = toClient \o <<p>>
      PROVE  Arrives(toClient', avatar'.view, LoopsView')
  <2>1. toClient' = Append(toClient, p)
    BY <1>1, <1>3, AppendFacts
  <2>2. p.kind # "View"
    BY <1>3 DEF Neutral
  <2>3. PICK v : v = avatar.view
    OBVIOUS
  <2>4. PICK x : x = LoopsView
    OBVIOUS
  <2>5. Arrives(Append(toClient, p), v, x)
    BY <1>1, <2>2, <2>3, <2>4, ViewUnchanged
  <2> QED BY <1>3, <2>1, <2>3, <2>4, <2>5 DEF ViewStays, LoopsView
<1>4. ASSUME NEW c \in Int, toClient' = toClient \o <<Delta(loop, c)>>,
             loop'.center = c, loop'.loaded = Around(c)
      PROVE  Arrives(toClient', avatar'.view, LoopsView')
  <2>1. PICK p : p = Delta(loop, c)
    OBVIOUS
  <2>2. toClient' = Append(toClient, p)
    BY <1>1, <1>4, <2>1, AppendFacts
  <2>3. ShownBy(LoopsView, p) = LoopsView'
    BY <1>1, <1>4, <2>1, DeltaShows DEF ShownBy, LoopsView
  <2>4. PICK v : v = avatar.view
    OBVIOUS
  <2>5. PICK x : x = LoopsView
    OBVIOUS
  <2>6. Arrives(Append(toClient, p), v, ShownBy(x, p))
    BY <1>1, <2>4, <2>5, ArrivesAppended
  <2> QED BY <2>2, <2>3, <2>4, <2>5, <2>6
<1> QED BY <1>2, <1>3, <1>4 DEF ViewStep

\* Every step keeps that.
LEMMA ViewArrivesKept ==
  ASSUME TalkInv, Types, Types', ViewArrives, [Next]_vars
  PROVE  ViewArrives'
<1> SUFFICES ASSUME Entered' PROVE Arrives(toClient', avatar'.view, LoopsView')
  BY DEF ViewArrives
<1>1. CASE EntersPlay
  BY <1>1, FirstViewArrives
<1> SUFFICES ASSUME Entered PROVE Arrives(toClient', avatar'.view, LoopsView')
  BY <1>1, StepsOfTheEntered
<1>2. IsSequence(toClient) /\ Arrives(toClient, avatar.view, LoopsView)
  BY EnteredFacts DEF ViewArrives
<1>3. PICK v : v = avatar.view
  OBVIOUS
<1>4. PICK x : x = LoopsView
  OBVIOUS
<1>5. Arrives(toClient, v, x)
  BY <1>2, <1>3, <1>4
<1>6. CASE LoopStep
  <2>1. Traffic /\ UNCHANGED avatar
    BY <1>6, LoopEffect
  <2>2. ViewStep
    BY <2>1 DEF Traffic, Farewell, Entered, InPlay
  <2> QED BY <1>2, <2>1, <2>2, LoopsViewArrives
<1>7. ASSUME UNCHANGED <<toClient, loop, avatar>> PROVE Arrives(toClient', avatar'.view, LoopsView')
  BY <1>2, <1>7 DEF LoopsView
<1>8. ASSUME NEW p, p.kind # "View", toClient' = Append(toClient, p), UNCHANGED <<loop, avatar>>
      PROVE  Arrives(toClient', avatar'.view, LoopsView')
  <2>1. Arrives(Append(toClient, p), v, x)
    BY <1>2, <1>5, <1>8, ViewUnchanged
  <2> QED BY <1>3, <1>4, <1>8, <2>1 DEF LoopsView
<1>9. CASE Command
  BY <1>7, <1>9 DEF Command, connVars
<1>10. CASE ForeignRequest
  <2>1. toClient' = Append(toClient, Packet("KeepAlive", history'.foreign))
        /\ UNCHANGED <<loop, avatar>>
    BY <1>2, <1>10, AppendFacts DEF ForeignRequest, Sends
  <2> QED BY <1>8, <2>1 DEF Packet
<1>11. CASE Dispatch
  <2>1. /\ UNCHANGED <<loop, avatar>>
        /\ \/ toClient' = Append(toClient, Teleport(TeleportId, events[1].at))
           \/ toClient' = Append(toClient, Plain("Died"))
           \/ toClient' = Append(toClient, Plain("SystemChat"))
           \/ toClient' = Append(Append(toClient, Plain("Respawned")),
                                 Teleport(TeleportId, events[1].at))
    BY <1>2, <1>11, DispatchEffect
  <2>2. PICK t : t = Teleport(TeleportId, events[1].at)
    OBVIOUS
  <2>3. PICK r : r = Plain("Respawned")
    OBVIOUS
  <2>4. t.kind # "View" /\ r.kind # "View"
    BY <2>2, <2>3 DEF Teleport, Plain, Packet
  <2>5. CASE toClient' = Append(Append(toClient, r), t)
    <3>1. PICK q : q = Append(toClient, r)
      OBVIOUS
    <3>2. IsSequence(q) /\ Arrives(q, v, x)
      BY <1>2, <1>5, <2>4, <3>1, AppendFacts, ViewUnchanged
    <3>3. Arrives(Append(q, t), v, x)
      BY <2>4, <3>2, ViewUnchanged
    <3> QED BY <1>3, <1>4, <2>1, <2>5, <3>1, <3>3 DEF LoopsView
  <2>6. CASE toClient' = Append(toClient, t)
    BY <1>8, <2>1, <2>4, <2>6
  <2>7. CASE toClient' = Append(toClient, Plain("Died"))
             \/ toClient' = Append(toClient, Plain("SystemChat"))
    BY <1>8, <2>1, <2>7 DEF Plain, Packet
  <2> QED BY <2>1, <2>2, <2>3, <2>5, <2>6, <2>7
<1>12. CASE Inhabit /\ (Enters \/ Lives)
  <2>1. /\ toClient # <<>> /\ toClient' = Tail(toClient) /\ UNCHANGED loop
    BY <1>12, InhabitEffect
  <2>2. PICK p : p = toClient[1]
    OBVIOUS
  <2>3. Arrives(Tail(toClient), ShownBy(v, p), x)
    BY <1>2, <1>5, <2>1, <2>2, ArrivesRead
  <2>4. CASE Enters
    <3>1. p = Plain("PlayLogin") /\ UNCHANGED avatar
      BY <2>2, <2>4 DEF Enters
    <3>2. ShownBy(v, p) = v
      BY <3>1 DEF ShownBy, Plain, Packet
    <3> QED BY <1>3, <1>4, <2>1, <2>3, <3>1, <3>2 DEF LoopsView
  <2>5. CASE Lives
    <3>1. p.kind \in WorldKinds /\ avatar' = AvatarAfter(avatar, p)
      BY <2>2, <2>5 DEF Lives
    <3>2. avatar = [f \in AvatarFields |-> avatar[f]]
      BY DEF Types, AvatarTypes
    <3>3. PICK a : a = avatar
      OBVIOUS
    <3>4. AvatarAfter(a, p).view = ShownBy(a.view, p)
      BY <3>1, <3>2, <3>3, AvatarFacts
    <3> QED BY <1>3, <1>4, <2>1, <2>3, <3>1, <3>3, <3>4 DEF LoopsView
  <2> QED BY <1>12, <2>4, <2>5
<1>13. ASSUME NEW p, Acts(p) PROVE Arrives(toClient', avatar'.view, LoopsView')
  BY <1>2, <1>13 DEF Acts, ActsAlone, AvatarActs, LoopsView
<1>14. CASE UNCHANGED vars
  BY <1>7, <1>14 DEF vars, connVars, playVars
<1> QED BY <1>1, <1>6, <1>9, <1>10, <1>11, <1>12, <1>13, <1>14, StepsOfTheEntered

---------------------------------------------------------------------------
\* Between its rounds the loop's view is around the position it keeps.
Centered ==
  Entered /\ step \in {"bootstrap", "request", "read"} => loop.center = ChunkOf(loop.player)

\* The foot of the loop leaves where the loop is.
LEMMA FootIsCentered ==
  ASSUME NEW l, LoopTypes(l), l.center = ChunkOf(l.player), AfterPacket(l)
  PROVE  loop'.center = ChunkOf(loop'.player)
BY FootTypes

\* A step of the loop.
LEMMA LoopIsCentered ==
  ASSUME Types, Centered, Entered, LoopStep, step' # "ended"
  PROVE  step' \in {"bootstrap", "request", "read"} => loop'.center = ChunkOf(loop'.player)
<1>1. LoopTypes(loop) /\ loop.player \in Positions
  BY DEF Types, LoopTypes
<1>2. ASSUME Fails(<<>>) PROVE FALSE
  BY <1>2 DEF Fails, Ends
<1>3. ASSUME loop.center = ChunkOf(loop.player), NEW l, LoopTypes(l), l.center = loop.center,
             l.player = loop.player, AfterPacket(l)
      PROVE  loop'.center = ChunkOf(loop'.player)
  BY <1>3, FootIsCentered
<1>4. step \in {"bootstrap", "request", "read"} => loop.center = ChunkOf(loop.player)
  BY DEF Centered
<1>5. CASE ReadBootstrap
  <2> DEFINE l == [loop EXCEPT !.accepted = @ \/ Incoming.kind = "Accept",
                               !.batched = @ \/ Incoming.kind = "ChunkBatch",
                               !.ignored = @ + 1]
             m == [l EXCEPT !.ignored = 0]
  <2>1. l.center = loop.center /\ l.player = loop.player /\ m.center = loop.center
        /\ m.player = loop.player
    BY <1>1 DEF LoopTypes, IsLoop, LoopFields
  <2>2. loop' = Recentered(m, m.center) \/ loop' = l
    BY <1>2, <1>5 DEF ReadBootstrap, LoopStarts, l, m
  <2>3. Recentered(m, m.center).center = m.center /\ Recentered(m, m.center).player = m.player
    BY <1>1 DEF Recentered, LoopTypes, IsLoop, LoopFields
  <2>4. step = "bootstrap"
    BY <1>5 DEF ReadBootstrap, Reads
  <2> QED BY <1>4, <2>1, <2>2, <2>3, <2>4
<1>6. CASE Request
  BY <1>1, <1>4, <1>6 DEF Request, LoopTypes, IsLoop, LoopFields
<1>7. CASE ReadAnswer \/ ReadTick \/ ReadHarmless \/ ReadChat \/ ReadCommand \/ ReadUnknown
  <2>1. PICK l : AfterPacket(l) /\ l \in {loop, [loop EXCEPT !.acked = TRUE],
                       [loop EXCEPT !.ticks = IF @ < Interval THEN @ + 1 ELSE @],
                       [loop EXCEPT !.ignored = @ + 1]}
    BY <1>2, <1>7 DEF ReadAnswer, ReadTick, ReadHarmless, ReadChat, ReadCommand, ReadUnknown
  <2>2. LoopTypes(l) /\ l.center = loop.center /\ l.player = loop.player
    BY <1>1, <2>1 DEF LoopTypes, IsLoop, LoopFields
  <2>3. step = "read"
    BY <1>7 DEF ReadAnswer, ReadTick, ReadHarmless, ReadChat, ReadCommand, ReadUnknown, Gets, Reads
  <2> QED BY <1>3, <1>4, <2>1, <2>2, <2>3
<1>8. CASE ReadUndecodable \/ PlayEnds
  BY <1>8 DEF ReadUndecodable, PlayEnds, Fails, Ends
<1>9. CASE ReadMovement
  BY <1>9 DEF ReadMovement, Fails, Ends, Goes
<1>10. CASE Synchronize
  <2>1. PICK c \in Int : c = ChunkOf(loop.player)
    BY <1>1, ChunksAreNumbers
  <2>2. PICK l : l = Followed(loop, c)
    OBVIOUS
  <2>3. LoopTypes(l) /\ l.center = c /\ l.player = loop.player
    BY <1>1, <2>2, FollowedTypes
  <2>4. AfterPacket(l)
    BY <1>10, <2>1, <2>2 DEF Synchronize
  <2> QED BY <2>1, <2>3, <2>4, FootIsCentered
<1>11. CASE ReadRespawn
  <2>1. PICK m : m = [loop EXCEPT !.player = Spawn]
    OBVIOUS
  <2>2. PICK c \in Int : c = ChunkOf(Spawn)
    BY SpawnIsThere
  <2>3. LoopTypes(m) /\ m.player = Spawn
    BY <1>1, <2>1, SpawnIsThere DEF LoopTypes, IsLoop, LoopFields
  <2>4. PICK l : l = Followed(m, c)
    OBVIOUS
  <2>5. LoopTypes(l) /\ l.center = c /\ l.player = Spawn
    BY <2>3, <2>4, FollowedTypes
  <2>6. AfterPacket(l) \/ AfterPacket(loop)
    BY <1>11, <2>1, <2>2, <2>4 DEF ReadRespawn
  <2>7. step = "read"
    BY <1>11 DEF ReadRespawn, Gets, Reads
  <2> QED BY <1>1, <1>3, <1>4, <2>2, <2>5, <2>6, <2>7, FootIsCentered
<1> QED BY <1>5, <1>6, <1>7, <1>8, <1>9, <1>10, <1>11 DEF LoopStep

\* Every step keeps that.
LEMMA CenteredKept ==
  ASSUME TalkInv, Types, Types', Centered, [Next]_vars
  PROVE  Centered'
<1> SUFFICES ASSUME Entered', step' \in {"bootstrap", "request", "read"}
             PROVE  loop'.center = ChunkOf(loop'.player)
  BY DEF Centered
<1>1. CASE EntersPlay
  BY <1>1 DEF EntersPlay, Fresh, NewLoop
<1>2. CASE Entered /\ LoopStep
  BY <1>2, LoopIsCentered
<1>3. CASE Entered /\ UNCHANGED <<loop, step>>
  BY <1>3 DEF Centered
<1>4. ASSUME Inhabit PROVE UNCHANGED <<loop, step>>
  BY <1>4, InhabitEffect
<1>5. ASSUME NEW p, Acts(p) PROVE UNCHANGED <<loop, step>>
  BY <1>5 DEF Acts, ActsAlone
<1>6. ASSUME Command \/ Dispatch \/ ForeignRequest \/ UNCHANGED vars PROVE UNCHANGED <<loop, step>>
  BY <1>6 DEF Command, Dispatch, ForeignRequest, vars, connVars, playVars
<1> QED BY <1>1, <1>2, <1>3, <1>4, <1>5, <1>6, StepsOfTheEntered

---------------------------------------------------------------------------
\* In the bootstrap: no movement is ahead of the acknowledged teleport, and
\* that is not ahead of the chunk batch.
BatchIsNear == loop.batched \/ Has(toServer, {"ChunkBatch"})
Boot ==
  Entered /\ step = "bootstrap" =>
    /\ ~loop.accepted
    /\ Preceded(toServer, MovementKinds, {"Accept"})
    /\ loop.batched \/ Preceded(toServer, {"Accept"}, {"ChunkBatch"})
    /\ BatchIsNear \/ (Preceded(toClient, {"Teleport"}, {"View"}) /\ Has(toClient, {"View"}))
    /\ avatar.placed => Has(toServer, {"Accept"})

\* A packet of the bootstrap that does not end it.
LEMMA BootRead ==
  ASSUME TalkInv, Types, Boot, Entered, ReadBootstrap, step' = "bootstrap"
  PROVE  /\ toServer[1].kind \notin MovementKinds /\ toServer[1].kind # "Accept"
         /\ ~loop'.accepted
         /\ loop'.batched <=> loop.batched \/ toServer[1].kind = "ChunkBatch"
         /\ toServer # <<>> /\ toServer' = Tail(toServer) /\ UNCHANGED <<toClient, avatar>>
<1> DEFINE l == [loop EXCEPT !.accepted = @ \/ Incoming.kind = "Accept",
                             !.batched = @ \/ Incoming.kind = "ChunkBatch",
                             !.ignored = @ + 1]
<1>1. IsSequence(toServer) /\ IsLoop(loop)
  BY EnteredFacts DEF Types, LoopTypes
<1>2. /\ toServer # <<>> /\ toServer' = Tail(toServer) /\ UNCHANGED avatar /\ step = "bootstrap"
  BY DEF ReadBootstrap, Reads, Consumes, Unaffected, GameRest
<1>3. /\ loop' = l /\ ~(l.accepted /\ l.batched) /\ UNCHANGED toClient
  BY DEF ReadBootstrap, Fails, Ends, LoopStarts, Goes, l
<1>4. /\ (l.accepted <=> (loop.accepted \/ toServer[1].kind = "Accept"))
      /\ (l.batched <=> (loop.batched \/ toServer[1].kind = "ChunkBatch"))
  BY <1>1 DEF IsLoop, LoopFields, Incoming
<1> HIDE DEF l
<1>5. /\ ~loop.accepted /\ Preceded(toServer, MovementKinds, {"Accept"})
      /\ loop.batched \/ Preceded(toServer, {"Accept"}, {"ChunkBatch"})
  BY <1>2 DEF Boot
<1>6. toServer[1].kind \notin MovementKinds
  BY <1>1, <1>2, <1>5, PrecededRead
<1>7. toServer[1].kind # "Accept"
  <2>1. CASE loop.batched
    BY <1>3, <1>4, <2>1
  <2>2. CASE Preceded(toServer, {"Accept"}, {"ChunkBatch"})
    BY <1>1, <1>2, <2>2, PrecededRead
  <2> QED BY <1>5, <2>1, <2>2
<1> QED BY <1>2, <1>3, <1>4, <1>5, <1>6, <1>7

\* A packet that the client sends in the bootstrap.
BootServer(q, batched) ==
  /\ Preceded(q, MovementKinds, {"Accept"})
  /\ batched \/ Preceded(q, {"Accept"}, {"ChunkBatch"})
\* It is none that the client has to wait with.
LEMMA BootSent ==
  ASSUME NEW q, IsSequence(q), NEW batched, BootServer(q, batched), NEW p,
         p.kind \in MovementKinds => Has(q, {"Accept"}),
         p.kind = "Accept" => batched \/ Has(q, {"ChunkBatch"})
  PROVE  /\ BootServer(Append(q, p), batched) /\ IsSequence(Append(q, p))
         /\ Has(q, {"Accept"}) \/ p.kind = "Accept" => Has(Append(q, p), {"Accept"})
         /\ Has(q, {"ChunkBatch"}) \/ p.kind = "ChunkBatch" => Has(Append(q, p), {"ChunkBatch"})
<1>1. IsSequence(Append(q, p))
  BY AppendFacts
<1>2. Preceded(Append(q, p), MovementKinds, {"Accept"})
  BY PrecededAppended DEF BootServer
<1>3. batched \/ Preceded(Append(q, p), {"Accept"}, {"ChunkBatch"})
  BY PrecededAppended DEF BootServer
<1>4. Has(q, {"Accept"}) \/ p.kind = "Accept" => Has(Append(q, p), {"Accept"})
  BY HasAppended
<1>5. Has(q, {"ChunkBatch"}) \/ p.kind = "ChunkBatch" => Has(Append(q, p), {"ChunkBatch"})
  BY HasAppended
<1> QED BY <1>1, <1>2, <1>3, <1>4, <1>5 DEF BootServer

\* A packet that the server sends in the bootstrap.
ViewIsFirst(q) == Preceded(q, {"Teleport"}, {"View"}) /\ Has(q, {"View"})
\* The view stays the first, whatever is sent after it.
LEMMA ViewStaysFirst ==
  ASSUME NEW q, IsSequence(q), ViewIsFirst(q), NEW p
  PROVE  ViewIsFirst(Append(q, p)) /\ IsSequence(Append(q, p))
BY AppendFacts, HasAppended, PrecededAppended DEF ViewIsFirst

\* It is the first in the packets that enter Play.
LEMMA FirstViewIsFirst ==
  ASSUME EntersPlay
  PROVE  ViewIsFirst(toClient')
<1>1. PICK a : a = Plain("PlayLogin")
  OBVIOUS
<1>2. PICK b : b = FirstView
  OBVIOUS
<1>3. PICK d : d = Teleport(SpawnTeleport, Spawn)
  OBVIOUS
<1>4. a.kind = "PlayLogin" /\ b.kind = "View" /\ d.kind = "Teleport"
  BY <1>1, <1>2, <1>3 DEF Plain, Packet, FirstView, View, Teleport
<1>5. IsSequence(<<>>) /\ Preceded(<<>>, {"Teleport"}, {"View"})
  BY NoneFacts, HasNothing
<1>6. PICK q1 : q1 = Append(<<>>, a)
  OBVIOUS
<1>7. IsSequence(q1) /\ Preceded(q1, {"Teleport"}, {"View"})
  BY <1>4, <1>5, <1>6, AppendFacts, PrecededAppended
<1>8. PICK q2 : q2 = Append(q1, b)
  OBVIOUS
<1>9. IsSequence(q2) /\ Has(q2, {"View"})
  BY <1>4, <1>7, <1>8, AppendFacts, HasAppended
<1>10. Preceded(q2, {"Teleport"}, {"View"})
  BY <1>4, <1>7, <1>8, PrecededAppended
<1>11. ViewIsFirst(Append(q2, d))
  BY <1>9, <1>10, ViewStaysFirst DEF ViewIsFirst
<1> QED BY <1>1, <1>2, <1>3, <1>6, <1>8, <1>11 DEF EntersPlay

\* Its parts, one by one.
BootParts ==
  /\ ~loop.accepted /\ BootServer(toServer, loop.batched)
  /\ BatchIsNear \/ ViewIsFirst(toClient)
  /\ avatar.placed => Has(toServer, {"Accept"})
\* They are the same.
LEMMA BootIsItsParts ==
  (Boot <=> (Entered /\ step = "bootstrap" => BootParts))
  /\ (Boot' <=> (Entered' /\ step' = "bootstrap" => BootParts'))
<1>1. Boot <=> (Entered /\ step = "bootstrap" => BootParts)
  BY DEF Boot, BootParts, BootServer, ViewIsFirst
<1>2. Boot' <=> (Entered' /\ step' = "bootstrap" => BootParts')
  BY DEF Boot, BootParts, BootServer, ViewIsFirst
<1> QED BY <1>1, <1>2

\* A packet that the bootstrap reads.
LEMMA BootReadKept ==
  ASSUME TalkInv, Types, Boot, Entered, ReadBootstrap, step' = "bootstrap"
  PROVE  BootParts'
<1>1. /\ toServer[1].kind \notin MovementKinds /\ toServer[1].kind # "Accept"
      /\ ~loop'.accepted
      /\ loop'.batched <=> loop.batched \/ toServer[1].kind = "ChunkBatch"
      /\ toServer # <<>> /\ toServer' = Tail(toServer) /\ UNCHANGED <<toClient, avatar>>
  BY BootRead
<1>2. step = "bootstrap"
  BY DEF ReadBootstrap, Reads
<1>3. IsSequence(toServer) /\ BootParts
  BY <1>2, EnteredFacts, BootIsItsParts
<1>4. Preceded(Tail(toServer), MovementKinds, {"Accept"})
  BY <1>1, <1>3, PrecededRead DEF BootParts, BootServer
<1>5. loop'.batched \/ Preceded(Tail(toServer), {"Accept"}, {"ChunkBatch"})
  BY <1>1, <1>3, PrecededRead DEF BootParts, BootServer
<1>6. avatar.placed => Has(Tail(toServer), {"Accept"})
  BY <1>1, <1>3, HasRead DEF BootParts
<1>7. Has(toServer, {"ChunkBatch"}) =>
        toServer[1].kind = "ChunkBatch" \/ Has(Tail(toServer), {"ChunkBatch"})
  BY <1>1, <1>3, HasRead
<1>8. BatchIsNear' \/ ViewIsFirst(toClient')
  BY <1>1, <1>3, <1>7 DEF BootParts, BatchIsNear
<1> QED BY <1>1, <1>4, <1>5, <1>6, <1>8 DEF BootParts, BootServer

\* A packet that the client reads.
LEMMA BootInhabitKept ==
  ASSUME TalkInv, Types, Entered, BootParts, Inhabit, Enters \/ Lives
  PROVE  BootParts'
<1>1. /\ toClient # <<>> /\ toClient' = Tail(toClient) /\ UNCHANGED loop
  BY InhabitEffect
<1>2. PICK p : p = toClient[1]
  OBVIOUS
<1>3. IsSequence(toServer) /\ IsSequence(toClient)
  BY EnteredFacts
<1>4. ASSUME ViewIsFirst(toClient), p.kind # "View" PROVE ViewIsFirst(Tail(toClient))
  <2>1. Preceded(Tail(toClient), {"Teleport"}, {"View"})
    BY <1>1, <1>2, <1>3, <1>4, PrecededRead DEF ViewIsFirst
  <2>2. Has(Tail(toClient), {"View"})
    BY <1>1, <1>2, <1>3, <1>4, HasRead DEF ViewIsFirst
  <2> QED BY <2>1, <2>2 DEF ViewIsFirst
<1>5. ASSUME p.kind = "Teleport" PROVE BatchIsNear
  BY <1>1, <1>2, <1>3, <1>5, PrecededRead DEF BootParts, ViewIsFirst
<1>6. CASE Enters
  <2>1. p.kind = "PlayLogin" /\ UNCHANGED <<toServer, avatar>>
    BY <1>2, <1>6 DEF Enters, Plain, Packet
  <2> QED BY <1>1, <1>4, <2>1 DEF BootParts, BatchIsNear
<1>7. CASE Lives
  <2>1. /\ p.kind \in WorldKinds /\ avatar' = AvatarAfter(avatar, p)
        /\ toServer' = toServer \o AnswersTo(p)
    BY <1>2, <1>7 DEF Lives
  <2>2. avatar = [f \in AvatarFields |-> avatar[f]]
    BY DEF Types, AvatarTypes
  <2>3. PICK a : a = avatar
    OBVIOUS
  <2>13. a = [f \in AvatarFields |-> a[f]] /\ p.kind \in WorldKinds
    BY <2>1, <2>2, <2>3
  <2>12. AvatarAfter(a, p).placed
           = (IF p.kind = "Teleport" THEN TRUE
              ELSE IF p.kind = "Respawned" THEN FALSE ELSE a.placed)
    BY <2>13, AvatarFacts, Zenon
  <2>4. avatar'.placed
          = (IF p.kind = "Teleport" THEN TRUE ELSE IF p.kind = "Respawned" THEN FALSE ELSE a.placed)
    BY <2>1, <2>3, <2>12
  <2>5. PICK q : q = toServer
    OBVIOUS
  <2>6. PICK b : b = loop.batched
    OBVIOUS
  <2>7. BootServer(q, b) /\ IsSequence(q) /\ (a.placed => Has(q, {"Accept"}))
    BY <1>3, <2>3, <2>5, <2>6 DEF BootParts
  <2>8. CASE p.kind = "View"
    <3>1. PICK r : r = Packet("ChunkBatch", 1)
      OBVIOUS
    <3>2. r.kind = "ChunkBatch" /\ toServer' = Append(q, r)
      BY <1>3, <2>1, <2>5, <2>8, <3>1, AnswersFacts DEF Packet
    <3>3. /\ BootServer(Append(q, r), b) /\ Has(Append(q, r), {"ChunkBatch"})
          /\ Has(q, {"Accept"}) => Has(Append(q, r), {"Accept"})
      BY <2>7, <3>2, BootSent DEF MovementKinds
    <3> QED BY <1>1, <2>3, <2>4, <2>6, <2>7, <2>8, <3>2, <3>3 DEF BootParts, BatchIsNear
  <2>9. CASE p.kind = "Teleport"
    <3>1. PICK r : r = Packet("Accept", p.n)
      OBVIOUS
    <3>2. PICK m : m = Packet("Move", p.to)
      OBVIOUS
    <3>3. PICK s : s = Append(q, r)
      OBVIOUS
    <3>8. q \o AnswersTo(p) = Append(Append(q, Packet("Accept", p.n)), Packet("Move", p.to))
      BY <1>3, <2>1, <2>5, <2>9, AnswersFacts
    <3>4. r.kind = "Accept" /\ m.kind = "Move" /\ toServer' = Append(s, m)
      BY <2>1, <2>5, <3>1, <3>2, <3>3, <3>8 DEF Packet
    <3>5. b \/ Has(q, {"ChunkBatch"})
      BY <1>5, <2>5, <2>6, <2>9 DEF BatchIsNear
    <3>6. /\ BootServer(s, b) /\ IsSequence(s) /\ Has(s, {"Accept"})
          /\ Has(q, {"ChunkBatch"}) => Has(s, {"ChunkBatch"})
      BY <2>7, <3>3, <3>4, <3>5, BootSent DEF MovementKinds
    <3>7. /\ BootServer(Append(s, m), b) /\ Has(Append(s, m), {"Accept"})
          /\ Has(s, {"ChunkBatch"}) => Has(Append(s, m), {"ChunkBatch"})
      BY <3>4, <3>6, BootSent
    <3> QED BY <1>1, <2>6, <3>4, <3>5, <3>6, <3>7 DEF BootParts, BatchIsNear
  <2>10. CASE p.kind = "KeepAlive"
    <3>1. PICK r : r = Packet("KeepAlive", p.n)
      OBVIOUS
    <3>2. r.kind = "KeepAlive" /\ toServer' = Append(q, r)
      BY <1>3, <2>1, <2>5, <2>10, <3>1, AnswersFacts DEF Packet
    <3>3. /\ BootServer(Append(q, r), b)
          /\ Has(q, {"Accept"}) => Has(Append(q, r), {"Accept"})
          /\ Has(q, {"ChunkBatch"}) => Has(Append(q, r), {"ChunkBatch"})
      BY <2>7, <3>2, BootSent DEF MovementKinds
    <3>4. BatchIsNear => BatchIsNear'
      BY <1>1, <2>5, <3>2, <3>3 DEF BatchIsNear
    <3> QED BY <1>1, <1>4, <2>3, <2>4, <2>6, <2>7, <2>10, <3>2, <3>3, <3>4 DEF BootParts
  <2>11. CASE p.kind \in {"SystemChat", "Died", "Respawned"}
    <3>1. toServer' = q
      BY <1>3, <2>1, <2>5, <2>11, AnswersFacts
    <3>2. BatchIsNear => BatchIsNear'
      BY <1>1, <2>5, <3>1 DEF BatchIsNear
    <3> QED BY <1>1, <1>4, <2>3, <2>4, <2>5, <2>6, <2>7, <2>11, <3>1, <3>2 DEF BootParts
  <2> QED BY <2>1, <2>8, <2>9, <2>10, <2>11 DEF WorldKinds
<1> QED BY <1>6, <1>7

\* An act of the client.
LEMMA BootActsKept ==
  ASSUME TalkInv, Types, Entered, BootParts, NEW p, Acts(p)
  PROVE  BootParts'
<1>1. PICK q : q = toServer
  OBVIOUS
<1>2. PICK b : b = loop.batched
  OBVIOUS
<1>3. IsSequence(q) /\ BootServer(q, b) /\ (avatar.placed => Has(q, {"Accept"}))
  BY <1>1, <1>2, EnteredFacts DEF BootParts
<1>4. toServer' = Append(q, p) /\ UNCHANGED <<toClient, loop>> /\ avatar'.placed = avatar.placed
  BY <1>1 DEF Acts, ActsAlone, AvatarActs
<1>5. p.kind \in MovementKinds => avatar.placed
  BY DEF Acts, AvatarActs, MovementKinds
<1>6. p.kind # "Accept"
  BY DEF Acts, AvatarActs
<1>7. /\ BootServer(Append(q, p), b)
      /\ Has(q, {"Accept"}) => Has(Append(q, p), {"Accept"})
      /\ Has(q, {"ChunkBatch"}) => Has(Append(q, p), {"ChunkBatch"})
  BY <1>3, <1>5, <1>6, BootSent
<1> QED BY <1>1, <1>2, <1>3, <1>4, <1>7 DEF BootParts, BatchIsNear

\* Every step keeps the order of the bootstrap.
LEMMA BootKept ==
  ASSUME TalkInv, Types, Types', Boot, [Next]_vars
  PROVE  Boot'
<1> SUFFICES ASSUME Entered', step' = "bootstrap" PROVE BootParts'
  BY BootIsItsParts
<1>1. CASE EntersPlay
  <2>1. toServer' = <<>> /\ loop' = NewLoop /\ ~avatar'.placed /\ ViewIsFirst(toClient')
    BY <1>1, FirstViewIsFirst DEF EntersPlay, Fresh, NewAvatar
  <2> QED BY <2>1, HasNothing DEF BootParts, BootServer, NewLoop
<1>2. CASE Entered /\ LoopStep
  <2>1. ReadBootstrap
    <3>1. ~Fails(<<>>)
      BY DEF Fails, Ends
    <3>2. ASSUME NEW l, AfterPacket(l) PROVE FALSE
      BY <3>2 DEF AfterPacket, Goes
    <3>3. step' = "bootstrap" /\ ~(step' = "ended") /\ ~(step' = "read") /\ ~(step' = "moving")
      OBVIOUS
    <3> QED BY <1>2, <3>1, <3>2, <3>3
            DEF LoopStep, Request, ReadAnswer, ReadTick, ReadUndecodable, ReadHarmless,
                ReadChat, ReadCommand, ReadUnknown, ReadMovement, Synchronize, ReadRespawn,
                PlayEnds,
                Goes, Fails, Ends
  <2> QED BY <1>2, <2>1, BootReadKept
<1> SUFFICES ASSUME Entered, ~LoopStep PROVE BootParts'
  BY <1>1, <1>2, StepsOfTheEntered
<1>3. ASSUME UNCHANGED step PROVE BootParts
  BY <1>3, BootIsItsParts
<1>4. ASSUME UNCHANGED <<step, toServer, loop, avatar>>,
             ViewIsFirst(toClient) => ViewIsFirst(toClient')
      PROVE  BootParts'
  BY <1>3, <1>4 DEF BootParts, BatchIsNear
<1>5. IsSequence(toClient)
  BY EnteredFacts
<1>6. CASE Command \/ UNCHANGED vars
  BY <1>4, <1>6 DEF Command, vars, connVars, playVars
<1>7. CASE ForeignRequest
  <2>1. /\ toClient' = Append(toClient, Packet("KeepAlive", history'.foreign))
        /\ UNCHANGED <<step, toServer, loop, avatar>>
    BY <1>5, <1>7, AppendFacts DEF ForeignRequest, Sends
  <2> QED BY <1>4, <1>5, <2>1, ViewStaysFirst
<1>8. CASE Dispatch
  <2>1. /\ UNCHANGED <<step, toServer, loop, avatar>>
        /\ \/ \E p : toClient' = Append(toClient, p)
           \/ \E p, r : toClient' = Append(Append(toClient, p), r)
    BY <1>5, <1>8, DispatchEffect
  <2>2. CASE \E p : toClient' = Append(toClient, p)
    BY <1>4, <1>5, <2>1, <2>2, ViewStaysFirst
  <2>3. ASSUME NEW p, NEW r, toClient' = Append(Append(toClient, p), r) PROVE BootParts'
    <3>1. PICK q : q = Append(toClient, p)
      OBVIOUS
    <3>2. ViewIsFirst(toClient) => ViewIsFirst(q) /\ IsSequence(q)
      BY <1>5, <3>1, ViewStaysFirst
    <3>3. ViewIsFirst(q) /\ IsSequence(q) => ViewIsFirst(Append(q, r))
      BY ViewStaysFirst
    <3> QED BY <1>4, <2>1, <2>3, <3>1, <3>2, <3>3
  <2> QED BY <2>1, <2>2, <2>3
<1>9. CASE Inhabit /\ (Enters \/ Lives)
  <2>1. UNCHANGED step
    BY <1>9, InhabitEffect
  <2> QED BY <1>3, <1>9, <2>1, BootInhabitKept
<1>10. ASSUME NEW p, Acts(p) PROVE BootParts'
  <2>1. UNCHANGED step
    BY <1>10 DEF Acts, ActsAlone
  <2> QED BY <1>3, <1>10, <2>1, BootActsKept
<1> QED BY <1>1, <1>6, <1>7, <1>8, <1>9, <1>10, StepsOfTheEntered

---------------------------------------------------------------------------
\* The life that the client shows, through the packets on their way and the
\* events that replication has not dispatched, is the one in the game state;
\* R has the changes that each of them may make.
LifeStates == {"up", "unplaced", "down"}
NeutralLife == {"PlayLogin", "PlayDisconnect", "View", "KeepAlive", "SystemChat", "broadcast"}
Changes ==
  {<<"up", "Died", "down">>, <<"up", "killed", "down">>,
   <<"down", "Respawned", "unplaced">>, <<"unplaced", "Teleport", "up">>,
   <<"down", "respawned", "up">>}
Unchanged == {<<s, k, s>> : s \in LifeStates, k \in NeutralLife}
ProperSteps == Changes \cup Unchanged
LifeSteps ==
  ProperSteps
    \cup {<<s, k, "down">> : s \in LifeStates, k \in {"Died", "killed"}}
    \cup {<<s, "Respawned", "unplaced">> : s \in LifeStates}
    \cup {<<s, "respawned", "up">> : s \in LifeStates}
    \cup {<<s, k, IF s = "down" THEN "down" ELSE "up">> : s \in LifeStates,
                                                          k \in {"Teleport", "teleported"}}

\* What the relation of changes must have: what replication makes of an event
\* changes what the event does.
Translates(R) ==
  \A m, y :
    /\ <<m, "killed", y>> \in R => <<m, "Died", y>> \in R
    /\ <<m, "broadcast", y>> \in R => <<m, "SystemChat", y>> \in R
    /\ <<m, "teleported", y>> \in R => <<m, "Teleport", y>> \in R
    /\ <<m, "respawned", y>> \in R =>
         \E z : <<m, "Respawned", z>> \in R /\ <<z, "Teleport", y>> \in R
LifeRelation(R) == ProperSteps \subseteq R /\ R \subseteq LifeSteps /\ Translates(R)
LetsTeleport(R) ==
  \A s \in {"up", "down"} : <<s, "teleported", s>> \in R

LifeOf(a) == IF ~a.alive THEN "down" ELSE IF ~a.placed THEN "unplaced" ELSE "up"
LifeInGame == IF entity.dead THEN "down" ELSE "up"
LivesWith(R) ==
  \E m \in LifeStates : /\ Becomes(toClient, LifeOf(avatar), m, R)
                        /\ Becomes(events, m, LifeInGame, R)

\* Both are such relations, and every change has one result.
LEMMA LifeRelations ==
  /\ LifeRelation(ProperSteps) /\ LifeRelation(LifeSteps) /\ LetsTeleport(LifeSteps)
  /\ \A s, k, y : <<s, k, y>> \in LifeSteps => s \in LifeStates /\ y \in LifeStates
<1> USE DEF LifeStates
<1>1. Translates(ProperSteps)
  BY DEF Translates, ProperSteps, Changes, Unchanged, NeutralLife
<1>2. Translates(LifeSteps)
  <2>1. ASSUME NEW m, NEW y, <<m, "killed", y>> \in LifeSteps PROVE <<m, "Died", y>> \in LifeSteps
    BY <2>1 DEF LifeSteps, ProperSteps, Changes, Unchanged, NeutralLife
  <2>2. ASSUME NEW m, NEW y, <<m, "broadcast", y>> \in LifeSteps
        PROVE  <<m, "SystemChat", y>> \in LifeSteps
    BY <2>2 DEF LifeSteps, ProperSteps, Changes, Unchanged, NeutralLife
  <2>3. ASSUME NEW m, NEW y, <<m, "teleported", y>> \in LifeSteps
        PROVE  <<m, "Teleport", y>> \in LifeSteps
    BY <2>3 DEF LifeSteps, ProperSteps, Changes, Unchanged, NeutralLife
  <2>4. ASSUME NEW m, NEW y, <<m, "respawned", y>> \in LifeSteps
        PROVE  /\ <<m, "Respawned", "unplaced">> \in LifeSteps
               /\ <<"unplaced", "Teleport", y>> \in LifeSteps
    BY <2>4 DEF LifeSteps, ProperSteps, Changes, Unchanged, NeutralLife
  <2> QED BY <2>1, <2>2, <2>3, <2>4 DEF Translates
<1>3. LetsTeleport(LifeSteps)
  BY DEF LetsTeleport, LifeSteps
<1>4. \A s, k, y : <<s, k, y>> \in LifeSteps => s \in LifeStates /\ y \in LifeStates
  BY DEF LifeSteps, ProperSteps, Changes, Unchanged
<1> QED BY <1>1, <1>2, <1>3, <1>4 DEF LifeRelation, LifeSteps

\* Neutral packets and events are in it.
LEMMA NeutralSteps ==
  ASSUME NEW R, LifeRelation(R), NEW s \in LifeStates, NEW k \in NeutralLife
  PROVE  <<s, k, s>> \in R
BY DEF LifeRelation, ProperSteps, Unchanged

\* What a client reads changes its life as the relation says.
LEMMA LifeRead ==
  ASSUME NEW a, a = [f \in AvatarFields |-> a[f]], a.alive \in BOOLEAN, a.placed \in BOOLEAN,
         NEW p, p.kind \in WorldKinds, NEW y, <<LifeOf(a), p.kind, y>> \in LifeSteps
  PROVE  LifeOf(AvatarAfter(a, p)) = y
<1>1. PICK b : b = AvatarAfter(a, p)
  OBVIOUS
<1>2. /\ p.kind = "Died" => b.alive = FALSE /\ b.placed = a.placed
      /\ p.kind = "Respawned" => b.alive = TRUE /\ b.placed = FALSE
      /\ p.kind = "Teleport" => b.alive = a.alive /\ b.placed = TRUE
      /\ p.kind \in {"View", "KeepAlive", "SystemChat"} => b.alive = a.alive /\ b.placed = a.placed
  <2>1. CASE p.kind = "View"
    BY <1>1, <2>1 DEF AvatarAfter, AvatarFields
  <2>2. CASE p.kind = "Teleport"
    BY <1>1, <2>2 DEF AvatarAfter, AvatarFields
  <2>3. CASE p.kind = "Died"
    BY <1>1, <2>3 DEF AvatarAfter, AvatarFields
  <2>4. CASE p.kind = "Respawned"
    BY <1>1, <2>4 DEF AvatarAfter, AvatarFields
  <2>5. CASE p.kind \in {"KeepAlive", "SystemChat"}
    BY <1>1, <2>5 DEF AvatarAfter
  <2> QED BY <2>1, <2>2, <2>3, <2>4, <2>5 DEF WorldKinds
<1>3. CASE p.kind = "Died"
  BY <1>1, <1>2, <1>3 DEF LifeOf, LifeSteps, ProperSteps, Changes, Unchanged, NeutralLife
<1>4. CASE p.kind = "Respawned"
  BY <1>1, <1>2, <1>4 DEF LifeOf, LifeSteps, ProperSteps, Changes, Unchanged, NeutralLife
<1>5. CASE p.kind = "Teleport"
  BY <1>1, <1>2, <1>5 DEF LifeOf, LifeSteps, ProperSteps, Changes, Unchanged, NeutralLife
<1>6. CASE p.kind \in {"View", "KeepAlive", "SystemChat"}
  <2>1. y = LifeOf(a)
    BY <1>6 DEF LifeSteps, ProperSteps, Changes, Unchanged, NeutralLife
  <2> QED BY <1>1, <1>2, <1>6, <2>1 DEF LifeOf
<1> QED BY <1>3, <1>4, <1>5, <1>6 DEF WorldKinds

\* An event that replication dispatches.
LEMMA LifeDispatched ==
  ASSUME TalkInv, Types, Dispatch, NEW R, LifeRelation(R), LivesWith(R)
  PROVE  LivesWith(R)'
<1>1. PICK m \in LifeStates : Becomes(toClient, LifeOf(avatar), m, R)
                              /\ Becomes(events, m, LifeInGame, R)
  BY DEF LivesWith
<1>2. PICK s : s = LifeOf(avatar)
  OBVIOUS
<1>3. PICK x : x = LifeInGame
  OBVIOUS
<1>4. IsSequence(toClient) /\ IsSequence(events)
  BY DEF Types, TalkInv, IsSequence
<1>5. /\ events # <<>> /\ events' = Tail(events) /\ UNCHANGED <<avatar, entity>>
      /\ \/ /\ events[1].kind = "teleported"
            /\ toClient' = Append(toClient, Teleport(TeleportId, events[1].at))
         \/ /\ events[1].kind = "killed" /\ toClient' = Append(toClient, Plain("Died"))
         \/ /\ events[1].kind = "broadcast" /\ toClient' = Append(toClient, Plain("SystemChat"))
         \/ /\ events[1].kind = "respawned"
            /\ toClient' = Append(Append(toClient, Plain("Respawned")),
                                  Teleport(TeleportId, events[1].at))
  BY <1>4, DispatchEffect
<1>6. Becomes(toClient, s, m, R) /\ Becomes(events, m, x, R)
  BY <1>1, <1>2, <1>3
<1>7. PICK y : <<m, events[1].kind, y>> \in R /\ Becomes(Tail(events), y, x, R)
  BY <1>4, <1>5, <1>6, BecomesRead
<1>8. y \in LifeStates
  BY <1>7, LifeRelations DEF LifeRelation
<1>9. LifeOf(avatar') = s /\ LifeInGame' = x
  BY <1>2, <1>3, <1>5 DEF LifeInGame
<1>10. SUFFICES Becomes(toClient', s, y, R)
  BY <1>5, <1>7, <1>8, <1>9 DEF LivesWith
<1>11. ASSUME NEW p, toClient' = Append(toClient, p), <<m, p.kind, y>> \in R
       PROVE  Becomes(toClient', s, y, R)
  <2>1. Becomes(Append(toClient, p), s, y, R)
    BY <1>4, <1>6, <1>11, BecomesAppended
  <2> QED BY <1>11, <2>1
<1>12. CASE /\ events[1].kind = "teleported"
            /\ toClient' = Append(toClient, Teleport(TeleportId, events[1].at))
  <2>1. <<m, "Teleport", y>> \in R
    BY <1>7, <1>12 DEF LifeRelation, Translates
  <2> QED BY <1>11, <1>12, <2>1 DEF Teleport
<1>13. CASE events[1].kind = "killed" /\ toClient' = Append(toClient, Plain("Died"))
  <2>1. <<m, "Died", y>> \in R
    BY <1>7, <1>13 DEF LifeRelation, Translates
  <2> QED BY <1>11, <1>13, <2>1 DEF Plain, Packet
<1>14. CASE events[1].kind = "broadcast" /\ toClient' = Append(toClient, Plain("SystemChat"))
  <2>1. <<m, "SystemChat", y>> \in R
    BY <1>7, <1>14 DEF LifeRelation, Translates
  <2> QED BY <1>11, <1>14, <2>1 DEF Plain, Packet
<1>15. CASE /\ events[1].kind = "respawned"
            /\ toClient' = Append(Append(toClient, Plain("Respawned")),
                                  Teleport(TeleportId, events[1].at))
  <2>1. PICK z : <<m, "Respawned", z>> \in R /\ <<z, "Teleport", y>> \in R
    BY <1>7, <1>15 DEF LifeRelation, Translates
  <2>2. PICK r : r = Plain("Respawned")
    OBVIOUS
  <2>3. PICK t : t = Teleport(TeleportId, events[1].at)
    OBVIOUS
  <2>4. r.kind = "Respawned" /\ t.kind = "Teleport"
    BY <2>2, <2>3 DEF Plain, Packet, Teleport
  <2>5. PICK q : q = Append(toClient, r)
    OBVIOUS
  <2>6. IsSequence(q) /\ Becomes(q, s, z, R)
    BY <1>4, <1>6, <2>1, <2>4, <2>5, AppendFacts, BecomesAppended
  <2>7. Becomes(Append(q, t), s, y, R)
    BY <2>1, <2>4, <2>6, BecomesAppended
  <2> QED BY <1>15, <2>2, <2>3, <2>5, <2>7
<1> QED BY <1>5, <1>12, <1>13, <1>14, <1>15

\* A packet that changes nothing of a life.
LEMMA LifeSent ==
  ASSUME Types, NEW R, LifeRelation(R), LivesWith(R), NEW p, p.kind \in NeutralLife,
         toClient' = Append(toClient, p), UNCHANGED avatar
  PROVE  \E m \in LifeStates : /\ Becomes(toClient', LifeOf(avatar'), m, R)
                               /\ Becomes(events, m, LifeInGame, R)
<1>1. PICK m \in LifeStates : Becomes(toClient, LifeOf(avatar), m, R)
                              /\ Becomes(events, m, LifeInGame, R)
  BY DEF LivesWith
<1>2. PICK s : s = LifeOf(avatar)
  OBVIOUS
<1>3. <<m, p.kind, m>> \in R /\ IsSequence(toClient)
  BY NeutralSteps DEF Types
<1>4. Becomes(Append(toClient, p), s, m, R)
  BY <1>1, <1>2, <1>3, BecomesAppended
<1> QED BY <1>1, <1>2, <1>4

\* What happens in the game.
LEMMA LifeHappens ==
  ASSUME Types, TalkInv, NEW R, LifeRelation(R), Happens, history'.teleported => LetsTeleport(R),
         NEW m, Becomes(events, m, LifeInGame, R)
  PROVE  Becomes(events', m, LifeInGame', R)
<1>1. IsSequence(events) /\ entity \in [at : Positions, dead : BOOLEAN]
  BY DEF Types, TalkInv, IsSequence, EntityTypes
<1>2. PICK x : x = LifeInGame
  OBVIOUS
<1>3. Becomes(events, m, x, R) /\ x \in {"up", "down"} /\ x \in LifeStates
  BY <1>2 DEF LifeInGame, LifeStates
<1>4. ASSUME NEW kind, NEW at, Published(kind, at), NEW y, <<x, kind, y>> \in R
      PROVE  Becomes(events', m, y, R)
  <2>1. PICK e : e = [kind |-> kind, at |-> at]
    OBVIOUS
  <2>2. e.kind = kind /\ events' = Append(events, e)
    BY <1>4, <2>1 DEF Published
  <2>3. Becomes(Append(events, e), m, y, R)
    BY <1>1, <1>3, <1>4, <2>2, BecomesAppended
  <2> QED BY <2>2, <2>3
<1>5. CASE UNCHANGED events /\ entity'.dead = entity.dead
  BY <1>5 DEF LifeInGame
<1>6. CASE Published("broadcast", 0) /\ UNCHANGED entity
  <2>1. <<x, "broadcast", x>> \in R
    BY <1>3, NeutralSteps DEF NeutralLife
  <2> QED BY <1>2, <1>4, <1>6, <2>1 DEF LifeInGame
<1>7. ASSUME NEW p, Published("teleported", p), entity'.dead = entity.dead, history'.teleported
      PROVE  Becomes(events', m, LifeInGame', R)
  <2>1. <<x, "teleported", x>> \in R
    BY <1>3, <1>7 DEF LetsTeleport
  <2>2. LifeInGame' = x
    BY <1>2, <1>7 DEF LifeInGame
  <2>3. Becomes(events', m, x, R)
    BY <1>4, <1>7, <2>1
  <2> QED BY <2>2, <2>3
<1>8. CASE entity'.dead /\ IF entity.dead THEN UNCHANGED events ELSE Published("killed", 0)
  <2>1. CASE entity.dead
    BY <1>8, <2>1 DEF LifeInGame
  <2>2. CASE ~entity.dead
    <3>1. x = "up" /\ LifeInGame' = "down"
      BY <1>2, <1>8, <2>2 DEF LifeInGame
    <3>2. <<x, "killed", "down">> \in R
      BY <3>1 DEF LifeRelation, ProperSteps, Changes
    <3> QED BY <1>4, <1>8, <2>2, <3>1, <3>2
  <2> QED BY <2>1, <2>2
<1>9. CASE /\ entity.dead /\ entity' = [at |-> Spawn, dead |-> FALSE]
           /\ Published("respawned", Spawn)
  <2>1. x = "down" /\ LifeInGame' = "up"
    BY <1>2, <1>9 DEF LifeInGame
  <2>2. <<x, "respawned", "up">> \in R
    BY <2>1 DEF LifeRelation, ProperSteps, Changes
  <2> QED BY <1>4, <1>9, <2>1, <2>2
<1> QED BY <1>5, <1>6, <1>7, <1>8, <1>9 DEF Happens

\* A player enters alive and not yet placed.
LEMMA FirstLife ==
  ASSUME EntersPlay, NEW R, LifeRelation(R)
  PROVE  LivesWith(R)'
<1>1. PICK a : a = Plain("PlayLogin")
  OBVIOUS
<1>2. PICK b : b = FirstView
  OBVIOUS
<1>3. PICK d : d = Teleport(SpawnTeleport, Spawn)
  OBVIOUS
<1>4. a.kind = "PlayLogin" /\ b.kind = "View" /\ d.kind = "Teleport"
  BY <1>1, <1>2, <1>3 DEF Plain, Packet, FirstView, View, Teleport
<1>5. PICK s : s = "unplaced"
  OBVIOUS
<1>6. <<s, a.kind, s>> \in R /\ <<s, b.kind, s>> \in R /\ <<s, d.kind, "up">> \in R
  BY <1>4, <1>5, NeutralSteps DEF LifeStates, NeutralLife, LifeRelation, ProperSteps, Changes
<1>7. IsSequence(<<>>) /\ Becomes(<<>>, s, s, R)
  BY NoneFacts, NothingArrives
<1>8. PICK q1 : q1 = Append(<<>>, a)
  OBVIOUS
<1>9. IsSequence(q1) /\ Becomes(q1, s, s, R)
  BY <1>6, <1>7, <1>8, AppendFacts, BecomesAppended
<1>10. PICK q2 : q2 = Append(q1, b)
  OBVIOUS
<1>11. IsSequence(q2) /\ Becomes(q2, s, s, R)
  BY <1>6, <1>9, <1>10, AppendFacts, BecomesAppended
<1>12. Becomes(Append(q2, d), s, "up", R)
  BY <1>6, <1>11, BecomesAppended
<1>13. LifeOf(avatar') = s /\ LifeInGame' = "up" /\ events' = <<>>
  BY <1>5 DEF EntersPlay, Fresh, NewAvatar, LifeOf, LifeInGame
<1>14. Becomes(events', "up", "up", R)
  BY <1>13, NothingArrives
<1>15. Becomes(toClient', LifeOf(avatar'), "up", R)
  BY <1>1, <1>2, <1>3, <1>8, <1>10, <1>12, <1>13 DEF EntersPlay
<1> QED BY <1>13, <1>14, <1>15 DEF LivesWith, LifeStates

\* Every step keeps it, for a relation that lets commands teleport if they have.
LEMMA LifeKept ==
  ASSUME TalkInv, Types, Types', [Next]_vars, Entered', NEW R, LifeRelation(R),
         Entered => LivesWith(R), history'.teleported => LetsTeleport(R)
  PROVE  LivesWith(R)'
<1>1. CASE EntersPlay
  BY <1>1, FirstLife
<1> SUFFICES ASSUME Entered, ~EntersPlay PROVE LivesWith(R)'
  BY <1>1, StepsOfTheEntered
<1>2. IsSequence(toClient) /\ LivesWith(R) /\ conforms
  BY EnteredFacts DEF Entered
<1>3. CASE LoopStep
  <2>1. ViewStep /\ UNCHANGED avatar /\ Happens
    <3>1. Traffic /\ UNCHANGED avatar /\ Happens
      BY <1>2, <1>3, LoopEffect, LoopHappens
    <3> QED BY <3>1 DEF Traffic, Farewell, Entered, InPlay
  <2>2. ASSUME NEW p, p.kind \in NeutralLife, toClient' = toClient \o <<p>>
        PROVE  \E m \in LifeStates : /\ Becomes(toClient', LifeOf(avatar'), m, R)
                                     /\ Becomes(events, m, LifeInGame, R)
    <3>1. toClient' = Append(toClient, p)
      BY <1>2, <2>2, AppendFacts
    <3> QED BY <1>2, <2>1, <2>2, <3>1, LifeSent
  <2>3. PICK m \in LifeStates : /\ Becomes(toClient', LifeOf(avatar'), m, R)
                                /\ Becomes(events, m, LifeInGame, R)
    <3>1. CASE toClient' = toClient
      BY <1>2, <2>1, <3>1 DEF LivesWith
    <3>2. \A p : p.kind \in Neutral => p.kind \in NeutralLife
      BY DEF Neutral, NeutralLife
    <3>3. \A c : Delta(loop, c).kind \in NeutralLife
      BY DEF Delta, View, NeutralLife
    <3> QED BY <2>1, <2>2, <3>1, <3>2, <3>3 DEF ViewStep
  <2>4. Becomes(events', m, LifeInGame', R)
    BY <2>1, <2>3, LifeHappens
  <2> QED BY <2>3, <2>4 DEF LivesWith
<1>4. CASE Command
  <2>1. UNCHANGED <<toClient, avatar>> /\ Executes(history.acts + 1)
    BY <1>4 DEF Command, connVars
  <2>2. Happens
    BY <1>2, <2>1, ExecutionHappens
  <2>3. PICK m \in LifeStates : /\ Becomes(toClient', LifeOf(avatar'), m, R)
                                /\ Becomes(events, m, LifeInGame, R)
    BY <1>2, <2>1 DEF LivesWith
  <2>4. Becomes(events', m, LifeInGame', R)
    BY <2>2, <2>3, LifeHappens
  <2> QED BY <2>3, <2>4 DEF LivesWith
<1>5. CASE ForeignRequest
  <2>1. PICK p : p = Packet("KeepAlive", history'.foreign)
    OBVIOUS
  <2>2. p.kind \in NeutralLife
    BY <2>1 DEF Packet, NeutralLife
  <2>3. UNCHANGED <<avatar, events, entity>> /\ toClient' = Append(toClient, p)
    BY <1>2, <1>5, <2>1, AppendFacts DEF ForeignRequest, Sends
  <2>4. \E m \in LifeStates : /\ Becomes(toClient', LifeOf(avatar'), m, R)
                              /\ Becomes(events, m, LifeInGame, R)
    BY <1>2, <2>2, <2>3, LifeSent
  <2>5. LifeInGame' = LifeInGame
    BY <2>3 DEF LifeInGame
  <2> QED BY <2>3, <2>4, <2>5 DEF LivesWith
<1>6. CASE Dispatch
  BY <1>2, <1>6, LifeDispatched
<1>7. CASE Inhabit /\ (Enters \/ Lives)
  <2>1. toClient # <<>> /\ toClient' = Tail(toClient) /\ UNCHANGED <<entity, events>>
    BY <1>7, InhabitEffect
  <2>2. PICK p : p = toClient[1]
    OBVIOUS
  <2>3. PICK a : a = avatar
    OBVIOUS
  <2>4. PICK m \in LifeStates : /\ Becomes(toClient, LifeOf(a), m, R)
                                /\ Becomes(events, m, LifeInGame, R)
    BY <1>2, <2>3 DEF LivesWith
  <2>5. PICK s : s = LifeOf(a)
    OBVIOUS
  <2>6. PICK y : <<s, p.kind, y>> \in R /\ Becomes(Tail(toClient), y, m, R)
    BY <1>2, <2>1, <2>2, <2>4, <2>5, BecomesRead
  <2>7. <<LifeOf(a), p.kind, y>> \in LifeSteps
    BY <2>5, <2>6 DEF LifeRelation
  <2>8. LifeOf(avatar') = y
    <3>1. CASE Enters
      <4>1. p.kind = "PlayLogin" /\ UNCHANGED avatar
        BY <2>2, <3>1 DEF Enters, Plain, Packet
      <4>2. y = LifeOf(a)
        BY <2>7, <4>1 DEF LifeSteps, ProperSteps, Changes, Unchanged
      <4> QED BY <2>3, <4>1, <4>2
    <3>2. CASE Lives
      <4>1. p.kind \in WorldKinds /\ avatar' = AvatarAfter(a, p)
        BY <2>2, <2>3, <3>2 DEF Lives
      <4>2. a = [f \in AvatarFields |-> a[f]] /\ a.alive \in BOOLEAN /\ a.placed \in BOOLEAN
        BY <2>3 DEF Types, AvatarTypes
      <4> QED BY <2>7, <4>1, <4>2, LifeRead
    <3> QED BY <1>7, <3>1, <3>2
  <2>9. LifeInGame' = LifeInGame
    BY <2>1 DEF LifeInGame
  <2> QED BY <2>1, <2>4, <2>6, <2>8, <2>9 DEF LivesWith
<1>8. ASSUME NEW p, Acts(p) PROVE LivesWith(R)'
  <2>1. UNCHANGED <<toClient, events, entity>> /\ LifeOf(avatar') = LifeOf(avatar)
    BY <1>8 DEF Acts, ActsAlone, AvatarActs, LifeOf
  <2> QED BY <1>2, <2>1 DEF LivesWith, LifeInGame
<1>9. CASE UNCHANGED vars
  BY <1>2, <1>9 DEF vars, connVars, playVars, LivesWith, LifeInGame
<1> QED BY <1>3, <1>4, <1>5, <1>6, <1>7, <1>8, <1>9, StepsOfTheEntered

---------------------------------------------------------------------------
\* Where the loop has the player, which a command may have changed since, and
\* how a step of the loop walks it.
From == IF step = "moving" THEN loop.player ELSE entity.at
Walks ==
  \/ toServer' = toServer /\ From' = From
  \/ toServer # <<>> /\ toServer' = Tail(toServer) /\ From' = WalkedBy(From, toServer[1])
  \/ /\ toServer # <<>> /\ toServer' = Tail(toServer) /\ history'.teleported
     /\ \E p : Published("teleported", p)
  \/ /\ toServer # <<>> /\ toServer' = Tail(toServer) /\ toServer[1].kind = "ClientCommand"
     /\ entity.dead /\ Published("respawned", Spawn) /\ From' = Spawn

\* A step of the loop is such a walk.
LEMMA LoopWalks ==
  ASSUME TalkInv, Types, Boot, Entered, LoopStep, step' # "ended"
  PROVE  Walks
<1>1. LoopTypes(loop) /\ EntityTypes /\ HistoryTypes /\ conforms
  BY DEF Types, Entered
<1>2. ASSUME NEW before, Fails(before) PROVE FALSE
  BY <1>2 DEF Fails, Ends
<1>3. ASSUME NEW l, AfterPacket(l) PROVE step' # "moving"
  BY <1>3 DEF AfterPacket, Goes
<1>4. ASSUME step # "moving", step' # "moving", UNCHANGED entity PROVE From' = From
  BY <1>4 DEF From
<1>5. CASE ReadBootstrap
  <2>1. /\ toServer # <<>> /\ toServer' = Tail(toServer) /\ UNCHANGED entity /\ step = "bootstrap"
        /\ step' # "moving"
    BY <1>2, <1>5 DEF ReadBootstrap, Reads, Consumes, Unaffected, GameRest, LoopStarts, Goes
  <2>2. toServer[1].kind # "Move"
    <3>1. IsSequence(toServer) /\ Preceded(toServer, MovementKinds, {"Accept"})
      BY <2>1, EnteredFacts DEF Boot
    <3> QED BY <2>1, <3>1, PrecededRead DEF MovementKinds
  <2> QED BY <1>4, <2>1, <2>2 DEF Walks, WalkedBy
<1>6. CASE Request
  BY <1>4, <1>6 DEF Request, Goes, Unaffected, GameRest, Walks
<1>7. CASE ReadAnswer \/ ReadTick \/ ReadHarmless \/ ReadChat \/ ReadUnknown
  <2>1. /\ toServer # <<>> /\ toServer' = Tail(toServer) /\ UNCHANGED entity /\ step = "read"
        /\ \E l : AfterPacket(l)
    BY <1>2, <1>7 DEF ReadAnswer, ReadTick, ReadHarmless, ReadChat, ReadUnknown, Gets, Reads,
                         Consumes,
                      Unaffected, GameRest
  <2>2. toServer[1].kind # "Move"
    BY <1>7 DEF ReadAnswer, ReadTick, ReadHarmless, ReadChat, ReadUnknown, Gets, Incoming,
                KnownKinds, DecodedKinds, MovementKinds
  <2> QED BY <1>3, <1>4, <2>1, <2>2 DEF Walks, WalkedBy
<1>8. CASE ReadUndecodable \/ PlayEnds
  BY <1>8 DEF ReadUndecodable, PlayEnds, Fails, Ends
<1>9. CASE ReadCommand
  <2>1. /\ toServer # <<>> /\ toServer' = Tail(toServer) /\ step = "read" /\ AfterPacket(loop)
        /\ toServer[1].kind = "ChatCommand"
        /\ UNCHANGED entity \/ Executes(history.acts)
    BY <1>9 DEF ReadCommand, Gets, Reads, Consumes, Incoming
  <2>2. CASE UNCHANGED entity
    BY <1>3, <1>4, <2>1, <2>2 DEF Walks, WalkedBy
  <2>3. CASE Executes(history.acts)
    <3>1. CASE \E p \in Destinations : TeleportTo(p) /\ history' =
                 [history EXCEPT !.acts = history.acts, !.teleported = TRUE]
      <4>1. history'.teleported
        BY <1>1, <3>1 DEF HistoryTypes, HistoryFields
      <4> QED BY <1>1, <2>1, <3>1, <4>1 DEF TeleportTo, Publishes, Published, Walks
    <3>2. CASE Kill
      <4>1. entity'.at = entity.at
        BY <1>1, <3>2 DEF Kill, EntityTypes
      <4> QED BY <1>3, <2>1, <4>1 DEF From, Walks, WalkedBy
    <3> QED BY <2>3, <3>1, <3>2 DEF Executes
  <2> QED BY <2>1, <2>2, <2>3
<1>10. CASE ReadMovement
  <2>1. PICK l : l = Refreshed(loop)
    OBVIOUS
  <2>2. PICK c \in Int : c = ChunkOf(entity.at)
    BY <1>1, ChunksAreNumbers DEF EntityTypes
  <2>3. PICK here : here = Followed(l, c)
    OBVIOUS
  <2>4. LoopTypes(here) /\ here.player = entity.at
    BY <2>1, <2>2, <2>3, RefreshedTypes, FollowedTypes
  <2>5. /\ toServer # <<>> /\ toServer' = Tail(toServer) /\ step = "read" /\ step' = "moving"
        /\ loop' = Moved(here, Incoming) /\ Incoming.kind \in {"Move", "Turn"}
    BY <1>2, <1>10, <2>1, <2>2, <2>3
       DEF ReadMovement, Reads, Consumes, Goes, MovementKinds
  <2>6. loop'.player = WalkedBy(entity.at, toServer[1])
    BY <2>4, <2>5 DEF Moved, WalkedBy, Incoming, LoopTypes, IsLoop, LoopFields
  <2> QED BY <2>5, <2>6 DEF Walks, From
<1>11. CASE Synchronize
  <2>1. /\ step = "moving" /\ entity' = [entity EXCEPT !.at = loop.player] /\ toServer' = toServer
        /\ \E l : AfterPacket(l)
    BY <1>11 DEF Synchronize, Synchronized
  <2>2. entity'.at = loop.player
    BY <1>1, <2>1 DEF EntityTypes
  <2> QED BY <1>3, <2>1, <2>2 DEF Walks, From
<1>12. CASE ReadRespawn
  <2>1. /\ toServer # <<>> /\ toServer' = Tail(toServer) /\ step = "read" /\ \E l : AfterPacket(l)
        /\ toServer[1].kind = "ClientCommand"
        /\ Respawns \/ UNCHANGED entity
    BY <1>12 DEF ReadRespawn, Gets, Reads, Consumes, Incoming
  <2>2. CASE UNCHANGED entity
    BY <1>3, <1>4, <2>1, <2>2 DEF Walks, WalkedBy
  <2>3. CASE Respawns
    BY <1>1, <1>3, <2>1, <2>3 DEF Respawns, Publishes, Published, Walks, From
  <2> QED BY <2>1, <2>2, <2>3
<1> QED BY <1>5, <1>6, <1>7, <1>8, <1>9, <1>10, <1>11, <1>12 DEF LoopStep

---------------------------------------------------------------------------
\* Unless a teleport is on its way, the walk on its way leads from where the
\* loop has the player to where the client shows it.
Places2 == {"teleported", "respawned"}
NotPending == ~Has(toClient, {"Teleport"}) /\ ~Has(events, Places2)
Walked == Entered /\ NotPending => Lands(toServer, From, avatar.at)

\* What was pending is still, if more is sent or published.
LEMMA StillPending ==
  ASSUME NEW q, IsSequence(q), NEW p, NEW K
  PROVE  Has(q, K) => Has(Append(q, p), K)
BY HasAppended

\* A step of the loop keeps that.
LEMMA LoopIsWalked ==
  ASSUME TalkInv, Types, Boot, Walked, Entered, LoopStep, step' # "ended", NotPending'
  PROVE  Lands(toServer', From', avatar'.at)
<1>1. /\ IsSequence(toServer) /\ IsSequence(toClient) /\ IsSequence(events) /\ conforms
  BY EnteredFacts DEF Entered, IsSequence
<1>2. Traffic /\ UNCHANGED avatar /\ Happens
  BY <1>1, LoopEffect, LoopHappens
<1>3. ViewStep
  BY <1>2 DEF Traffic, Farewell
<1>4. ~Has(toClient, {"Teleport"})
  <2>1. toClient' = toClient \/ \E p : toClient' = toClient \o <<p>>
    BY <1>3 DEF ViewStep
  <2>2. toClient' = toClient \/ \E p : toClient' = Append(toClient, p)
    BY <1>1, <2>1, AppendFacts
  <2> QED BY <1>1, <2>2, StillPending DEF NotPending
<1>5. ~Has(events, Places2)
  <2>1. events' = events \/ \E e : events' = Append(events, e)
    BY <1>2 DEF Happens, Published
  <2> QED BY <1>1, <2>1, StillPending DEF NotPending
<1>6. Lands(toServer, From, avatar.at)
  BY <1>4, <1>5 DEF Walked, NotPending
<1>7. ASSUME NEW kind \in Places2, NEW at, Published(kind, at) PROVE FALSE
  <2>1. PICK e : e = [kind |-> kind, at |-> at]
    OBVIOUS
  <2>2. e.kind \in Places2 /\ events' = Append(events, e)
    BY <1>7, <2>1 DEF Published
  <2>3. Has(Append(events, e), Places2)
    BY <1>1, <2>2, HasAppended
  <2> QED BY <2>2, <2>3 DEF NotPending
<1>8. PICK f : f = From
  OBVIOUS
<1>9. PICK x : x = avatar.at
  OBVIOUS
<1>10. CASE toServer' = toServer /\ From' = From
  BY <1>2, <1>6, <1>10
<1>11. CASE toServer # <<>> /\ toServer' = Tail(toServer) /\ From' = WalkedBy(From, toServer[1])
  <2>1. Lands(Tail(toServer), WalkedBy(f, toServer[1]), x)
    BY <1>1, <1>6, <1>8, <1>9, <1>11, LandsRead
  <2> QED BY <1>2, <1>8, <1>9, <1>11, <2>1
<1>12. Walks
  BY LoopWalks
<1> QED BY <1>7, <1>10, <1>11, <1>12 DEF Walks, Places2

\* So does a packet that the client reads,
LEMMA InhabitIsWalked ==
  ASSUME TalkInv, Types, Walked, Entered, Inhabit, Enters \/ Lives, NotPending'
  PROVE  Lands(toServer', From', avatar'.at)
<1>1. /\ toClient # <<>> /\ toClient' = Tail(toClient) /\ UNCHANGED <<step, loop, entity, events>>
  BY InhabitEffect
<1>2. IsSequence(toServer) /\ IsSequence(toClient)
  BY EnteredFacts
<1>3. PICK p : p = toClient[1]
  OBVIOUS
<1>4. PICK f : f = From
  OBVIOUS
<1>5. From' = f
  BY <1>1, <1>4 DEF From
<1>6. PICK q : q = toServer
  OBVIOUS
<1>7. PICK a : a = avatar
  OBVIOUS
<1>8. ASSUME p.kind # "Teleport" PROVE Lands(q, f, a.at)
  <2>1. ~Has(toClient, {"Teleport"})
    BY <1>1, <1>2, <1>3, <1>8, HasRead DEF NotPending
  <2> QED BY <1>1, <1>4, <1>6, <1>7, <2>1 DEF Walked, NotPending
<1>9. CASE Enters
  <2>1. p.kind = "PlayLogin" /\ UNCHANGED <<toServer, avatar>>
    BY <1>3, <1>9 DEF Enters, Plain, Packet
  <2> QED BY <1>5, <1>6, <1>7, <1>8, <2>1
<1>10. CASE Lives
  <2>1. /\ p.kind \in WorldKinds /\ avatar' = AvatarAfter(a, p) /\ toServer' = q \o AnswersTo(p)
    BY <1>3, <1>6, <1>7, <1>10 DEF Lives
  <2>2. a = [g \in AvatarFields |-> a[g]]
    BY <1>7 DEF Types, AvatarTypes
  <2>3. AvatarAfter(a, p).at = (IF p.kind = "Teleport" THEN p.to ELSE a.at)
    BY <2>1, <2>2, AvatarFacts, Zenon
  <2>4. avatar'.at = (IF p.kind = "Teleport" THEN p.to ELSE a.at)
    BY <2>1, <2>3
  <2>5. CASE p.kind = "Teleport"
    <3>1. q \o AnswersTo(p) = Append(Append(q, Packet("Accept", p.n)), Packet("Move", p.to))
      BY <1>2, <1>6, <2>1, <2>5, AnswersFacts
    <3>2. PICK r : r = Append(q, Packet("Accept", p.n))
      OBVIOUS
    <3>3. PICK m : m = Packet("Move", p.to)
      OBVIOUS
    <3>4. IsSequence(r) /\ m.kind = "Move" /\ m.n = p.to
      BY <1>2, <1>6, <3>2, <3>3, AppendFacts DEF Packet
    <3>5. Lands(Append(r, m), f, m.n)
      BY <3>4, LandsAppended
    <3> QED BY <1>5, <2>1, <2>4, <2>5, <3>1, <3>2, <3>3, <3>4, <3>5
  <2>6. ASSUME NEW r, r.kind # "Move", p.kind # "Teleport", toServer' = Append(q, r)
        PROVE  Lands(toServer', From', avatar'.at)
    <3>1. Lands(Append(q, r), f, a.at)
      BY <1>2, <1>6, <1>8, <2>6, LandsAppended
    <3> QED BY <1>5, <2>4, <2>6, <3>1
  <2>7. CASE p.kind = "View"
    <3>1. toServer' = Append(q, Packet("ChunkBatch", 1))
      BY <1>2, <1>6, <2>1, <2>7, AnswersFacts
    <3> QED BY <2>6, <2>7, <3>1 DEF Packet
  <2>8. CASE p.kind = "KeepAlive"
    <3>1. toServer' = Append(q, Packet("KeepAlive", p.n))
      BY <1>2, <1>6, <2>1, <2>8, AnswersFacts
    <3> QED BY <2>6, <2>8, <3>1 DEF Packet
  <2>9. CASE p.kind \in {"SystemChat", "Died", "Respawned"}
    <3>1. toServer' = q
      BY <1>2, <1>6, <2>1, <2>9, AnswersFacts
    <3> QED BY <1>5, <1>8, <2>4, <2>9, <3>1
  <2> QED BY <2>1, <2>5, <2>7, <2>8, <2>9 DEF WorldKinds
<1> QED BY <1>9, <1>10

\* and every other step.
LEMMA WalkedKept ==
  ASSUME TalkInv, Types, Types', Boot, Walked, [Next]_vars
  PROVE  Walked'
<1> SUFFICES ASSUME Entered', NotPending' PROVE Lands(toServer', From', avatar'.at)
  BY DEF Walked
<1>1. ~EntersPlay
  <2>1. SUFFICES ASSUME EntersPlay PROVE FALSE
    OBVIOUS
  <2>2. PICK q : q = Append(Append(<<>>, Plain("PlayLogin")), FirstView)
    OBVIOUS
  <2>3. PICK r : r = Append(<<>>, Plain("PlayLogin"))
    OBVIOUS
  <2>4. IsSequence(r)
    BY <2>3, NoneFacts, AppendFacts
  <2>5. IsSequence(q)
    BY <2>2, <2>3, <2>4, AppendFacts
  <2>6. PICK d : d = Teleport(SpawnTeleport, Spawn)
    OBVIOUS
  <2>7. d.kind \in {"Teleport"}
    BY <2>6 DEF Teleport
  <2>8. Has(Append(q, d), {"Teleport"})
    BY <2>5, <2>7, HasAppended
  <2> QED BY <2>1, <2>2, <2>6, <2>8 DEF EntersPlay, NotPending
<1> SUFFICES ASSUME Entered PROVE Lands(toServer', From', avatar'.at)
  BY <1>1, StepsOfTheEntered
<1>2. /\ IsSequence(toServer) /\ IsSequence(toClient) /\ IsSequence(events) /\ conforms
      /\ events \in Seq(EventTypes)
  BY EnteredFacts DEF Entered, IsSequence
<1>3. ASSUME UNCHANGED <<toServer, step, loop, entity, avatar>>, NotPending
      PROVE  Lands(toServer', From', avatar'.at)
  BY <1>3 DEF Walked, From
<1>4. CASE LoopStep
  BY <1>4, LoopIsWalked DEF Entered, InPlay
<1>5. CASE Command
  <2>1. UNCHANGED <<toServer, toClient, step, loop, avatar>> /\ Executes(history.acts + 1)
    BY <1>5 DEF Command, connVars
  <2>2. EntityTypes
    BY DEF Types
  <2>3. ASSUME NEW at, Published("teleported", at) PROVE FALSE
    <3>1. PICK e : e = [kind |-> "teleported", at |-> at]
      OBVIOUS
    <3>2. e.kind \in Places2 /\ events' = Append(events, e)
      BY <2>3, <3>1 DEF Published, Places2
    <3>3. Has(Append(events, e), Places2)
      BY <1>2, <3>2, HasAppended
    <3> QED BY <3>2, <3>3 DEF NotPending
  <2>4. Kill
    BY <1>2, <2>1, <2>3 DEF Executes, TeleportTo, Publishes, Published
  <2>5. entity'.at = entity.at /\ (events' = events \/ \E e : events' = Append(events, e))
    BY <1>2, <2>2, <2>4 DEF Kill, EntityTypes, Publishes
  <2>6. ~Has(events, Places2)
    BY <1>2, <2>5, StillPending DEF NotPending
  <2>7. Lands(toServer, From, avatar.at)
    BY <2>1, <2>6 DEF Walked, NotPending
  <2> QED BY <2>1, <2>5, <2>7 DEF From
<1>6. CASE ForeignRequest
  <2>1. /\ toClient' = Append(toClient, Packet("KeepAlive", history'.foreign))
        /\ UNCHANGED <<toServer, step, loop, entity, avatar, events>>
    BY <1>2, <1>6, AppendFacts DEF ForeignRequest, Sends
  <2>2. NotPending
    BY <1>2, <2>1, StillPending DEF NotPending
  <2> QED BY <1>3, <2>1, <2>2
<1>7. CASE Dispatch
  <2>1. /\ UNCHANGED <<toServer, step, loop, entity, avatar>>
        /\ events # <<>> /\ events' = Tail(events)
        /\ \/ /\ events[1].kind = "teleported"
              /\ toClient' = Append(toClient, Teleport(TeleportId, events[1].at))
           \/ /\ events[1].kind = "killed" /\ toClient' = Append(toClient, Plain("Died"))
           \/ /\ events[1].kind = "broadcast" /\ toClient' = Append(toClient, Plain("SystemChat"))
           \/ /\ events[1].kind = "respawned"
              /\ toClient' = Append(Append(toClient, Plain("Respawned")),
                                    Teleport(TeleportId, events[1].at))
    BY <1>2, <1>7, DispatchEffect
  <2>2. PICK t : t = Teleport(TeleportId, events[1].at)
    OBVIOUS
  <2>3. t.kind \in {"Teleport"}
    BY <2>2 DEF Teleport
  <2>4. ASSUME NEW q, IsSequence(q), toClient' = Append(q, t) PROVE FALSE
    <3>1. Has(Append(q, t), {"Teleport"})
      BY <2>3, <2>4, HasAppended
    <3> QED BY <2>4, <3>1 DEF NotPending
  <2>5. toClient' # Append(toClient, t)
    BY <1>2, <2>4
  <2>6. toClient' # Append(Append(toClient, Plain("Respawned")), t)
    <3>1. PICK q : q = Append(toClient, Plain("Respawned"))
      OBVIOUS
    <3>2. IsSequence(q)
      BY <1>2, <3>1, AppendFacts
    <3> QED BY <2>4, <3>1, <3>2
  <2>7. events[1].kind \in {"killed", "broadcast"} /\ \E p : toClient' = Append(toClient, p)
    BY <2>1, <2>2, <2>5, <2>6
  <2>8. ~Has(toClient, {"Teleport"})
    BY <1>2, <2>7, StillPending DEF NotPending
  <2>9. ~Has(events, Places2)
    BY <1>2, <2>1, <2>7, HasRead DEF NotPending, Places2
  <2> QED BY <1>3, <2>1, <2>8, <2>9 DEF NotPending
<1>8. CASE Inhabit /\ (Enters \/ Lives)
  BY <1>8, InhabitIsWalked
<1>9. ASSUME NEW p, Acts(p) PROVE Lands(toServer', From', avatar'.at)
  <2>1. /\ UNCHANGED <<toClient, events, step, loop, entity>> /\ toServer' = Append(toServer, p)
        /\ \/ p.kind = "Move" /\ avatar'.at = p.n
           \/ p.kind # "Move" /\ avatar'.at = avatar.at
    BY <1>9 DEF Acts, ActsAlone, AvatarActs
  <2>2. NotPending /\ From' = From
    BY <2>1 DEF NotPending, From
  <2>3. Lands(toServer, From, avatar.at)
    BY <2>2 DEF Walked
  <2>4. PICK f : f = From
    OBVIOUS
  <2>5. PICK x : x = avatar.at
    OBVIOUS
  <2>6. p.kind = "Move" => Lands(Append(toServer, p), f, p.n)
    BY <1>2, LandsAppended
  <2>7. p.kind # "Move" => Lands(Append(toServer, p), f, x)
    BY <1>2, <2>3, <2>4, <2>5, LandsAppended
  <2> QED BY <2>1, <2>2, <2>4, <2>5, <2>6, <2>7
<1>10. CASE UNCHANGED vars
  <2>1. UNCHANGED <<toServer, toClient, step, loop, entity, avatar, events>>
    BY <1>10 DEF vars, connVars, playVars
  <2>2. NotPending
    BY <2>1 DEF NotPending
  <2> QED BY <1>3, <2>1, <2>2
<1> QED BY <1>1, <1>4, <1>5, <1>6, <1>7, <1>8, <1>9, <1>10, StepsOfTheEntered

---------------------------------------------------------------------------
LifeIsShown == Entered => LivesWith(LifeSteps)
PlaceInv == TalkInv /\ Types /\ ViewArrives /\ Centered /\ Boot /\ Walked /\ LifeIsShown

\* Before the connection is in Play, nothing is claimed.
LEMMA InitPlace ==
  ASSUME Init
  PROVE  PlaceInv
<1>1. ~Entered
  BY DEF Init, ConnInit, Entered, InPlay
<1> QED BY <1>1, InitTalk DEF PlaceInv, ViewArrives, Centered, Boot, Walked, LifeIsShown

\* Every step keeps the invariant.
LEMMA NextPlace ==
  ASSUME PlaceInv, [Next]_vars
  PROVE  PlaceInv'
<1>1. TalkInv /\ Types /\ ViewArrives /\ Centered /\ Boot /\ Walked /\ LifeIsShown
  BY DEF PlaceInv
<1>2. TalkInv' /\ Types'
  BY <1>1, NextTalk
<1>3. ViewArrives' /\ Centered' /\ Boot' /\ Walked'
  BY <1>1, <1>2, ViewArrivesKept, CenteredKept, BootKept, WalkedKept
<1>4. LifeIsShown'
  <2>1. LifeRelation(LifeSteps) /\ LetsTeleport(LifeSteps)
    BY LifeRelations
  <2>2. PICK R : R = LifeSteps
    OBVIOUS
  <2>3. LifeRelation(R) /\ LetsTeleport(R) /\ (Entered => LivesWith(R))
    BY <1>1, <2>1, <2>2 DEF LifeIsShown
  <2>4. Entered' => LivesWith(LifeSteps)'
    BY <1>1, <1>2, <2>1, LifeKept DEF LifeIsShown
  <2> QED BY <2>4 DEF LifeIsShown
<1> QED BY <1>2, <1>3, <1>4 DEF PlaceInv

\* Nothing on its way has changed nothing.
LEMMA NothingChanges ==
  ASSUME NEW s, NEW x, NEW R
  PROVE  /\ Becomes(<<>>, s, x, R) => s = x
         /\ Lands(<<>>, s, x) => s = x
<1>1. Becomes(<<>>, s, x, R) => s = x
  BY NoneFacts DEF Becomes
<1>2. Lands(<<>>, s, x) => s = x
  BY NoneFacts DEF Lands
<1> QED BY <1>1, <1>2

\* It implies the property.
LEMMA PlaceIsShown ==
  ASSUME PlaceInv
  PROVE  ClientShowsItsPlace
<1>1. TalkInv /\ Types /\ ViewArrives /\ Centered /\ Walked /\ LifeIsShown
  BY DEF PlaceInv
<1>2. ASSUME InWorld, InPlay
      PROVE  /\ Entered
             /\ Arriving(avatar.view, toClient) = [center |-> loop.center, chunks |-> loop.loaded]
             /\ step \in {"request", "read"} => loop.center = ChunkOf(loop.player)
  <2>1. Entered
    BY <1>2 DEF InWorld, Entered
  <2>2. Arrives(toClient, avatar.view, LoopsView) /\ Len(toClient) \in Nat
    BY <1>1, <2>1, AppendFacts DEF ViewArrives, Types
  <2>3. PICK v : v = avatar.view
    OBVIOUS
  <2>4. PICK x : x = LoopsView
    OBVIOUS
  <2>5. Arriving(v, toClient) = x
    BY <2>2, <2>3, <2>4, ArrivingIsTheLast
  <2> QED BY <1>1, <2>1, <2>3, <2>4, <2>5 DEF Centered, LoopsView
<1>3. ASSUME InWorld, step \in {"request", "read"}, avatar.alive,
             toServer = <<>>, toClient = <<>>, events = <<>>
      PROVE  entity = [at |-> avatar.at, dead |-> FALSE]
  <2>1. Entered
    BY <1>2, <1>3 DEF InPlay
  <2>2. NotPending
    BY <1>3, HasNothing DEF NotPending
  <2>3. entity.at = avatar.at
    <3>1. Lands(<<>>, From, avatar.at) /\ From = entity.at
      BY <1>1, <1>3, <2>1, <2>2 DEF Walked, From
    <3> QED BY <3>1, NothingChanges
  <2>4. LifeOf(avatar) = LifeInGame
    <3>1. PICK m : /\ Becomes(<<>>, LifeOf(avatar), m, LifeSteps)
                   /\ Becomes(<<>>, m, LifeInGame, LifeSteps)
      BY <1>1, <1>3, <2>1 DEF LifeIsShown, LivesWith
    <3>2. PICK s, x : s = LifeOf(avatar) /\ x = LifeInGame
      OBVIOUS
    <3>3. Becomes(<<>>, s, m, LifeSteps) /\ Becomes(<<>>, m, x, LifeSteps)
      BY <3>1, <3>2
    <3>4. s = m /\ m = x
      BY <3>3, NothingChanges
    <3> QED BY <3>2, <3>4
  <2>5. ~entity.dead
    BY <1>3, <2>4 DEF LifeOf, LifeInGame
  <2>6. entity \in [at : Positions, dead : BOOLEAN]
    BY <1>1 DEF Types, EntityTypes
  <2> QED BY <2>3, <2>5, <2>6
<1> QED BY <1>2, <1>3 DEF ClientShowsItsPlace

\* The client shows the view and the place that the loop and the game state
\* have for it, once what is on its way has come: through the bootstrap,
\* walking, rotation, teleports, death and respawns (ReadBootstrap, the loop's
\* recentering, GameplaySync and replication's dispatch).
THEOREM ClientIsShownItsPlace == Spec => []ClientShowsItsPlace
<1>1. Init => PlaceInv
  BY InitPlace
<1>2. PlaceInv /\ [Next]_vars => PlaceInv'
  BY NextPlace
<1>3. PlaceInv => ClientShowsItsPlace
  BY PlaceIsShown
<1> QED BY <1>1, <1>2, <1>3, PTL DEF Spec

---------------------------------------------------------------------------
(* A client that follows the protocol is never ended with an error.        *)

---------------------------------------------------------------------------
\* At most one packet of some kinds is on its way.
Alone(q, K) == \A i, j \in 1 .. Len(q) : q[i].kind \in K /\ q[j].kind \in K => i = j

\* One more packet, if it is of another kind or the only one.
LEMMA AloneAppended ==
  ASSUME NEW q, IsSequence(q), NEW p, NEW K, Alone(q, K), p.kind \notin K \/ ~Has(q, K)
  PROVE  Alone(Append(q, p), K)
<1>1. /\ Len(q) \in Nat /\ Len(Append(q, p)) = Len(q) + 1
      /\ \A i \in 1 .. Len(q) : Append(q, p)[i] = q[i]
      /\ Append(q, p)[Len(q) + 1] = p
  BY AppendFacts
<1>2. PICK n \in Nat : n = Len(q)
  BY <1>1
<1>3. PICK r : r = Append(q, p)
  OBVIOUS
<1>4. Len(r) = n + 1 /\ r[n + 1] = p /\ \A i \in 1 .. n : r[i] = q[i]
  BY <1>1, <1>2, <1>3
<1>5. ASSUME NEW i \in 1 .. (n + 1), NEW j \in 1 .. (n + 1), r[i].kind \in K, r[j].kind \in K
      PROVE  i = j
  <2>1. CASE i \in 1 .. n /\ j \in 1 .. n
    BY <1>2, <1>4, <1>5, <2>1 DEF Alone
  <2>2. CASE i = n + 1 /\ j \in 1 .. n
    BY <1>2, <1>4, <1>5, <2>2 DEF Has
  <2>3. CASE i \in 1 .. n /\ j = n + 1
    BY <1>2, <1>4, <1>5, <2>3 DEF Has
  <2> QED BY <2>1, <2>2, <2>3
<1> QED BY <1>3, <1>4, <1>5 DEF Alone

\* The first packet, once read, was the only one.
LEMMA AloneRead ==
  ASSUME NEW q, IsSequence(q), q # <<>>, NEW K, Alone(q, K)
  PROVE  Alone(Tail(q), K) /\ (q[1].kind \in K => ~Has(Tail(q), K))
<1>1. /\ Len(q) \in Nat /\ Len(q) >= 1 /\ Len(Tail(q)) = Len(q) - 1
      /\ \A i \in 1 .. (Len(q) - 1) : Tail(q)[i] = q[i + 1]
  BY TailFacts
<1>2. PICK n \in Nat : n = Len(Tail(q)) /\ Len(q) = n + 1
  BY TailFacts
<1>3. PICK r : r = Tail(q)
  OBVIOUS
<1>4. Len(r) = n /\ Len(q) = n + 1 /\ \A i \in 1 .. n : r[i] = q[i + 1]
  BY <1>1, <1>2, <1>3
<1>5. ASSUME NEW i \in 1 .. n, NEW j \in 1 .. n, r[i].kind \in K, r[j].kind \in K
      PROVE  i = j
  <2>1. i + 1 \in 1 .. (n + 1) /\ j + 1 \in 1 .. (n + 1)
    OBVIOUS
  <2>2. i + 1 = j + 1
    BY <1>4, <1>5, <2>1 DEF Alone
  <2> QED BY <2>2
<1>6. ASSUME q[1].kind \in K, NEW i \in 1 .. n PROVE r[i].kind \notin K
  <2>1. i + 1 \in 1 .. (n + 1) /\ 1 \in 1 .. (n + 1) /\ i + 1 # 1
    OBVIOUS
  <2> QED BY <1>4, <1>6, <2>1 DEF Alone
<1> QED BY <1>3, <1>4, <1>5, <1>6 DEF Alone, Has

---------------------------------------------------------------------------
\* No packet of the kinds L is behind one of the kinds K.
NoneAfter(q, K, L) ==
  \A i, j \in 1 .. Len(q) : i < j /\ q[i].kind \in K => q[j].kind \notin L

\* One more packet, if it is of other kinds or there is none to be behind.
LEMMA NoneAfterAppended ==
  ASSUME NEW q, IsSequence(q), NEW p, NEW K, NEW L, NoneAfter(q, K, L),
         p.kind \notin L \/ ~Has(q, K)
  PROVE  NoneAfter(Append(q, p), K, L)
<1>1. /\ Len(q) \in Nat /\ Len(Append(q, p)) = Len(q) + 1
      /\ \A i \in 1 .. Len(q) : Append(q, p)[i] = q[i]
      /\ Append(q, p)[Len(q) + 1] = p
  BY AppendFacts
<1>2. PICK n \in Nat : n = Len(q)
  BY <1>1
<1>3. PICK r : r = Append(q, p)
  OBVIOUS
<1>4. Len(r) = n + 1 /\ r[n + 1] = p /\ \A i \in 1 .. n : r[i] = q[i]
  BY <1>1, <1>2, <1>3
<1>5. ASSUME NEW i \in 1 .. (n + 1), NEW j \in 1 .. (n + 1), i < j, r[i].kind \in K
      PROVE  r[j].kind \notin L
  <2>0. i \in 1 .. n
    BY <1>5
  <2>1. CASE j \in 1 .. n
    BY <1>2, <1>4, <1>5, <2>0, <2>1 DEF NoneAfter
  <2>2. CASE j = n + 1
    BY <1>2, <1>4, <1>5, <2>0, <2>2 DEF Has
  <2> QED BY <2>1, <2>2
<1> QED BY <1>3, <1>4, <1>5 DEF NoneAfter

\* What is left after the first packet.
LEMMA NoneAfterRead ==
  ASSUME NEW q, IsSequence(q), q # <<>>, NEW K, NEW L, NoneAfter(q, K, L)
  PROVE  NoneAfter(Tail(q), K, L) /\ (q[1].kind \in K => ~Has(Tail(q), L))
<1>1. /\ Len(q) \in Nat /\ Len(q) >= 1 /\ Len(Tail(q)) = Len(q) - 1
      /\ \A i \in 1 .. (Len(q) - 1) : Tail(q)[i] = q[i + 1]
  BY TailFacts
<1>2. PICK n \in Nat : n = Len(Tail(q)) /\ Len(q) = n + 1
  BY TailFacts
<1>3. PICK r : r = Tail(q)
  OBVIOUS
<1>4. Len(r) = n /\ Len(q) = n + 1 /\ \A i \in 1 .. n : r[i] = q[i + 1]
  BY <1>1, <1>2, <1>3
<1>5. ASSUME NEW i \in 1 .. n, NEW j \in 1 .. n, i < j, r[i].kind \in K
      PROVE  r[j].kind \notin L
  <2>1. i + 1 \in 1 .. (n + 1) /\ j + 1 \in 1 .. (n + 1) /\ i + 1 < j + 1
    BY <1>5
  <2> QED BY <1>4, <1>5, <2>1 DEF NoneAfter
<1>6. ASSUME q[1].kind \in K, NEW i \in 1 .. n PROVE r[i].kind \notin L
  <2>1. i + 1 \in 1 .. (n + 1) /\ 1 \in 1 .. (n + 1) /\ 1 < i + 1
    OBVIOUS
  <2> QED BY <1>4, <1>6, <2>1 DEF NoneAfter
<1> QED BY <1>3, <1>4, <1>5, <1>6 DEF NoneAfter, Has

---------------------------------------------------------------------------
\* Every packet of some kinds has the value v in the field f.
Carries(q, K, f, v) == \A i \in 1 .. Len(q) : q[i].kind \in K => q[i][f] = v

\* One more packet that has, or is of other kinds.
LEMMA CarriesAppended ==
  ASSUME NEW q, IsSequence(q), NEW p, NEW K, NEW f, NEW v, Carries(q, K, f, v),
         p.kind \in K => p[f] = v
  PROVE  Carries(Append(q, p), K, f, v)
<1>1. /\ Len(q) \in Nat /\ Len(Append(q, p)) = Len(q) + 1
      /\ \A i \in 1 .. Len(q) : Append(q, p)[i] = q[i]
      /\ Append(q, p)[Len(q) + 1] = p
  BY AppendFacts
<1>2. ASSUME NEW i \in 1 .. (Len(q) + 1), Append(q, p)[i].kind \in K
      PROVE  Append(q, p)[i][f] = v
  <2>1. CASE i = Len(q) + 1
    BY <1>1, <1>2, <2>1
  <2>2. CASE i # Len(q) + 1
    BY <1>1, <1>2, <2>2 DEF Carries
  <2> QED BY <2>1, <2>2
<1> QED BY <1>1, <1>2 DEF Carries

\* The first packet, and those left; and where there is none of the kinds.
LEMMA CarriesRead ==
  ASSUME NEW q, IsSequence(q), q # <<>>, NEW K, NEW f, NEW v, Carries(q, K, f, v)
  PROVE  Carries(Tail(q), K, f, v) /\ (q[1].kind \in K => q[1][f] = v)
<1>1. /\ Len(q) \in Nat /\ Len(q) >= 1 /\ Len(Tail(q)) = Len(q) - 1
      /\ \A i \in 1 .. (Len(q) - 1) : Tail(q)[i] = q[i + 1]
  BY TailFacts
<1>2. 1 \in 1 .. Len(q) /\ \A i \in 1 .. (Len(q) - 1) : i + 1 \in 1 .. Len(q)
  BY <1>1
<1> QED BY <1>1, <1>2 DEF Carries

\* Where there is none, anything holds of all.
LEMMA NoneIsAlone ==
  ASSUME NEW q, NEW K, ~Has(q, K)
  PROVE  /\ Alone(q, K) /\ \A f, v : Carries(q, K, f, v)
         /\ \A L : NoneAfter(q, K, L) /\ NoneAfter(q, L, K)
BY DEF Has, Alone, Carries, NoneAfter

---------------------------------------------------------------------------
\* A conforming client that no command has teleported and that the
\* authoritative runtime has not asked for signs of life, while the loop runs.
Honest == Entered /\ ~history.teleported /\ history.foreign = 0

\* A command that kills the player, from outside.
Kills ==
  /\ entity'.dead /\ entity'.at = entity.at
  /\ IF entity.dead THEN UNCHANGED events ELSE Published("killed", 0)
KilledFromOutside ==
  /\ UNCHANGED <<conforms, step, session, client, toServer, toClient, loop, avatar>>
  /\ history'.acts = history.acts + 1 /\ history'.acts <= MaxActs /\ Kills

\* The loop counts no acts, and does not forget that it has teleported.
LEMMA LoopsHistory ==
  ASSUME Types, LoopStep
  PROVE  /\ history'.acts = history.acts /\ history'.foreign = history.foreign
         /\ history.teleported => history'.teleported
<1>1. HistoryTypes
  BY DEF Types
<1>2. CASE UNCHANGED history
  BY <1>2
<1>3. CASE ReadCommand
  BY <1>1, <1>3 DEF ReadCommand, Executes, HistoryTypes, HistoryFields
<1> QED BY <1>2, <1>3
        DEF LoopStep, ReadBootstrap, Request, ReadAnswer, ReadTick, ReadUndecodable, ReadHarmless,
            ReadChat, ReadUnknown, ReadMovement, Synchronize, ReadRespawn, PlayEnds, Unaffected,
            GameRest, PlayersSide

\* The steps after which it is still there.
LEMMA StepsOfTheHonest ==
  ASSUME TalkInv, Types, Types', [Next]_vars, Honest'
  PROVE  \/ EntersPlay
         \/ /\ Honest
            /\ \/ LoopStep \/ KilledFromOutside \/ Dispatch
               \/ Inhabit /\ (Enters \/ Lives)
               \/ \E p : Acts(p)
               \/ UNCHANGED vars
<1>1. Entered' /\ ~history'.teleported /\ history'.foreign = 0
  BY DEF Honest
<1>2. HistoryTypes /\ history.foreign \in Nat
  BY DEF Types, HistoryTypes
<1>3. ASSUME Entered, LoopStep PROVE Honest
  BY <1>1, <1>3, LoopsHistory DEF Honest
<1>4. ASSUME Entered, UNCHANGED history PROVE Honest
  BY <1>1, <1>4 DEF Honest
<1>5. ASSUME Entered, Command PROVE Honest /\ KilledFromOutside
  <2>1. /\ UNCHANGED <<conforms, step, session, client, toServer, toClient, loop, avatar>>
        /\ Executes(history.acts + 1) /\ history.acts < MaxActs /\ conforms
    BY <1>5 DEF Command, MayAct, connVars
  <2>2. Kill /\ history' = [history EXCEPT !.acts = history.acts + 1]
    BY <1>1, <1>2, <2>1 DEF Executes, HistoryTypes, HistoryFields
  <2>3. /\ history'.acts = history.acts + 1 /\ history'.foreign = history.foreign
        /\ history'.teleported = history.teleported
    BY <1>2, <2>2 DEF HistoryTypes, HistoryFields
  <2>4. history'.acts <= MaxActs
    BY <1>2, <2>1, <2>3, PlayLoopAssumption DEF HistoryTypes
  <2>5. Kills
    BY <2>1, <2>2 DEF Types, EntityTypes, Kill, Publishes, Kills, Published
  <2> QED BY <1>1, <1>5, <2>1, <2>3, <2>4, <2>5 DEF Honest, KilledFromOutside
<1>6. ASSUME ForeignRequest PROVE FALSE
  <2>1. history' = [history EXCEPT !.acts = @ + 1, !.foreign = @ + 1]
    BY <1>6 DEF ForeignRequest
  <2>2. history'.foreign = history.foreign + 1
    BY <1>2, <2>1 DEF HistoryTypes, HistoryFields
  <2> QED BY <1>1, <1>2, <2>2
<1>7. ASSUME Entered, Dispatch PROVE Honest
  BY <1>4, <1>7 DEF Dispatch
<1>8. ASSUME Entered, Inhabit PROVE Honest
  BY <1>4, <1>8 DEF Inhabit
<1>9. ASSUME Entered, NEW p, Acts(p) PROVE Honest
  BY <1>1, <1>9 DEF Acts, HistoryActs, Honest
<1>10. ASSUME Entered, UNCHANGED vars PROVE Honest
  BY <1>4, <1>10 DEF vars, playVars
<1> QED BY <1>1, <1>3, <1>5, <1>6, <1>7, <1>8, <1>9, <1>10, StepsOfTheEntered

---------------------------------------------------------------------------
\* What the steps of the loop do to the queues, the session and the numbers of
\* its requests and of the packets it has ignored.
TakesFirst == toServer # <<>> /\ toServer' = Tail(toServer)
SendsOne(K) == \E p : p.kind \in K /\ toClient' = Append(toClient, p)
Boots ==
  /\ step = "bootstrap" /\ step' = "bootstrap" /\ TakesFirst
  /\ UNCHANGED <<toClient, entity, events, session>>
  /\ loop'.id = loop.id /\ loop'.ignored = loop.ignored + 1
Starts ==
  /\ step = "bootstrap" /\ step' = "request" /\ TakesFirst /\ SendsOne({"View"})
  /\ UNCHANGED <<entity, events, session>>
  /\ loop'.id = loop.id /\ loop'.ignored = 0
Asks ==
  /\ step = "request" /\ step' = "read"
  /\ UNCHANGED <<toServer, entity, events>>
  /\ toClient' = Append(toClient, Packet("KeepAlive", loop.id))
  /\ session.pending = NoId /\ session'.pending = loop.id
  /\ loop'.id = loop.id /\ loop'.ignored = loop.ignored
Hears ==
  /\ step = "read" /\ step' \in {"request", "read"} /\ TakesFirst
  /\ toServer[1].kind = "KeepAlive" /\ UNCHANGED <<toClient, entity, events>>
  /\ session'.pending = NoId /\ loop'.ignored = loop.ignored
GoesOn ==
  /\ step \in {"read", "moving"} /\ step' \in {"request", "read", "moving"} /\ UNCHANGED session
  /\ toServer' = toServer \/ TakesFirst
  /\ toClient' = toClient \/ SendsOne({"View", "SystemChat"})
  /\ loop'.id = loop.id \/ session.pending = NoId
  /\ \/ loop'.ignored = loop.ignored
     \/ TakesFirst /\ toServer[1].kind \notin KnownKinds /\ loop'.ignored = loop.ignored + 1
  /\ \/ UNCHANGED events
     \/ \E kind \in {"broadcast", "killed"} : Published(kind, 0)
     \/ Published("respawned", Spawn) /\ TakesFirst /\ toServer[1].kind = "ClientCommand"

\* The foot of the loop, where an answered request is no longer pending.
LEMMA FootGoesOn ==
  ASSUME SessionInv, Types, step \in {"read", "moving"}, NEW l, LoopTypes(l), l.acked = loop.acked,
         l.id = loop.id, AfterPacket(l)
  PROVE  /\ step' \in {"request", "read"} /\ loop'.ignored = l.ignored
         /\ loop'.id = loop.id \/ session.pending = NoId
<1>1. /\ step' \in {"request", "read"} /\ loop'.ignored = l.ignored
      /\ step' = "read" => loop'.id = l.id
      /\ step' = "request" => l.acked
  BY FootTypes
<1>2. loop.acked => session.pending = NoId
  BY DEF SessionInv, SessionFits
<1> QED BY <1>1, <1>2

\* What is sent is one packet, at most.
LEMMA FollowingSendsOne ==
  ASSUME IsSequence(toClient), NEW l, NEW c, Sends(Following(l, c))
  PROVE  toClient' = toClient \/ SendsOne({"View", "SystemChat"})
<1>1. CASE c = l.center
  BY <1>1, ConcatFacts DEF Sends, Following
<1>2. CASE c # l.center
  <2>1. PICK p : p = Delta(l, c)
    OBVIOUS
  <2>2. p.kind = "View" /\ toClient' = toClient \o <<p>>
    BY <1>2, <2>1 DEF Delta, View, Sends, Following
  <2> QED BY <2>2, AppendFacts DEF SendsOne
<1> QED BY <1>1, <1>2

\* The packets of the bootstrap.
LEMMA BootstrapCases ==
  ASSUME SessionInv, TalkInv, Types, Entered, ReadBootstrap, step' # "ended"
  PROVE  Boots \/ Starts
<1> DEFINE l == [loop EXCEPT !.accepted = @ \/ Incoming.kind = "Accept",
                             !.batched = @ \/ Incoming.kind = "ChunkBatch",
                             !.ignored = @ + 1]
           m == [l EXCEPT !.ignored = 0]
<1>1. IsSequence(toClient) /\ LoopTypes(loop)
  BY DEF Types
<1>2. /\ l.id = loop.id /\ l.ignored = loop.ignored + 1
      /\ m.id = loop.id /\ m.ignored = 0
  BY <1>1 DEF LoopTypes, IsLoop, LoopFields
<1> HIDE DEF l, m
<1>3. /\ step = "bootstrap" /\ TakesFirst /\ UNCHANGED <<entity, events>>
  BY DEF ReadBootstrap, Reads, Consumes, TakesFirst, Unaffected, GameRest
<1>4. \/ LoopStarts(m)
      \/ loop' = l /\ Goes("bootstrap") /\ UNCHANGED <<session, toClient>>
  BY DEF ReadBootstrap, l, m, Fails, Ends
<1>5. CASE LoopStarts(m)
  <2>1. PICK p : p = Delta(m, m.center)
    OBVIOUS
  <2>2. /\ toClient' = toClient \o <<p>> /\ loop' = Recentered(m, m.center)
        /\ step' = "request" /\ UNCHANGED session
    BY <1>5, <2>1 DEF LoopStarts, Sends, Goes
  <2>3. p.kind = "View" /\ toClient' = Append(toClient, p)
    BY <1>1, <2>1, <2>2, AppendFacts DEF Delta, View
  <2>4. loop'.id = loop.id /\ loop'.ignored = 0
    BY <1>2, <2>2 DEF Recentered
  <2> QED BY <1>3, <2>2, <2>3, <2>4 DEF Starts, SendsOne
<1>6. CASE loop' = l /\ Goes("bootstrap") /\ UNCHANGED <<session, toClient>>
  BY <1>2, <1>3, <1>6 DEF Boots, Goes
<1> QED BY <1>4, <1>5, <1>6

\* The head of a round, and the answer.
LEMMA RoundCases ==
  ASSUME SessionInv, TalkInv, Types, Entered, Request \/ ReadAnswer, step' # "ended"
  PROVE  Asks \/ Hears
<1>1. IsSequence(toClient) /\ LoopTypes(loop)
  BY DEF Types
<1>2. CASE Request
  <2>1. session.pending = NoId /\ session.phase = "Play"
        /\ session = [f \in SessionFields |-> session[f]] /\ step = "request"
    BY <1>2 DEF SessionInv, Records, SessionFits, Request, PhaseOf
  <2>2. session' = [session EXCEPT !.pending = loop.id]
    BY <1>2, <2>1 DEF Request, KeepAliveSent, Allow
  <2>3. session'.pending = loop.id
    BY <2>1, <2>2 DEF SessionFields
  <2>4. PICK p : p = Packet("KeepAlive", loop.id)
    OBVIOUS
  <2>5. toClient' = Append(toClient, p)
    BY <1>1, <1>2, <2>4, AppendFacts DEF Request, Sends
  <2>6. loop'.id = loop.id /\ loop'.ignored = loop.ignored
    BY <1>1, <1>2 DEF Request, LoopTypes, IsLoop, LoopFields
  <2> QED BY <1>2, <2>1, <2>3, <2>4, <2>5, <2>6 DEF Asks, Request, Goes, Unaffected, GameRest
<1>3. CASE ReadAnswer
  <2>1. PICK l : l = [loop EXCEPT !.acked = TRUE]
    OBVIOUS
  <2>2. LoopTypes(l) /\ l.ignored = loop.ignored
    BY <1>1, <2>1 DEF LoopTypes, IsLoop, LoopFields
  <2>3. /\ session' = KeepAliveAnswered(session) /\ AfterPacket(l) /\ UNCHANGED toClient
    BY <1>3, <2>1 DEF ReadAnswer, Fails, Ends
  <2>4. step = "read" /\ TakesFirst /\ toServer[1].kind = "KeepAlive"
        /\ UNCHANGED <<entity, events>>
    BY <1>3 DEF ReadAnswer, Gets, Reads, Consumes, TakesFirst, Unaffected, GameRest, Incoming
  <2>5. step' \in {"request", "read"} /\ loop'.ignored = loop.ignored
    BY <2>2, <2>3, FootTypes
  <2>6. session'.pending = NoId
    BY <2>3 DEF SessionInv, Records, SessionFields, KeepAliveAnswered
  <2> QED BY <2>3, <2>4, <2>5, <2>6 DEF Hears
<1> QED BY <1>2, <1>3

\* The other packets that leave the player where it is.
LEMMA ReadingCases ==
  ASSUME SessionInv, TalkInv, Types, Entered, step' # "ended", ~history'.teleported,
         \/ ReadTick \/ ReadHarmless \/ ReadChat \/ ReadCommand \/ ReadUnknown
         \/ ReadUndecodable \/ PlayEnds
  PROVE  GoesOn
<1>1. IsSequence(toClient) /\ LoopTypes(loop) /\ HistoryTypes /\ conforms
  BY DEF Types, Entered
<1>2. ASSUME step = "read", TakesFirst, UNCHANGED <<session, events>>, NEW l, LoopTypes(l),
             l.acked = loop.acked, l.id = loop.id, AfterPacket(l), UNCHANGED toClient,
             \/ l.ignored = loop.ignored
             \/ toServer[1].kind \notin KnownKinds /\ l.ignored = loop.ignored + 1
      PROVE  GoesOn
  <2>1. /\ step' \in {"request", "read"} /\ loop'.ignored = l.ignored
        /\ loop'.id = loop.id \/ session.pending = NoId
    BY <1>2, FootGoesOn
  <2> QED BY <1>2, <2>1 DEF GoesOn
<1>3. CASE ReadTick
  <2>1. PICK l : l = [loop EXCEPT !.ticks = IF @ < Interval THEN @ + 1 ELSE @]
    OBVIOUS
  <2>2. LoopTypes(l) /\ l.acked = loop.acked /\ l.id = loop.id /\ l.ignored = loop.ignored
    BY <1>1, <2>1 DEF LoopTypes, IsLoop, LoopFields
  <2>3. /\ step = "read" /\ TakesFirst /\ UNCHANGED <<session, events, toClient>>
        /\ AfterPacket(l)
    BY <1>3, <2>1 DEF ReadTick, Gets, Reads, Consumes, TakesFirst, Unaffected, GameRest
  <2> QED BY <1>2, <2>2, <2>3
<1>4. CASE ReadHarmless
  <2>1. /\ step = "read" /\ TakesFirst /\ UNCHANGED <<session, events, toClient>>
        /\ AfterPacket(loop)
    BY <1>4 DEF ReadHarmless, Reads, Consumes, TakesFirst, Unaffected, GameRest
  <2> QED BY <1>1, <1>2, <2>1
<1>5. CASE ReadChat
  <2>1. /\ step = "read" /\ TakesFirst /\ UNCHANGED <<session, toClient>>
        /\ AfterPacket(loop) /\ Published("broadcast", 0)
    BY <1>1, <1>5 DEF ReadChat, Gets, Reads, Consumes, TakesFirst, PlayersSide, Publishes, Published
  <2>2. /\ step' \in {"request", "read"} /\ loop'.ignored = loop.ignored
        /\ loop'.id = loop.id \/ session.pending = NoId
    BY <1>1, <2>1, FootGoesOn
  <2> QED BY <2>1, <2>2 DEF GoesOn
<1>6. CASE ReadCommand
  <2>1. /\ step = "read" /\ TakesFirst /\ UNCHANGED session /\ AfterPacket(loop)
        /\ toClient' = toClient \o <<Plain("SystemChat")>>
        /\ UNCHANGED <<entity, events, history>> \/ Executes(history.acts)
    BY <1>6 DEF ReadCommand, Gets, Reads, Consumes, TakesFirst, Sends
  <2>2. /\ step' \in {"request", "read"} /\ loop'.ignored = loop.ignored
        /\ loop'.id = loop.id \/ session.pending = NoId
    BY <1>1, <2>1, FootGoesOn
  <2>3. UNCHANGED events \/ Published("killed", 0)
    <3>1. CASE UNCHANGED events
      BY <3>1
    <3>2. CASE Executes(history.acts)
      BY <1>1, <3>2 DEF Executes, Kill, Publishes, Published, HistoryTypes, HistoryFields
    <3> QED BY <2>1, <3>1, <3>2
  <2>4. PICK p : p = Plain("SystemChat")
    OBVIOUS
  <2>5. p.kind = "SystemChat" /\ toClient' = Append(toClient, p)
    BY <1>1, <2>1, <2>4, AppendFacts DEF Plain, Packet
  <2>6. SendsOne({"View", "SystemChat"})
    BY <2>5 DEF SendsOne
  <2> QED BY <2>1, <2>2, <2>3, <2>6 DEF GoesOn
<1>7. CASE ReadUnknown
  <2>1. PICK l : l = [loop EXCEPT !.ignored = @ + 1]
    OBVIOUS
  <2>2. LoopTypes(l) /\ l.acked = loop.acked /\ l.id = loop.id /\ l.ignored = loop.ignored + 1
    BY <1>1, <2>1 DEF LoopTypes, IsLoop, LoopFields
  <2>3. /\ step = "read" /\ TakesFirst /\ UNCHANGED <<session, events, toClient>>
        /\ AfterPacket(l) /\ toServer[1].kind \notin KnownKinds
    BY <1>7, <2>1 DEF ReadUnknown, Reads, Consumes, TakesFirst, Unaffected, GameRest, Fails, Ends,
                      Incoming
  <2> QED BY <1>2, <2>2, <2>3
<1>8. CASE ReadUndecodable \/ PlayEnds
  BY <1>8 DEF ReadUndecodable, PlayEnds, Fails, Ends
<1> QED BY <1>3, <1>4, <1>5, <1>6, <1>7, <1>8

\* The packets that may move the player.
LEMMA MovingCases ==
  ASSUME SessionInv, TalkInv, Types, Entered, step' # "ended",
         ReadMovement \/ Synchronize \/ ReadRespawn
  PROVE  GoesOn
<1>1. IsSequence(toClient) /\ LoopTypes(loop) /\ EntityTypes /\ conforms
  BY DEF Types, Entered
<1>2. CASE ReadMovement
  <2>1. PICK l : l = Refreshed(loop)
    OBVIOUS
  <2>2. PICK c \in Int : c = ChunkOf(entity.at)
    BY <1>1, ChunksAreNumbers DEF EntityTypes
  <2>3. PICK here : here = Followed(l, c)
    OBVIOUS
  <2>8. LoopTypes(l) /\ l.ignored = loop.ignored /\ l.id = loop.id
    BY <2>1, RefreshedTypes
  <2>4. LoopTypes(here) /\ here.ignored = l.ignored /\ here.id = l.id
    BY <2>2, <2>3, <2>8, FollowedTypes
  <2>5. /\ TakesFirst /\ step = "read" /\ step' = "moving" /\ UNCHANGED <<session, events>>
        /\ loop' = Moved(here, Incoming) /\ Sends(Following(loop, c))
    BY <1>2, <2>1, <2>2, <2>3
       DEF ReadMovement, Reads, Consumes, Goes, TakesFirst, Fails, Ends, Unaffected, GameRest
  <2>6. loop'.id = loop.id /\ loop'.ignored = loop.ignored
    BY <2>4, <2>5, <2>8 DEF Moved
  <2>7. toClient' = toClient \/ SendsOne({"View", "SystemChat"})
    BY <1>1, <2>5, FollowingSendsOne
  <2> QED BY <2>5, <2>6, <2>7 DEF GoesOn
<1>3. CASE Synchronize
  <2>1. PICK c \in Int : c = ChunkOf(loop.player)
    BY <1>1, ChunksAreNumbers DEF LoopTypes
  <2>2. PICK l : l = Followed(loop, c)
    OBVIOUS
  <2>3. LoopTypes(l) /\ l.ignored = loop.ignored /\ l.id = loop.id /\ l.acked = loop.acked
    BY <1>1, <2>2, FollowedTypes
  <2>4. /\ step = "moving" /\ UNCHANGED <<toServer, session, events>>
        /\ AfterPacket(l) /\ Sends(Following(loop, c))
    BY <1>3, <2>1, <2>2 DEF Synchronize, PlayersSide
  <2>5. /\ step' \in {"request", "read"} /\ loop'.ignored = l.ignored
        /\ loop'.id = loop.id \/ session.pending = NoId
    BY <2>3, <2>4, FootGoesOn
  <2>6. toClient' = toClient \/ SendsOne({"View", "SystemChat"})
    BY <1>1, <2>4, FollowingSendsOne
  <2> QED BY <2>3, <2>4, <2>5, <2>6 DEF GoesOn
<1>4. CASE ReadRespawn
  <2>1. PICK m : m = [loop EXCEPT !.player = Spawn]
    OBVIOUS
  <2>2. PICK c \in Int : c = ChunkOf(Spawn)
    BY SpawnIsThere
  <2>3. PICK l : l = Followed(m, c)
    OBVIOUS
  <2>4. LoopTypes(m) /\ m.acked = loop.acked /\ m.id = loop.id /\ m.ignored = loop.ignored
    BY <1>1, <2>1, SpawnIsThere DEF LoopTypes, IsLoop, LoopFields
  <2>9. LoopTypes(l) /\ l.ignored = m.ignored /\ l.id = m.id /\ l.acked = m.acked
    BY <2>2, <2>3, <2>4, FollowedTypes
  <2>5. LoopTypes(l) /\ l.ignored = loop.ignored /\ l.id = loop.id /\ l.acked = loop.acked
    BY <2>4, <2>9
  <2>6. /\ step = "read" /\ TakesFirst /\ UNCHANGED session
        /\ toServer[1].kind = "ClientCommand"
    BY <1>4 DEF ReadRespawn, Gets, Reads, Consumes, TakesFirst, PlayersSide, Incoming
  <2>7. CASE Respawns /\ Sends(Following(loop, c)) /\ AfterPacket(l)
    <3>1. /\ step' \in {"request", "read"} /\ loop'.ignored = l.ignored
          /\ loop'.id = loop.id \/ session.pending = NoId
      BY <2>5, <2>6, <2>7, FootGoesOn
    <3>2. toClient' = toClient \/ SendsOne({"View", "SystemChat"})
      BY <1>1, <2>7, FollowingSendsOne
    <3>3. Published("respawned", Spawn)
      BY <1>1, <2>7 DEF Respawns, Publishes, Published
    <3> QED BY <2>5, <2>6, <3>1, <3>2, <3>3 DEF GoesOn
  <2>8. CASE AfterPacket(loop) /\ UNCHANGED <<events, toClient>>
    <3>1. /\ step' \in {"request", "read"} /\ loop'.ignored = loop.ignored
          /\ loop'.id = loop.id \/ session.pending = NoId
      BY <1>1, <2>6, <2>8, FootGoesOn
    <3> QED BY <2>6, <2>8, <3>1 DEF GoesOn
  <2> QED BY <1>4, <2>1, <2>2, <2>3, <2>7, <2>8 DEF ReadRespawn
<1> QED BY <1>2, <1>3, <1>4

\* Any step of the loop that does not end it.
LEMMA LoopCases ==
  ASSUME SessionInv, TalkInv, Types, Entered, LoopStep, step' # "ended", ~history'.teleported
  PROVE  Boots \/ Starts \/ Asks \/ Hears \/ GoesOn
BY BootstrapCases, RoundCases, ReadingCases, MovingCases DEF LoopStep

---------------------------------------------------------------------------
\* Signs of life: at most one request or answer is on its way, the one of the
\* pending request, and none when none is pending.
Asking == {"KeepAlive"}
Pulse(up, down, pending, id) ==
  /\ Alone(up, Asking) /\ Alone(down, Asking)
  /\ ~Has(up, Asking) \/ ~Has(down, Asking)
  /\ pending = NoId => ~Has(up, Asking) /\ ~Has(down, Asking)
  /\ Carries(up, Asking, "n", id) /\ Carries(down, Asking, "n", id)
Heartbeat == Pulse(toServer, toClient, session.pending, loop.id)

\* Reading a packet keeps that, as does sending one of another kind.
LEMMA PulseRead ==
  ASSUME NEW up, NEW down, IsSequence(up), IsSequence(down), NEW pending, NEW id,
         Pulse(up, down, pending, id)
  PROVE  /\ up # <<>> => Pulse(Tail(up), down, pending, id)
         /\ down # <<>> => Pulse(up, Tail(down), pending, id)
<1>1. ASSUME up # <<>> PROVE Pulse(Tail(up), down, pending, id)
  <2>1. Has(Tail(up), Asking) => Has(up, Asking)
    BY <1>1, HasRead
  <2>2. Alone(Tail(up), Asking) /\ Carries(Tail(up), Asking, "n", id)
    BY <1>1, AloneRead, CarriesRead DEF Pulse
  <2> QED BY <2>1, <2>2 DEF Pulse
<1>2. ASSUME down # <<>> PROVE Pulse(up, Tail(down), pending, id)
  <2>1. Has(Tail(down), Asking) => Has(down, Asking)
    BY <1>2, HasRead
  <2>2. Alone(Tail(down), Asking) /\ Carries(Tail(down), Asking, "n", id)
    BY <1>2, AloneRead, CarriesRead DEF Pulse
  <2> QED BY <2>1, <2>2 DEF Pulse
<1> QED BY <1>1, <1>2

\* A packet of another kind.
LEMMA PulseSent ==
  ASSUME NEW up, NEW down, IsSequence(up), IsSequence(down), NEW pending, NEW id,
         Pulse(up, down, pending, id), NEW p, p.kind \notin Asking
  PROVE  Pulse(Append(up, p), down, pending, id) /\ Pulse(up, Append(down, p), pending, id)
<1>1. Pulse(Append(up, p), down, pending, id)
  <2>1. Has(Append(up, p), Asking) <=> Has(up, Asking)
    BY HasAppended
  <2>2. Alone(Append(up, p), Asking) /\ Carries(Append(up, p), Asking, "n", id)
    BY AloneAppended, CarriesAppended DEF Pulse
  <2> QED BY <2>1, <2>2 DEF Pulse
<1>2. Pulse(up, Append(down, p), pending, id)
  <2>1. Has(Append(down, p), Asking) <=> Has(down, Asking)
    BY HasAppended
  <2>2. Alone(Append(down, p), Asking) /\ Carries(Append(down, p), Asking, "n", id)
    BY AloneAppended, CarriesAppended DEF Pulse
  <2> QED BY <2>1, <2>2 DEF Pulse
<1> QED BY <1>1, <1>2

\* When none is pending, any number is that of the next request, and a request
\* is the only one.
LEMMA PulseAsked ==
  ASSUME NEW up, NEW down, IsSequence(up), IsSequence(down), NEW id, NEW pending,
         Pulse(up, down, NoId, id), NEW next, next # NoId
  PROVE  /\ Pulse(up, down, pending, next)
         /\ Pulse(up, Append(down, Packet("KeepAlive", next)), next, next)
<1>1. ~Has(up, Asking) /\ ~Has(down, Asking)
  BY DEF Pulse
<1>2. Pulse(up, down, pending, next)
  BY <1>1, NoneIsAlone DEF Pulse
<1>3. PICK p : p = Packet("KeepAlive", next)
  OBVIOUS
<1>4. p.kind \in Asking /\ p.n = next /\ p["n"] = next
  BY <1>3 DEF Packet, Asking
<1>5. Alone(up, Asking) /\ Carries(up, Asking, "n", next)
  BY <1>2 DEF Pulse
<1>6. Alone(Append(down, p), Asking)
  BY <1>1, <1>2, AloneAppended DEF Pulse
<1>7. Carries(down, Asking, "n", next)
  BY <1>2 DEF Pulse
<1>8. Carries(Append(down, p), Asking, "n", next)
  BY <1>4, <1>7, CarriesAppended
<1> QED BY <1>1, <1>2, <1>3, <1>5, <1>6, <1>8 DEF Pulse

\* The answer goes back with the number of the request, and once read, it was
\* the only one.
LEMMA PulseAnswered ==
  ASSUME NEW up, NEW down, IsSequence(up), IsSequence(down), NEW pending, NEW id,
         Pulse(up, down, pending, id)
  PROVE  /\ down # <<>> /\ down[1].kind = "KeepAlive" =>
              Pulse(Append(up, Packet("KeepAlive", down[1].n)), Tail(down), pending, id)
         /\ up # <<>> /\ up[1].kind = "KeepAlive" =>
              /\ up[1].n = id /\ pending # NoId
              /\ \A next : Pulse(Tail(up), down, NoId, next)
<1>1. ASSUME down # <<>>, down[1].kind = "KeepAlive"
      PROVE  Pulse(Append(up, Packet("KeepAlive", down[1].n)), Tail(down), pending, id)
  <2>1. Has(down, Asking) /\ ~Has(Tail(down), Asking)
    BY <1>1, HasRead, AloneRead DEF Pulse, Asking
  <2>2. ~Has(up, Asking) /\ pending # NoId
    BY <2>1 DEF Pulse
  <2>3. PICK p : p = Packet("KeepAlive", down[1].n)
    OBVIOUS
  <2>4. down[1]["n"] = id
    BY <1>1, CarriesRead DEF Pulse, Asking
  <2>5. p["n"] = id
    BY <2>3, <2>4 DEF Packet
  <2>6. Alone(Append(up, p), Asking)
    BY <2>2, AloneAppended DEF Pulse
  <2>7. Carries(Append(up, p), Asking, "n", id)
    BY <2>5, CarriesAppended DEF Pulse
  <2>8. Alone(Tail(down), Asking) /\ Carries(Tail(down), Asking, "n", id)
    BY <2>1, NoneIsAlone
  <2> QED BY <2>1, <2>2, <2>3, <2>6, <2>7, <2>8 DEF Pulse
<1>2. ASSUME up # <<>>, up[1].kind = "KeepAlive"
      PROVE  /\ up[1].n = id /\ pending # NoId
             /\ \A next : Pulse(Tail(up), down, NoId, next)
  <2>1. Has(up, Asking) /\ ~Has(Tail(up), Asking)
    BY <1>2, HasRead, AloneRead DEF Pulse, Asking
  <2>2. ~Has(down, Asking) /\ pending # NoId
    BY <2>1 DEF Pulse
  <2>3. up[1]["n"] = id
    BY <1>2, CarriesRead DEF Pulse, Asking
  <2>4. \A next : Pulse(Tail(up), down, NoId, next)
    BY <2>1, <2>2, NoneIsAlone DEF Pulse
  <2> QED BY <2>2, <2>3, <2>4
<1> QED BY <1>1, <1>2

\* The packets that enter Play ask for none.
LEMMA FirstPulse ==
  ASSUME SessionInv', EntersPlay
  PROVE  Heartbeat'
<1>1. step' = "bootstrap" /\ toServer' = <<>>
  BY DEF EntersPlay
<1>2. session'.pending = NoId
  BY <1>1 DEF SessionInv, SessionFits
<1>3. PICK a : a = Plain("PlayLogin")
  OBVIOUS
<1>4. PICK b : b = FirstView
  OBVIOUS
<1>5. PICK d : d = Teleport(SpawnTeleport, Spawn)
  OBVIOUS
<1>6. a.kind \notin Asking /\ b.kind \notin Asking /\ d.kind \notin Asking
  BY <1>3, <1>4, <1>5 DEF Plain, Packet, FirstView, View, Teleport, Asking
<1>7. PICK id : id = loop'.id
  OBVIOUS
<1>8. IsSequence(<<>>) /\ Pulse(<<>>, <<>>, NoId, id)
  BY NoneFacts, HasNothing, NoneIsAlone DEF Pulse
<1>9. PICK q1 : q1 = Append(<<>>, a)
  OBVIOUS
<1>10. IsSequence(q1) /\ Pulse(<<>>, q1, NoId, id)
  BY <1>6, <1>8, <1>9, AppendFacts, PulseSent
<1>11. PICK q2 : q2 = Append(q1, b)
  OBVIOUS
<1>12. IsSequence(q2) /\ Pulse(<<>>, q2, NoId, id)
  BY <1>6, <1>8, <1>10, <1>11, AppendFacts, PulseSent
<1>13. Pulse(<<>>, Append(q2, d), NoId, id)
  BY <1>6, <1>8, <1>12, PulseSent
<1> QED BY <1>1, <1>2, <1>3, <1>4, <1>5, <1>7, <1>9, <1>11, <1>13 DEF EntersPlay, Heartbeat

\* What the next packet to the client makes it send.
LEMMA LivesAnswers ==
  ASSUME TalkInv, Types, Entered, Inhabit, Enters \/ Lives
  PROVE  /\ toClient # <<>> /\ toClient' = Tail(toClient)
         /\ UNCHANGED <<step, session, loop, entity, events, history>>
         /\ \/ toClient[1].kind = "PlayLogin" /\ UNCHANGED <<toServer, avatar>>
            \/ /\ avatar' = AvatarAfter(avatar, toClient[1])
               /\ \/ /\ toClient[1].kind \in {"SystemChat", "Died", "Respawned"}
                     /\ UNCHANGED toServer
                  \/ /\ toClient[1].kind = "View"
                     /\ toServer' = Append(toServer, Packet("ChunkBatch", 1))
                  \/ /\ toClient[1].kind = "KeepAlive"
                     /\ toServer' = Append(toServer, Packet("KeepAlive", toClient[1].n))
                  \/ /\ toClient[1].kind = "Teleport"
                     /\ toServer' = Append(Append(toServer, Packet("Accept", toClient[1].n)),
                                           Packet("Move", toClient[1].to))
<1>1. /\ toClient # <<>> /\ toClient' = Tail(toClient)
      /\ UNCHANGED <<step, session, loop, entity, events, history>>
  BY InhabitEffect
<1>2. IsSequence(toServer)
  BY EnteredFacts
<1>3. PICK p : p = toClient[1]
  OBVIOUS
<1>4. CASE Enters
  <2>1. p.kind = "PlayLogin" /\ UNCHANGED <<toServer, avatar>>
    BY <1>3, <1>4 DEF Enters, Plain, Packet
  <2> QED BY <1>1, <1>3, <2>1
<1>5. CASE Lives
  <2>1. /\ p.kind \in WorldKinds /\ avatar' = AvatarAfter(avatar, p)
        /\ toServer' = toServer \o AnswersTo(p)
    BY <1>3, <1>5 DEF Lives
  <2>2. PICK q : q = toServer
    OBVIOUS
  <2>3. /\ p.kind = "View" => q \o AnswersTo(p) = Append(q, Packet("ChunkBatch", 1))
        /\ p.kind = "Teleport" =>
             q \o AnswersTo(p) = Append(Append(q, Packet("Accept", p.n)), Packet("Move", p.to))
        /\ p.kind = "KeepAlive" => q \o AnswersTo(p) = Append(q, Packet("KeepAlive", p.n))
        /\ p.kind \in {"SystemChat", "Died", "Respawned"} => q \o AnswersTo(p) = q
    BY <1>2, <2>1, <2>2, AnswersFacts
  <2> QED BY <1>1, <1>3, <2>1, <2>2, <2>3 DEF WorldKinds
<1> QED BY <1>4, <1>5

\* A request, its answer and their absence, through every step.
LEMMA HeartbeatKept ==
  ASSUME SessionInv, SessionInv', TalkInv, Types, Types', [Next]_vars, Honest',
         Honest => Heartbeat
  PROVE  Heartbeat'
<1>1. CASE EntersPlay
  BY <1>1, FirstPulse
<1> SUFFICES ASSUME Honest PROVE Heartbeat'
  BY <1>1, StepsOfTheHonest
<1>2. /\ IsSequence(toServer) /\ IsSequence(toClient) /\ Entered
      /\ step' # "ended" /\ ~history'.teleported
  BY EnteredFacts DEF Honest, Entered, InPlay
<1>3. PICK up : up = toServer
  OBVIOUS
<1>4. PICK down : down = toClient
  OBVIOUS
<1>5. PICK pending : pending = session.pending
  OBVIOUS
<1>6. PICK id : id = loop.id
  OBVIOUS
<1>7. Pulse(up, down, pending, id) /\ IsSequence(up) /\ IsSequence(down)
  BY <1>2, <1>3, <1>4, <1>5, <1>6 DEF Heartbeat
<1>8. ASSUME UNCHANGED <<session, loop>>, NEW q, NEW r, toServer' = q, toClient' = r,
             Pulse(q, r, pending, id)
      PROVE  Heartbeat'
  BY <1>5, <1>6, <1>8 DEF Heartbeat
<1>9. CASE LoopStep
  <2>1. ASSUME TakesFirst PROVE Pulse(Tail(up), down, pending, id) /\ up # <<>>
    BY <1>3, <1>7, <2>1, PulseRead DEF TakesFirst
  <2>2. ASSUME NEW q, IsSequence(q), Pulse(q, down, pending, id), NEW K, SendsOne(K),
               K \cap Asking = {}
        PROVE  Pulse(q, toClient', pending, id)
    <3>1. PICK p : p.kind \in K /\ toClient' = Append(down, p)
      BY <1>4, <2>2 DEF SendsOne
    <3>2. p.kind \notin Asking
      BY <2>2, <3>1
    <3> QED BY <1>7, <2>2, <3>1, <3>2, PulseSent
  <2>3. TakesFirst => IsSequence(Tail(up))
    BY <1>3, <1>7, TailFacts DEF TakesFirst
  <2>4. CASE Boots
    <3>1. /\ TakesFirst /\ toServer' = Tail(up) /\ toClient' = down
          /\ session'.pending = pending /\ loop'.id = id
      BY <1>3, <1>4, <1>5, <1>6, <2>4 DEF Boots, TakesFirst
    <3> QED BY <2>1, <3>1 DEF Heartbeat
  <2>5. CASE Starts
    <3>1. /\ TakesFirst /\ toServer' = Tail(up) /\ SendsOne({"View"})
          /\ session'.pending = pending /\ loop'.id = id
      BY <1>3, <1>5, <1>6, <2>5 DEF Starts, TakesFirst
    <3>2. Pulse(Tail(up), toClient', pending, id)
      BY <2>1, <2>2, <2>3, <3>1 DEF Asking
    <3> QED BY <3>1, <3>2 DEF Heartbeat
  <2>6. CASE Asks
    <3>1. /\ toServer' = up /\ toClient' = Append(down, Packet("KeepAlive", id))
          /\ pending = NoId /\ session'.pending = id /\ loop'.id = id
      BY <1>3, <1>4, <1>5, <1>6, <2>6 DEF Asks
    <3>2. id # NoId
      BY <1>6 DEF Types, LoopTypes, NoId
    <3>3. Pulse(up, Append(down, Packet("KeepAlive", id)), id, id)
      BY <1>7, <3>1, <3>2, PulseAsked
    <3> QED BY <3>1, <3>3 DEF Heartbeat
  <2>7. CASE Hears
    <3>1. /\ up # <<>> /\ up[1].kind = "KeepAlive" /\ toServer' = Tail(up) /\ toClient' = down
          /\ session'.pending = NoId
      BY <1>3, <1>4, <2>7 DEF Hears, TakesFirst
    <3>2. PICK next : next = loop'.id
      OBVIOUS
    <3>3. Pulse(Tail(up), down, NoId, next)
      BY <1>7, <3>1, PulseAnswered
    <3> QED BY <3>1, <3>2, <3>3 DEF Heartbeat
  <2>8. CASE GoesOn
    <3>1. session'.pending = pending /\ (loop'.id = id \/ pending = NoId)
      BY <1>5, <1>6, <2>8 DEF GoesOn
    <3>2. PICK q : q = toServer'
      OBVIOUS
    <3>3. Pulse(q, down, pending, id) /\ IsSequence(q)
      <4>1. q = up \/ (TakesFirst /\ q = Tail(up))
        BY <1>3, <2>8, <3>2 DEF GoesOn, TakesFirst
      <4> QED BY <1>7, <2>1, <2>3, <4>1
    <3>4. PICK r : r = toClient'
      OBVIOUS
    <3>5. Pulse(q, r, pending, id) /\ IsSequence(r)
      <4>1. r = down \/ SendsOne({"View", "SystemChat"})
        BY <1>4, <2>8, <3>4 DEF GoesOn
      <4>2. IsSequence(r)
        BY <1>4, <1>7, <3>4, <4>1, AppendFacts DEF SendsOne
      <4>3. ASSUME SendsOne({"View", "SystemChat"}) PROVE Pulse(q, r, pending, id)
        <5>1. Pulse(q, toClient', pending, id)
          BY <2>2, <3>3, <4>3 DEF Asking
        <5> QED BY <3>4, <5>1
      <4> QED BY <3>3, <4>1, <4>2, <4>3
    <3>6. PICK next : next = loop'.id
      OBVIOUS
    <3>7. Types' /\ next # NoId
      BY <3>6 DEF Types, LoopTypes, NoId
    <3>8. Pulse(q, r, pending, next)
      <4>1. CASE next = id
        BY <3>5, <4>1
      <4>2. CASE pending = NoId
        BY <3>3, <3>5, <3>7, <4>2, PulseAsked
      <4> QED BY <3>1, <3>6, <4>1, <4>2
    <3> QED BY <3>1, <3>2, <3>4, <3>6, <3>8 DEF Heartbeat
  <2> QED BY <1>2, <1>9, <2>4, <2>5, <2>6, <2>7, <2>8, LoopCases
<1>10. CASE KilledFromOutside
  BY <1>3, <1>4, <1>7, <1>8, <1>10 DEF KilledFromOutside
<1>11. CASE Dispatch
  <2>1. UNCHANGED <<toServer, session, loop>>
    BY <1>2, <1>11, DispatchEffect
  <2>2. ASSUME NEW p, p.kind \notin Asking, toClient' = Append(down, p) PROVE Heartbeat'
    <3>1. Pulse(up, Append(down, p), pending, id)
      BY <1>7, <2>2, PulseSent
    <3> QED BY <1>3, <1>8, <2>1, <2>2, <3>1
  <2>3. ASSUME NEW p, NEW r, p.kind \notin Asking, r.kind \notin Asking,
               toClient' = Append(Append(down, p), r)
        PROVE  Heartbeat'
    <3>1. PICK d : d = Append(down, p)
      OBVIOUS
    <3>2. IsSequence(d) /\ Pulse(up, d, pending, id)
      BY <1>7, <2>3, <3>1, PulseSent, AppendFacts
    <3>3. Pulse(up, Append(d, r), pending, id)
      BY <1>7, <2>3, <3>2, PulseSent
    <3> QED BY <1>3, <1>8, <2>1, <2>3, <3>1, <3>3
  <2>4. PICK t : t = Teleport(TeleportId, events[1].at)
    OBVIOUS
  <2>5. /\ t.kind \notin Asking /\ Plain("Died").kind \notin Asking
        /\ Plain("SystemChat").kind \notin Asking /\ Plain("Respawned").kind \notin Asking
    BY <2>4 DEF Teleport, Plain, Packet, Asking
  <2>6. \/ toClient' = Append(down, t) \/ toClient' = Append(down, Plain("Died"))
        \/ toClient' = Append(down, Plain("SystemChat"))
        \/ toClient' = Append(Append(down, Plain("Respawned")), t)
    BY <1>2, <1>4, <1>11, <2>4, DispatchEffect
  <2> QED BY <2>2, <2>3, <2>5, <2>6
<1>12. CASE Inhabit /\ (Enters \/ Lives)
  <2>1. /\ down # <<>> /\ toClient' = Tail(down) /\ UNCHANGED <<session, loop>>
    BY <1>2, <1>4, <1>12, LivesAnswers
  <2>2. PICK p : p = down[1]
    OBVIOUS
  <2>3. \/ toServer' = up
        \/ toServer' = Append(up, Packet("ChunkBatch", 1))
        \/ p.kind = "KeepAlive" /\ toServer' = Append(up, Packet("KeepAlive", p.n))
        \/ toServer' = Append(Append(up, Packet("Accept", p.n)), Packet("Move", p.to))
    BY <1>2, <1>3, <1>4, <1>12, <2>2, LivesAnswers
  <2>4. PICK r : r = Tail(down)
    OBVIOUS
  <2>5. IsSequence(r) /\ Pulse(up, r, pending, id)
    BY <1>7, <2>1, <2>4, PulseRead, TailFacts
  <2>6. PICK a : a = Packet("Accept", p.n)
    OBVIOUS
  <2>7. PICK m : m = Packet("Move", p.to)
    OBVIOUS
  <2>8. PICK b : b = Packet("ChunkBatch", 1)
    OBVIOUS
  <2>9. a.kind \notin Asking /\ m.kind \notin Asking /\ b.kind \notin Asking
    BY <2>6, <2>7, <2>8 DEF Packet, Asking
  <2>10. CASE toServer' = up
    BY <1>8, <2>1, <2>4, <2>5, <2>10
  <2>11. CASE toServer' = Append(up, b)
    <3>1. Pulse(Append(up, b), r, pending, id)
      BY <1>7, <2>5, <2>9, PulseSent
    <3> QED BY <1>8, <2>1, <2>4, <2>11, <3>1
  <2>12. CASE p.kind = "KeepAlive" /\ toServer' = Append(up, Packet("KeepAlive", p.n))
    <3>1. Pulse(Append(up, Packet("KeepAlive", p.n)), r, pending, id)
      BY <1>7, <2>1, <2>2, <2>4, <2>12, PulseAnswered
    <3> QED BY <1>8, <2>1, <2>4, <2>12, <3>1
  <2>13. CASE toServer' = Append(Append(up, a), m)
    <3>1. PICK q : q = Append(up, a)
      OBVIOUS
    <3>2. IsSequence(q) /\ Pulse(q, r, pending, id)
      BY <1>7, <2>5, <2>9, <3>1, PulseSent, AppendFacts
    <3>3. Pulse(Append(q, m), r, pending, id)
      BY <2>5, <2>9, <3>2, PulseSent
    <3> QED BY <1>8, <2>1, <2>4, <2>13, <3>1, <3>3
  <2> QED BY <2>3, <2>6, <2>7, <2>8, <2>10, <2>11, <2>12, <2>13
<1>13. ASSUME NEW p, Acts(p) PROVE Heartbeat'
  <2>1. /\ UNCHANGED <<toClient, session, loop>> /\ toServer' = Append(up, p)
        /\ p.kind \notin Asking
    BY <1>3, <1>13 DEF Acts, ActsAlone, AvatarActs, Asking
  <2>2. Pulse(Append(up, p), down, pending, id)
    BY <1>7, <2>1, PulseSent
  <2> QED BY <1>4, <1>8, <2>1, <2>2
<1>14. CASE UNCHANGED vars
  BY <1>3, <1>4, <1>7, <1>8, <1>14 DEF vars, connVars, playVars
<1> QED BY <1>1, <1>9, <1>10, <1>11, <1>12, <1>13, <1>14, StepsOfTheHonest

---------------------------------------------------------------------------
\* No life is lost or given twice: every change on its way is a proper one.
ProperLife == LivesWith(ProperSteps)

\* Through every step.
LEMMA ProperLifeKept ==
  ASSUME TalkInv, Types, Types', [Next]_vars, Honest', Honest => ProperLife
  PROVE  ProperLife'
<1>1. LifeRelation(ProperSteps)
  BY LifeRelations
<1>2. Entered' /\ ~history'.teleported
  BY DEF Honest
<1>3. CASE EntersPlay
  BY <1>1, <1>3, FirstLife DEF ProperLife
<1>4. CASE ~EntersPlay
  <2>1. Honest
    BY <1>4, StepsOfTheHonest
  <2>2. Entered => LivesWith(ProperSteps)
    BY <2>1 DEF ProperLife
  <2>3. LivesWith(ProperSteps)'
    BY <1>1, <1>2, <2>2, LifeKept
  <2> QED BY <2>3 DEF ProperLife
<1> QED BY <1>3, <1>4

\* A player is teleported before it is placed only.
LEMMA TeleportedAlive ==
  ASSUME Types, ProperLife, toClient # <<>>, toClient[1].kind = "Teleport"
  PROVE  avatar.alive
<1>1. PICK m \in LifeStates : Becomes(toClient, LifeOf(avatar), m, ProperSteps)
  BY DEF ProperLife, LivesWith
<1>2. PICK s : s = LifeOf(avatar)
  OBVIOUS
<1>3. IsSequence(toClient)
  BY DEF Types
<1>4. PICK y : <<s, toClient[1].kind, y>> \in ProperSteps
  BY <1>1, <1>2, <1>3, BecomesRead
<1>5. s = "unplaced"
  BY <1>4 DEF ProperSteps, Changes, Unchanged, NeutralLife
<1> QED BY <1>2, <1>5 DEF LifeOf

\* What the client shows after a packet.
LEMMA AvatarLives ==
  ASSUME Types, toClient[1].kind \in WorldKinds, avatar' = AvatarAfter(avatar, toClient[1])
  PROVE  /\ avatar'.at = (IF toClient[1].kind = "Teleport" THEN toClient[1].to ELSE avatar.at)
         /\ avatar'.alive = (IF toClient[1].kind = "Died" THEN FALSE
                             ELSE IF toClient[1].kind = "Respawned" THEN TRUE ELSE avatar.alive)
         /\ avatar'.asked = (IF toClient[1].kind = "Respawned" THEN FALSE ELSE avatar.asked)
<1>1. PICK a : a = avatar
  OBVIOUS
<1>2. PICK p : p = toClient[1]
  OBVIOUS
<1>3. a = [f \in AvatarFields |-> a[f]] /\ p.kind \in WorldKinds
  BY <1>1, <1>2 DEF Types, AvatarTypes
<1>4. /\ AvatarAfter(a, p).at = (IF p.kind = "Teleport" THEN p.to ELSE a.at)
      /\ AvatarAfter(a, p).alive
           = (IF p.kind = "Died" THEN FALSE ELSE IF p.kind = "Respawned" THEN TRUE ELSE a.alive)
      /\ AvatarAfter(a, p).asked = (IF p.kind = "Respawned" THEN FALSE ELSE a.asked)
  BY <1>3, AvatarFacts, Zenon
<1>5. avatar' = AvatarAfter(a, p)
  BY <1>1, <1>2
<1> QED BY <1>1, <1>2, <1>4, <1>5, Zenon

---------------------------------------------------------------------------
\* A wish to respawn is on its way once: to the server, as an event, or back
\* to the client, and while it is on its way the client has asked.  Behind it
\* there is no move.
Asked == {"ClientCommand"}
Granted == {"respawned"}
Reborn == {"Respawned"}
Moving == {"Move"}
Wish(up, down, evs, asked) ==
  /\ Alone(up, Asked) /\ Alone(evs, Granted) /\ Alone(down, Reborn)
  /\ ~Has(up, Asked) \/ ~Has(evs, Granted)
  /\ ~Has(up, Asked) \/ ~Has(down, Reborn)
  /\ ~Has(evs, Granted) \/ ~Has(down, Reborn)
  /\ ~asked => ~Has(up, Asked) /\ ~Has(evs, Granted) /\ ~Has(down, Reborn)
  /\ NoneAfter(up, Asked, Moving)
OneWish == Wish(toServer, toClient, events, avatar.asked) /\ (avatar.alive => ~avatar.asked)

\* What is read leaves the others.
LEMMA WishRead ==
  ASSUME NEW up, IsSequence(up), NEW down, IsSequence(down), NEW evs, IsSequence(evs),
         NEW asked, Wish(up, down, evs, asked)
  PROVE  /\ up # <<>> => Wish(Tail(up), down, evs, asked)
         /\ down # <<>> => Wish(up, Tail(down), evs, asked)
         /\ evs # <<>> => Wish(up, down, Tail(evs), asked)
<1>1. ASSUME up # <<>>
      PROVE  /\ Has(Tail(up), Asked) => Has(up, Asked)
             /\ Alone(Tail(up), Asked) /\ NoneAfter(Tail(up), Asked, Moving)
  BY <1>1, HasRead, AloneRead, NoneAfterRead DEF Wish
<1>2. ASSUME down # <<>>
      PROVE  (Has(Tail(down), Reborn) => Has(down, Reborn)) /\ Alone(Tail(down), Reborn)
  BY <1>2, HasRead, AloneRead DEF Wish
<1>3. ASSUME evs # <<>>
      PROVE  (Has(Tail(evs), Granted) => Has(evs, Granted)) /\ Alone(Tail(evs), Granted)
  BY <1>3, HasRead, AloneRead DEF Wish
<1> QED BY <1>1, <1>2, <1>3 DEF Wish

\* What is sent of another kind, too.
LEMMA WishSent ==
  ASSUME NEW up, IsSequence(up), NEW down, IsSequence(down), NEW evs, IsSequence(evs),
         NEW asked, Wish(up, down, evs, asked), NEW p
  PROVE  /\ p.kind \notin Asked /\ (p.kind \in Moving => ~Has(up, Asked)) =>
              Wish(Append(up, p), down, evs, asked)
         /\ p.kind \notin Reborn => Wish(up, Append(down, p), evs, asked)
         /\ p.kind \notin Granted => Wish(up, down, Append(evs, p), asked)
<1>1. ASSUME p.kind \notin Asked, p.kind \in Moving => ~Has(up, Asked)
      PROVE  /\ Has(Append(up, p), Asked) => Has(up, Asked)
             /\ Alone(Append(up, p), Asked) /\ NoneAfter(Append(up, p), Asked, Moving)
  BY <1>1, HasAppended, AloneAppended, NoneAfterAppended DEF Wish
<1>2. ASSUME p.kind \notin Reborn
      PROVE  (Has(Append(down, p), Reborn) => Has(down, Reborn)) /\ Alone(Append(down, p), Reborn)
  BY <1>2, HasAppended, AloneAppended DEF Wish
<1>3. ASSUME p.kind \notin Granted
      PROVE  (Has(Append(evs, p), Granted) => Has(evs, Granted)) /\ Alone(Append(evs, p), Granted)
  BY <1>3, HasAppended, AloneAppended DEF Wish
<1> QED BY <1>1, <1>2, <1>3 DEF Wish

\* The wish is sent when none is on its way.
LEMMA WishAsked ==
  ASSUME NEW up, IsSequence(up), NEW down, IsSequence(down), NEW evs, IsSequence(evs),
         Wish(up, down, evs, FALSE), NEW p, p.kind \in Asked
  PROVE  Wish(Append(up, p), down, evs, TRUE)
<1>1. ~Has(up, Asked) /\ ~Has(evs, Granted) /\ ~Has(down, Reborn)
  BY DEF Wish
<1>2. p.kind \notin Moving
  BY DEF Asked, Moving
<1>3. Alone(Append(up, p), Asked) /\ NoneAfter(Append(up, p), Asked, Moving)
  BY <1>1, <1>2, AloneAppended, NoneAfterAppended DEF Wish
<1> QED BY <1>1, <1>3 DEF Wish

\* It becomes an event, no move is behind it,
LEMMA WishGranted ==
  ASSUME NEW up, IsSequence(up), NEW down, IsSequence(down), NEW evs, IsSequence(evs),
         NEW asked, Wish(up, down, evs, asked), up # <<>>, up[1].kind \in Asked,
         NEW e, e.kind \in Granted
  PROVE  Wish(Tail(up), down, Append(evs, e), asked) /\ ~Has(Tail(up), Moving)
<1>1. Has(up, Asked) /\ ~Has(Tail(up), Asked) /\ ~Has(Tail(up), Moving)
  BY HasRead, AloneRead, NoneAfterRead DEF Wish
<1>2. ~Has(evs, Granted) /\ ~Has(down, Reborn) /\ asked
  BY <1>1 DEF Wish
<1>3. Alone(Append(evs, e), Granted)
  BY <1>2, AloneAppended DEF Wish
<1>4. Alone(Tail(up), Asked) /\ NoneAfter(Tail(up), Asked, Moving)
  BY <1>1, NoneIsAlone
<1> QED BY <1>1, <1>2, <1>3, <1>4 DEF Wish

\* the event a packet,
LEMMA WishDispatched ==
  ASSUME NEW up, IsSequence(up), NEW down, IsSequence(down), NEW evs, IsSequence(evs),
         NEW asked, Wish(up, down, evs, asked), evs # <<>>, evs[1].kind \in Granted,
         NEW p, p.kind \in Reborn
  PROVE  Wish(up, Append(down, p), Tail(evs), asked)
<1>1. Has(evs, Granted) /\ ~Has(Tail(evs), Granted)
  BY HasRead, AloneRead DEF Wish
<1>2. ~Has(up, Asked) /\ ~Has(down, Reborn) /\ asked
  BY <1>1 DEF Wish
<1>3. Alone(Append(down, p), Reborn)
  BY <1>2, AloneAppended DEF Wish
<1>4. Alone(Tail(evs), Granted)
  BY <1>1, NoneIsAlone
<1> QED BY <1>1, <1>2, <1>3, <1>4 DEF Wish

\* and with the packet it is fulfilled.
LEMMA WishFulfilled ==
  ASSUME NEW up, IsSequence(up), NEW down, IsSequence(down), NEW evs, IsSequence(evs),
         NEW asked, Wish(up, down, evs, asked), down # <<>>, down[1].kind \in Reborn
  PROVE  Wish(up, Tail(down), evs, FALSE)
<1>1. Has(down, Reborn) /\ ~Has(Tail(down), Reborn)
  BY HasRead, AloneRead DEF Wish
<1>2. ~Has(up, Asked) /\ ~Has(evs, Granted)
  BY <1>1 DEF Wish
<1>3. Alone(Tail(down), Reborn)
  BY <1>1, NoneIsAlone
<1> QED BY <1>1, <1>2, <1>3 DEF Wish

\* The packets that enter Play carry no wish.
LEMMA FirstWish ==
  ASSUME EntersPlay
  PROVE  OneWish'
<1>1. /\ toServer' = <<>> /\ events' = <<>> /\ avatar'.asked = FALSE
  BY DEF EntersPlay, Fresh, NewAvatar
<1>2. PICK a : a = Plain("PlayLogin")
  OBVIOUS
<1>3. PICK b : b = FirstView
  OBVIOUS
<1>4. PICK d : d = Teleport(SpawnTeleport, Spawn)
  OBVIOUS
<1>5. a.kind \notin Reborn /\ b.kind \notin Reborn /\ d.kind \notin Reborn
  BY <1>2, <1>3, <1>4 DEF Plain, Packet, FirstView, View, Teleport, Reborn
<1>6. IsSequence(<<>>) /\ Wish(<<>>, <<>>, <<>>, FALSE)
  BY NoneFacts, HasNothing, NoneIsAlone DEF Wish
<1>7. PICK q1 : q1 = Append(<<>>, a)
  OBVIOUS
<1>8. IsSequence(q1) /\ Wish(<<>>, q1, <<>>, FALSE)
  BY <1>5, <1>6, <1>7, AppendFacts, WishSent
<1>9. PICK q2 : q2 = Append(q1, b)
  OBVIOUS
<1>10. IsSequence(q2) /\ Wish(<<>>, q2, <<>>, FALSE)
  BY <1>5, <1>6, <1>8, <1>9, AppendFacts, WishSent
<1>11. Wish(<<>>, Append(q2, d), <<>>, FALSE)
  BY <1>5, <1>6, <1>10, WishSent
<1>12. toClient' = Append(q2, d)
  BY <1>2, <1>3, <1>4, <1>7, <1>9 DEF EntersPlay
<1> QED BY <1>1, <1>11, <1>12 DEF OneWish

\* A step of the loop.
LEMMA WishInLoop ==
  ASSUME SessionInv, TalkInv, Types, Entered, LoopStep, step' # "ended", ~history'.teleported,
         OneWish
  PROVE  OneWish'
<1>1. /\ IsSequence(toServer) /\ IsSequence(toClient) /\ IsSequence(events)
      /\ UNCHANGED avatar
  BY EnteredFacts, LoopEffect DEF IsSequence
<1>2. PICK up : up = toServer
  OBVIOUS
<1>3. PICK down : down = toClient
  OBVIOUS
<1>4. PICK evs : evs = events
  OBVIOUS
<1>5. PICK asked : asked = avatar.asked
  OBVIOUS
<1>6. /\ Wish(up, down, evs, asked) /\ (avatar'.alive => ~avatar'.asked) /\ avatar'.asked = asked
      /\ IsSequence(up) /\ IsSequence(down) /\ IsSequence(evs)
  BY <1>1, <1>2, <1>3, <1>4, <1>5 DEF OneWish
<1>7. ASSUME NEW q, NEW r, NEW s, toServer' = q, toClient' = r, events' = s,
             Wish(q, r, s, asked)
      PROVE  OneWish'
  BY <1>6, <1>7 DEF OneWish
<1>8. ASSUME TakesFirst PROVE /\ Wish(Tail(up), down, evs, asked) /\ up # <<>>
                              /\ IsSequence(Tail(up)) /\ toServer' = Tail(up)
  BY <1>2, <1>6, <1>8, WishRead, TailFacts DEF TakesFirst
<1>9. ASSUME NEW q, IsSequence(q), NEW s, IsSequence(s), Wish(q, down, s, asked), NEW K,
             SendsOne(K), K \cap Reborn = {}
      PROVE  Wish(q, toClient', s, asked)
  <2>1. PICK p : p.kind \in K /\ toClient' = Append(down, p)
    BY <1>3, <1>9 DEF SendsOne
  <2>2. p.kind \notin Reborn
    BY <1>9, <2>1
  <2> QED BY <1>6, <1>9, <2>1, <2>2, WishSent
<1>10. CASE Boots
  BY <1>3, <1>4, <1>7, <1>8, <1>10 DEF Boots
<1>11. CASE Starts
  <2>1. TakesFirst /\ SendsOne({"View"}) /\ events' = evs
    BY <1>4, <1>11 DEF Starts
  <2>2. Wish(Tail(up), toClient', evs, asked)
    BY <1>6, <1>8, <1>9, <2>1 DEF Reborn
  <2> QED BY <1>7, <1>8, <2>1, <2>2
<1>12. CASE Asks
  <2>1. PICK p : p = Packet("KeepAlive", loop.id)
    OBVIOUS
  <2>2. /\ toServer' = up /\ events' = evs /\ toClient' = Append(down, p)
        /\ p.kind \notin Reborn
    BY <1>2, <1>3, <1>4, <1>12, <2>1 DEF Asks, Packet, Reborn
  <2>3. Wish(up, Append(down, p), evs, asked)
    BY <1>6, <2>2, WishSent
  <2> QED BY <1>7, <2>2, <2>3
<1>13. CASE Hears
  BY <1>3, <1>4, <1>7, <1>8, <1>13 DEF Hears
<1>14. CASE GoesOn
  <2>1. PICK q : q = toServer'
    OBVIOUS
  <2>2. q = up \/ (TakesFirst /\ q = Tail(up))
    BY <1>2, <1>14, <2>1 DEF GoesOn, TakesFirst
  <2>3. IsSequence(q) /\ Wish(q, down, evs, asked)
    BY <1>6, <1>8, <2>2
  <2>4. PICK s : s = events'
    OBVIOUS
  <2>5. IsSequence(s) /\ Wish(q, down, s, asked)
    <3>1. CASE s = evs
      BY <1>6, <2>3, <3>1
    <3>2. ASSUME NEW kind \in {"broadcast", "killed"}, Published(kind, 0)
          PROVE  IsSequence(s) /\ Wish(q, down, s, asked)
      <4>1. PICK e : e = [kind |-> kind, at |-> 0]
        OBVIOUS
      <4>2. s = Append(evs, e) /\ e.kind \notin Granted
        BY <1>4, <2>4, <3>2, <4>1 DEF Published, Granted
      <4> QED BY <1>6, <2>3, <4>2, WishSent, AppendFacts
    <3>3. CASE Published("respawned", Spawn) /\ TakesFirst /\ toServer[1].kind = "ClientCommand"
      <4>1. PICK e : e = [kind |-> "respawned", at |-> Spawn]
        OBVIOUS
      <4>2. /\ s = Append(evs, e) /\ e.kind \in Granted /\ q = Tail(up)
            /\ up # <<>> /\ up[1].kind \in Asked
        BY <1>2, <1>4, <1>8, <2>1, <2>4, <3>3, <4>1 DEF Published, Granted, Asked
      <4>3. IsSequence(s)
        BY <1>6, <4>2, AppendFacts
      <4>4. Wish(Tail(up), down, Append(evs, e), asked)
        BY <1>6, <4>2, WishGranted
      <4> QED BY <4>2, <4>3, <4>4
    <3> QED BY <1>4, <1>14, <2>4, <3>1, <3>2, <3>3 DEF GoesOn
  <2>6. toClient' = down \/ SendsOne({"View", "SystemChat"})
    BY <1>3, <1>14 DEF GoesOn
  <2>7. ASSUME SendsOne({"View", "SystemChat"}) PROVE Wish(q, toClient', s, asked)
    BY <1>9, <2>3, <2>5, <2>7 DEF Reborn
  <2> QED BY <1>7, <2>1, <2>4, <2>5, <2>6, <2>7
<1> QED BY <1>10, <1>11, <1>12, <1>13, <1>14, LoopCases

\* An event that replication dispatches.
LEMMA WishInDispatch ==
  ASSUME TalkInv, Types, Entered, Dispatch, OneWish
  PROVE  OneWish'
<1>1. /\ IsSequence(toServer) /\ IsSequence(toClient) /\ IsSequence(events)
      /\ UNCHANGED <<avatar, toServer>> /\ events # <<>> /\ events' = Tail(events)
  BY EnteredFacts, DispatchEffect DEF IsSequence
<1>2. PICK up : up = toServer
  OBVIOUS
<1>3. PICK down : down = toClient
  OBVIOUS
<1>4. PICK evs : evs = events
  OBVIOUS
<1>5. PICK asked : asked = avatar.asked
  OBVIOUS
<1>6. /\ Wish(up, down, evs, asked) /\ (avatar'.alive => ~avatar'.asked) /\ avatar'.asked = asked
      /\ IsSequence(up) /\ IsSequence(down) /\ IsSequence(evs)
  BY <1>1, <1>2, <1>3, <1>4, <1>5 DEF OneWish
<1>7. PICK t : t = Teleport(TeleportId, events[1].at)
  OBVIOUS
<1>8. PICK r : r = Plain("Respawned")
  OBVIOUS
<1>9. /\ t.kind \notin Reborn /\ r.kind \in Reborn /\ Plain("Died").kind \notin Reborn
      /\ Plain("SystemChat").kind \notin Reborn
  BY <1>7, <1>8 DEF Teleport, Plain, Packet, Reborn
<1>10. \/ \E p : p.kind \notin Reborn /\ toClient' = Append(down, p)
       \/ evs[1].kind \in Granted /\ toClient' = Append(Append(down, r), t)
  BY <1>1, <1>3, <1>4, <1>7, <1>8, <1>9, DispatchEffect DEF Granted
<1>11. PICK s : s = Tail(evs)
  OBVIOUS
<1>12. Wish(up, down, s, asked) /\ IsSequence(s)
  BY <1>1, <1>4, <1>6, <1>11, WishRead, TailFacts
<1>13. ASSUME NEW p, p.kind \notin Reborn, toClient' = Append(down, p) PROVE OneWish'
  <2>1. Wish(up, Append(down, p), s, asked)
    BY <1>6, <1>12, <1>13, WishSent
  <2> QED BY <1>1, <1>2, <1>4, <1>6, <1>11, <1>13, <2>1 DEF OneWish
<1>14. CASE evs[1].kind \in Granted /\ toClient' = Append(Append(down, r), t)
  <2>1. PICK d : d = Append(down, r)
    OBVIOUS
  <2>2. IsSequence(d) /\ Wish(up, d, s, asked)
    BY <1>1, <1>4, <1>6, <1>9, <1>11, <1>14, <2>1, WishDispatched, AppendFacts
  <2>3. Wish(up, Append(d, t), s, asked)
    BY <1>6, <1>9, <1>12, <2>2, WishSent
  <2> QED BY <1>1, <1>2, <1>4, <1>6, <1>11, <1>14, <2>1, <2>3 DEF OneWish
<1> QED BY <1>10, <1>13, <1>14

\* A packet that the client reads.
LEMMA WishInhabited ==
  ASSUME TalkInv, Types, Entered, Inhabit, Enters \/ Lives, ProperLife, OneWish
  PROVE  OneWish'
<1>1. /\ IsSequence(toServer) /\ IsSequence(toClient) /\ IsSequence(events)
      /\ UNCHANGED events /\ toClient # <<>> /\ toClient' = Tail(toClient)
  BY EnteredFacts, LivesAnswers DEF IsSequence
<1>2. PICK up : up = toServer
  OBVIOUS
<1>3. PICK down : down = toClient
  OBVIOUS
<1>4. PICK evs : evs = events
  OBVIOUS
<1>5. PICK asked : asked = avatar.asked
  OBVIOUS
<1>6. /\ Wish(up, down, evs, asked)
      /\ IsSequence(up) /\ IsSequence(down) /\ IsSequence(evs) /\ down # <<>>
  BY <1>1, <1>2, <1>3, <1>4, <1>5 DEF OneWish
<1>7. PICK p : p = down[1]
  OBVIOUS
<1>8. PICK d : d = Tail(down)
  OBVIOUS
<1>9. Wish(up, d, evs, asked) /\ IsSequence(d)
  BY <1>6, <1>8, WishRead, TailFacts
<1>10. CASE p.kind = "PlayLogin" /\ UNCHANGED <<toServer, avatar>>
  BY <1>1, <1>2, <1>3, <1>4, <1>5, <1>8, <1>9, <1>10 DEF OneWish
<1>11. CASE p.kind \in WorldKinds /\ avatar' = AvatarAfter(avatar, p)
  <2>1. /\ avatar'.alive = (IF p.kind = "Died" THEN FALSE
                            ELSE IF p.kind = "Respawned" THEN TRUE ELSE avatar.alive)
        /\ avatar'.asked = (IF p.kind = "Respawned" THEN FALSE ELSE avatar.asked)
    BY <1>3, <1>7, <1>11, AvatarLives, Zenon
  <2>2. CASE p.kind = "Respawned"
    <3>1. Wish(up, d, evs, FALSE)
      BY <1>6, <1>7, <1>8, <2>2, WishFulfilled DEF Reborn
    <3>2. toServer' = up
      BY <1>2, <1>3, <1>7, <2>2, LivesAnswers
    <3> QED BY <1>1, <1>3, <1>4, <1>8, <2>1, <2>2, <3>1, <3>2 DEF OneWish
  <2>3. ASSUME p.kind # "Respawned", NEW q, toServer' = q, Wish(q, d, evs, asked)
        PROVE  OneWish'
    <3>1. avatar'.asked = asked /\ (avatar'.alive => ~avatar'.asked)
      BY <1>5, <2>1, <2>3 DEF OneWish
    <3> QED BY <1>1, <1>3, <1>4, <1>8, <2>3, <3>1 DEF OneWish
  <2>4. CASE p.kind \in {"SystemChat", "Died"}
    <3>1. toServer' = up
      BY <1>2, <1>3, <1>7, <2>4, LivesAnswers
    <3> QED BY <1>9, <2>3, <2>4, <3>1
  <2>5. ASSUME NEW r, r.kind \notin Asked, r.kind \notin Moving, toServer' = Append(up, r),
               p.kind # "Respawned"
        PROVE  OneWish'
    <3>1. Wish(Append(up, r), d, evs, asked)
      BY <1>6, <1>9, <2>5, WishSent
    <3> QED BY <2>3, <2>5, <3>1
  <2>6. CASE p.kind = "View"
    <3>1. toServer' = Append(up, Packet("ChunkBatch", 1))
      BY <1>2, <1>3, <1>7, <2>6, LivesAnswers
    <3> QED BY <2>5, <2>6, <3>1 DEF Packet, Asked, Moving
  <2>7. CASE p.kind = "KeepAlive"
    <3>1. toServer' = Append(up, Packet("KeepAlive", p.n))
      BY <1>2, <1>3, <1>7, <2>7, LivesAnswers
    <3> QED BY <2>5, <2>7, <3>1 DEF Packet, Asked, Moving
  <2>8. CASE p.kind = "Teleport"
    <3>1. PICK a : a = Packet("Accept", p.n)
      OBVIOUS
    <3>2. PICK m : m = Packet("Move", p.to)
      OBVIOUS
    <3>3. toServer' = Append(Append(up, a), m)
      BY <1>2, <1>3, <1>7, <2>8, <3>1, <3>2, LivesAnswers
    <3>4. /\ a.kind \notin Asked /\ a.kind \notin Moving /\ m.kind \notin Asked
      BY <3>1, <3>2 DEF Packet, Asked, Moving
    <3>5. PICK q : q = Append(up, a)
      OBVIOUS
    <3>6. IsSequence(q) /\ Wish(q, d, evs, asked)
      BY <1>6, <1>9, <3>4, <3>5, WishSent, AppendFacts
    <3>7. avatar.alive
      BY <1>1, <1>3, <1>7, <2>8, TeleportedAlive
    <3>8. ~Has(up, Asked)
      BY <1>5, <1>6, <3>7 DEF OneWish, Wish
    <3>9. ~Has(q, Asked)
      BY <1>6, <3>4, <3>5, <3>8, HasAppended
    <3>10. Wish(Append(q, m), d, evs, asked)
      BY <1>6, <1>9, <3>4, <3>6, <3>9, WishSent
    <3> QED BY <2>3, <2>8, <3>3, <3>5, <3>10
  <2> QED BY <1>11, <2>2, <2>4, <2>6, <2>7, <2>8 DEF WorldKinds
<1> QED BY <1>3, <1>7, <1>10, <1>11, LivesAnswers DEF WorldKinds

\* A wish to respawn, through every step.
LEMMA WishKept ==
  ASSUME SessionInv, TalkInv, Types, Types', [Next]_vars, Honest', Honest => ProperLife /\ OneWish
  PROVE  OneWish'
<1>1. CASE EntersPlay
  BY <1>1, FirstWish
<1> SUFFICES ASSUME Honest PROVE OneWish'
  BY <1>1, StepsOfTheHonest
<1>2. Entered /\ step' # "ended" /\ ~history'.teleported
  BY DEF Honest, Entered, InPlay
<1>3. CASE LoopStep
  BY <1>2, <1>3, WishInLoop
<1>4. CASE Dispatch
  BY <1>2, <1>4, WishInDispatch
<1>5. CASE Inhabit /\ (Enters \/ Lives)
  BY <1>2, <1>5, WishInhabited
<1>6. PICK up : up = toServer
  OBVIOUS
<1>7. PICK down : down = toClient
  OBVIOUS
<1>8. PICK evs : evs = events
  OBVIOUS
<1>9. PICK asked : asked = avatar.asked
  OBVIOUS
<1>10. /\ Wish(up, down, evs, asked)
       /\ IsSequence(up) /\ IsSequence(down) /\ IsSequence(evs)
  BY <1>2, <1>6, <1>7, <1>8, <1>9, EnteredFacts DEF OneWish, IsSequence
<1>11. CASE KilledFromOutside
  <2>1. UNCHANGED <<toServer, toClient, avatar>> /\ (events' = evs \/ Published("killed", 0))
    BY <1>8, <1>11 DEF KilledFromOutside, Kills
  <2>2. ASSUME Published("killed", 0) PROVE Wish(up, down, events', asked)
    <3>1. PICK e : e = [kind |-> "killed", at |-> 0]
      OBVIOUS
    <3>2. events' = Append(evs, e) /\ e.kind \notin Granted
      BY <1>8, <2>2, <3>1 DEF Published, Granted
    <3> QED BY <1>10, <3>2, WishSent
  <2> QED BY <1>6, <1>7, <1>9, <1>10, <2>1, <2>2 DEF OneWish
<1>12. ASSUME NEW p, Acts(p) PROVE OneWish'
  <2>1. /\ UNCHANGED <<toClient, events>> /\ toServer' = Append(up, p)
        /\ avatar'.alive = avatar.alive
        /\ p.kind # "ClientCommand" => avatar'.asked = asked
        /\ p.kind = "ClientCommand" => ~avatar.alive /\ ~asked /\ avatar'.asked
        /\ p.kind = "Move" => avatar.alive
    BY <1>6, <1>9, <1>12 DEF Acts, ActsAlone, AvatarActs
  <2>2. CASE p.kind = "ClientCommand"
    <3>1. asked = FALSE /\ avatar'.asked = TRUE
      BY <1>9, <1>12, <2>1, <2>2 DEF Types, AvatarTypes, Acts, ActsAlone
    <3>2. Wish(up, down, evs, FALSE) /\ p.kind \in Asked
      BY <1>10, <2>2, <3>1 DEF Asked
    <3>3. Wish(Append(up, p), down, evs, TRUE)
      BY <1>10, <3>2, WishAsked
    <3> QED BY <1>7, <1>8, <2>1, <2>2, <3>1, <3>3 DEF OneWish
  <2>3. CASE p.kind # "ClientCommand"
    <3>1. p.kind \in Moving => ~Has(up, Asked)
      BY <1>9, <1>10, <2>1 DEF OneWish, Wish, Moving
    <3>2. Wish(Append(up, p), down, evs, asked)
      BY <1>10, <2>3, <3>1, WishSent DEF Asked
    <3> QED BY <1>7, <1>8, <1>9, <2>1, <2>3, <3>2 DEF OneWish
  <2> QED BY <2>2, <2>3
<1>13. CASE UNCHANGED vars
  BY <1>13 DEF vars, connVars, playVars, OneWish
<1> QED BY <1>1, <1>3, <1>4, <1>5, <1>11, <1>12, <1>13, StepsOfTheHonest

\* What a step of the loop reads, sends and publishes.
LEMMA LoopQueues ==
  ASSUME SessionInv, TalkInv, Types, Entered, LoopStep, step' # "ended", ~history'.teleported
  PROVE  /\ toServer' = toServer \/ TakesFirst
         /\ toClient' = toClient \/ SendsOne({"View", "SystemChat", "KeepAlive"})
         /\ \/ UNCHANGED events
            \/ \E kind \in {"broadcast", "killed"} : Published(kind, 0)
            \/ /\ Published("respawned", Spawn) /\ TakesFirst /\ step # "bootstrap"
               /\ toServer[1].kind = "ClientCommand"
<1>1. ASSUME NEW K, K \subseteq {"View", "SystemChat", "KeepAlive"}, SendsOne(K)
      PROVE  SendsOne({"View", "SystemChat", "KeepAlive"})
  <2>1. PICK p : p.kind \in K /\ toClient' = Append(toClient, p)
    BY <1>1 DEF SendsOne
  <2>2. p.kind \in {"View", "SystemChat", "KeepAlive"}
    BY <1>1, <2>1
  <2> QED BY <2>1, <2>2 DEF SendsOne
<1>2. CASE Boots
  BY <1>2 DEF Boots
<1>3. CASE Starts
  <2>1. SendsOne({"View"})
    BY <1>3 DEF Starts
  <2>2. SendsOne({"View", "SystemChat", "KeepAlive"})
    BY <1>1, <2>1
  <2> QED BY <1>3, <2>2 DEF Starts
<1>4. CASE Asks
  <2>1. PICK p : p = Packet("KeepAlive", loop.id)
    OBVIOUS
  <2>2. p.kind = "KeepAlive" /\ toClient' = Append(toClient, p)
    BY <1>4, <2>1 DEF Asks, Packet
  <2>3. SendsOne({"View", "SystemChat", "KeepAlive"})
    BY <2>2 DEF SendsOne
  <2> QED BY <1>4, <2>3 DEF Asks
<1>5. CASE Hears
  BY <1>5 DEF Hears
<1>6. CASE GoesOn
  <2>1. SendsOne({"View", "SystemChat"}) => SendsOne({"View", "SystemChat", "KeepAlive"})
    BY <1>1
  <2> QED BY <1>6, <2>1 DEF GoesOn
<1> QED BY <1>2, <1>3, <1>4, <1>5, <1>6, LoopCases

---------------------------------------------------------------------------
\* The teleports on their way are those to the spawn.
Addressed(down, evs) ==
  /\ Carries(down, {"Teleport"}, "to", Spawn)
  /\ ~Has(evs, {"teleported"}) /\ Carries(evs, Granted, "at", Spawn)
HomeOnly == Addressed(toClient, events)

\* What is read, and what is left.
LEMMA AddressRead ==
  ASSUME NEW down, IsSequence(down), NEW evs, IsSequence(evs), Addressed(down, evs)
  PROVE  /\ down # <<>> =>
              /\ Addressed(Tail(down), evs)
              /\ down[1].kind = "Teleport" => down[1].to = Spawn
         /\ evs # <<>> =>
              /\ Addressed(down, Tail(evs)) /\ evs[1].kind # "teleported"
              /\ evs[1].kind \in Granted => evs[1].at = Spawn
<1>1. ASSUME down # <<>>
      PROVE  Carries(Tail(down), {"Teleport"}, "to", Spawn)
               /\ (down[1].kind = "Teleport" => down[1].to = Spawn)
  BY <1>1, CarriesRead DEF Addressed
<1>2. ASSUME evs # <<>>
      PROVE  /\ ~Has(Tail(evs), {"teleported"}) /\ Carries(Tail(evs), Granted, "at", Spawn)
             /\ evs[1].kind # "teleported" /\ (evs[1].kind \in Granted => evs[1].at = Spawn)
  BY <1>2, CarriesRead, HasRead DEF Addressed
<1> QED BY <1>1, <1>2 DEF Addressed

\* What is sent.
LEMMA AddressSent ==
  ASSUME NEW down, IsSequence(down), NEW evs, IsSequence(evs), Addressed(down, evs), NEW p
  PROVE  /\ (p.kind = "Teleport" => p.to = Spawn) => Addressed(Append(down, p), evs)
         /\ p.kind # "teleported" /\ (p.kind \in Granted => p.at = Spawn) =>
              Addressed(down, Append(evs, p))
<1>1. ASSUME p.kind = "Teleport" => p.to = Spawn
      PROVE  Carries(Append(down, p), {"Teleport"}, "to", Spawn)
  <2>1. p.kind \in {"Teleport"} => p["to"] = Spawn
    BY <1>1
  <2> QED BY <2>1, CarriesAppended DEF Addressed
<1>2. ASSUME p.kind # "teleported", p.kind \in Granted => p.at = Spawn
      PROVE  ~Has(Append(evs, p), {"teleported"}) /\ Carries(Append(evs, p), Granted, "at", Spawn)
  <2>1. p.kind \in Granted => p["at"] = Spawn
    BY <1>2
  <2> QED BY <1>2, <2>1, CarriesAppended, HasAppended DEF Addressed
<1> QED BY <1>1, <1>2 DEF Addressed

\* The packets that enter Play.
LEMMA FirstAddress ==
  ASSUME EntersPlay
  PROVE  HomeOnly'
<1>2. PICK a : a = Plain("PlayLogin")
  OBVIOUS
<1>3. PICK b : b = FirstView
  OBVIOUS
<1>4. PICK d : d = Teleport(SpawnTeleport, Spawn)
  OBVIOUS
<1>5. a.kind # "Teleport" /\ b.kind # "Teleport" /\ d.to = Spawn
  BY <1>2, <1>3, <1>4 DEF Plain, Packet, FirstView, View, Teleport
<1>6. IsSequence(<<>>) /\ Addressed(<<>>, <<>>)
  BY NoneFacts, HasNothing, NoneIsAlone DEF Addressed
<1>7. PICK q1 : q1 = Append(<<>>, a)
  OBVIOUS
<1>8. IsSequence(q1) /\ Addressed(q1, <<>>)
  BY <1>5, <1>6, <1>7, AppendFacts, AddressSent
<1>9. PICK q2 : q2 = Append(q1, b)
  OBVIOUS
<1>10. IsSequence(q2) /\ Addressed(q2, <<>>)
  BY <1>5, <1>6, <1>8, <1>9, AppendFacts, AddressSent
<1>11. Addressed(Append(q2, d), <<>>)
  BY <1>5, <1>6, <1>10, AddressSent
<1>12. toClient' = Append(q2, d) /\ events' = <<>>
  BY <1>2, <1>3, <1>4, <1>7, <1>9 DEF EntersPlay, Fresh
<1> QED BY <1>11, <1>12 DEF HomeOnly

\* Through every step.
LEMMA AddressKept ==
  ASSUME SessionInv, TalkInv, Types, Types', [Next]_vars, Honest', Honest => HomeOnly
  PROVE  HomeOnly'
<1>1. CASE EntersPlay
  BY <1>1, FirstAddress
<1> SUFFICES ASSUME Honest PROVE HomeOnly'
  BY <1>1, StepsOfTheHonest
<1>2. Entered /\ step' # "ended" /\ ~history'.teleported
  BY DEF Honest, Entered, InPlay
<1>3. PICK down : down = toClient
  OBVIOUS
<1>4. PICK evs : evs = events
  OBVIOUS
<1>5. Addressed(down, evs) /\ IsSequence(down) /\ IsSequence(evs)
  BY <1>2, <1>3, <1>4, EnteredFacts DEF HomeOnly, IsSequence
<1>6. ASSUME NEW kind, NEW at, kind # "teleported", kind \in Granted => at = Spawn,
             Published(kind, at), NEW d, IsSequence(d), Addressed(d, evs)
      PROVE  Addressed(d, events')
  <2>1. PICK e : e = [kind |-> kind, at |-> at]
    OBVIOUS
  <2>2. /\ events' = Append(evs, e) /\ e.kind # "teleported"
        /\ e.kind \in Granted => e.at = Spawn
    BY <1>4, <1>6, <2>1 DEF Published
  <2> QED BY <1>5, <1>6, <2>2, AddressSent
<1>7. CASE LoopStep
  <2>1. /\ toClient' = down \/ SendsOne({"View", "SystemChat", "KeepAlive"})
        /\ \/ UNCHANGED events
           \/ \E kind \in {"broadcast", "killed"} : Published(kind, 0)
           \/ Published("respawned", Spawn)
    BY <1>2, <1>3, <1>7, LoopQueues
  <2>2. PICK d : d = toClient'
    OBVIOUS
  <2>3. IsSequence(d) /\ Addressed(d, evs)
    <3>1. ASSUME NEW p, p.kind \in {"View", "SystemChat", "KeepAlive"}, d = Append(down, p)
          PROVE  IsSequence(d) /\ Addressed(d, evs)
      BY <1>5, <3>1, AppendFacts, AddressSent
    <3> QED BY <1>3, <1>5, <2>1, <2>2, <3>1 DEF SendsOne
  <2>4. Addressed(d, events')
    <3>1. CASE UNCHANGED events
      BY <1>4, <2>3, <3>1
    <3>2. ASSUME NEW kind \in {"broadcast", "killed"}, Published(kind, 0)
          PROVE  Addressed(d, events')
      BY <1>6, <2>3, <3>2 DEF Granted
    <3>3. CASE Published("respawned", Spawn)
      BY <1>6, <2>3, <3>3
    <3> QED BY <2>1, <3>1, <3>2, <3>3
  <2> QED BY <2>2, <2>4 DEF HomeOnly
<1>8. CASE KilledFromOutside
  <2>1. UNCHANGED toClient /\ (events' = evs \/ Published("killed", 0))
    BY <1>4, <1>8 DEF KilledFromOutside, Kills
  <2>2. Addressed(down, events')
    BY <1>5, <1>6, <2>1 DEF Granted
  <2> QED BY <1>3, <2>1, <2>2 DEF HomeOnly
<1>9. CASE Dispatch
  <2>1. /\ evs # <<>> /\ events' = Tail(evs)
    BY <1>2, <1>4, <1>5, <1>9, EnteredFacts, DispatchEffect DEF IsSequence
  <2>2. PICK t : t = Teleport(TeleportId, events[1].at)
    OBVIOUS
  <2>3. PICK r : r = Plain("Respawned")
    OBVIOUS
  <2>4. PICK s : s = Tail(evs)
    OBVIOUS
  <2>5. /\ IsSequence(s) /\ Addressed(down, s) /\ evs[1].kind # "teleported"
        /\ evs[1].kind \in Granted => evs[1].at = Spawn
    BY <1>5, <2>1, <2>4, AddressRead, TailFacts
  <2>6. /\ r.kind # "Teleport" /\ Plain("Died").kind # "Teleport"
        /\ Plain("SystemChat").kind # "Teleport"
    BY <2>3 DEF Plain, Packet
  <2>7. ASSUME NEW p, p.kind # "Teleport", toClient' = Append(down, p) PROVE HomeOnly'
    <3>1. Addressed(Append(down, p), s)
      BY <1>5, <2>5, <2>7, AddressSent
    <3> QED BY <2>1, <2>4, <2>7, <3>1 DEF HomeOnly
  <2>8. CASE evs[1].kind \in Granted /\ toClient' = Append(Append(down, r), t)
    <3>1. t.to = Spawn
      BY <1>4, <2>2, <2>5, <2>8 DEF Teleport
    <3>2. PICK d : d = Append(down, r)
      OBVIOUS
    <3>3. IsSequence(d) /\ Addressed(d, s)
      BY <1>5, <2>5, <2>6, <3>2, AppendFacts, AddressSent
    <3>4. Addressed(Append(d, t), s)
      BY <2>5, <3>1, <3>3, AddressSent
    <3> QED BY <2>1, <2>4, <2>8, <3>2, <3>4 DEF HomeOnly
  <2>9. \/ toClient' = Append(down, Plain("Died"))
        \/ toClient' = Append(down, Plain("SystemChat"))
        \/ evs[1].kind \in Granted /\ toClient' = Append(Append(down, r), t)
    BY <1>2, <1>3, <1>4, <1>9, <2>2, <2>3, <2>5, EnteredFacts, DispatchEffect DEF Granted
  <2> QED BY <2>6, <2>7, <2>8, <2>9
<1>10. CASE Inhabit /\ (Enters \/ Lives)
  <2>1. down # <<>> /\ toClient' = Tail(down) /\ events' = evs
    BY <1>2, <1>3, <1>4, <1>10, LivesAnswers
  <2> QED BY <1>5, <2>1, AddressRead DEF HomeOnly
<1>11. ASSUME NEW p, Acts(p) PROVE HomeOnly'
  BY <1>3, <1>4, <1>5, <1>11 DEF Acts, ActsAlone, HomeOnly
<1>12. CASE UNCHANGED vars
  BY <1>12 DEF vars, connVars, playVars, HomeOnly
<1> QED BY <1>1, <1>7, <1>8, <1>9, <1>10, <1>11, <1>12, StepsOfTheHonest

\* The steps after which the bootstrap goes on.
LEMMA StepsOfTheBootstrap ==
  ASSUME SessionInv, TalkInv, Types, Types', [Next]_vars, Honest', step' = "bootstrap"
  PROVE  \/ EntersPlay
         \/ /\ Honest /\ step = "bootstrap"
            /\ \/ /\ Boots /\ ReadBootstrap /\ UNCHANGED avatar
                  /\ history'.acts = history.acts
               \/ KilledFromOutside \/ Dispatch
               \/ Inhabit /\ (Enters \/ Lives)
               \/ \E p : Acts(p)
               \/ UNCHANGED vars
<1>1. SUFFICES ASSUME Honest, ~EntersPlay
      PROVE  /\ step = "bootstrap"
             /\ \/ /\ Boots /\ ReadBootstrap /\ UNCHANGED avatar
                   /\ history'.acts = history.acts
                \/ KilledFromOutside \/ Dispatch
                \/ Inhabit /\ (Enters \/ Lives)
                \/ \E p : Acts(p)
                \/ UNCHANGED vars
  BY StepsOfTheHonest
<1>2. Entered /\ step' # "ended" /\ ~history'.teleported /\ conforms
  BY <1>1 DEF Honest, Entered, InPlay
<1>3. CASE LoopStep
  <2>1. Boots
    BY <1>2, <1>3, LoopCases DEF Starts, Asks, Hears, GoesOn
  <2>2. step = "bootstrap"
    BY <2>1 DEF Boots
  <2>3. ReadBootstrap
    BY <1>2, <1>3, <2>2
       DEF LoopStep, Request, ReadAnswer, ReadTick, ReadUndecodable, ReadHarmless, ReadChat,
           ReadCommand, ReadUnknown, ReadMovement, Synchronize, ReadRespawn, PlayEnds, Fails, Ends,
           Gets, Reads
  <2>4. UNCHANGED avatar /\ history'.acts = history.acts
    BY <1>3, LoopEffect, LoopsHistory
  <2> QED BY <2>1, <2>2, <2>3, <2>4
<1>4. CASE KilledFromOutside
  BY <1>4 DEF KilledFromOutside
<1>5. CASE Dispatch
  BY <1>5 DEF Dispatch
<1>6. CASE Inhabit /\ (Enters \/ Lives)
  <2>1. UNCHANGED step
    BY <1>2, <1>6, LivesAnswers
  <2> QED BY <1>6, <2>1
<1>7. ASSUME NEW p, Acts(p) PROVE step = "bootstrap"
  BY <1>7 DEF Acts, ActsAlone
<1>8. CASE UNCHANGED vars
  BY <1>8 DEF vars, connVars
<1> QED BY <1>1, <1>3, <1>4, <1>5, <1>6, <1>7, <1>8, StepsOfTheHonest

---------------------------------------------------------------------------
\* In the bootstrap no player respawns, and the only teleport that is sent or
\* acknowledged is the first one.
FirstTeleport(up, down, evs) ==
  /\ ~Has(evs, Granted) /\ ~Has(down, Reborn)
  /\ Carries(down, {"Teleport"}, "n", SpawnTeleport)
  /\ Carries(up, {"Accept"}, "n", SpawnTeleport)
OnlyFirstTeleport == step = "bootstrap" => FirstTeleport(toServer, toClient, events)

\* What is read, and what is left.
LEMMA FirstTeleportRead ==
  ASSUME NEW up, IsSequence(up), NEW down, IsSequence(down), NEW evs, IsSequence(evs),
         FirstTeleport(up, down, evs)
  PROVE  /\ up # <<>> =>
              /\ FirstTeleport(Tail(up), down, evs)
              /\ up[1].kind = "Accept" => up[1].n = SpawnTeleport
         /\ down # <<>> =>
              /\ FirstTeleport(up, Tail(down), evs) /\ down[1].kind # "Respawned"
              /\ down[1].kind = "Teleport" => down[1].n = SpawnTeleport
         /\ evs # <<>> => FirstTeleport(up, down, Tail(evs)) /\ evs[1].kind # "respawned"
<1>1. ASSUME up # <<>>
      PROVE  /\ Carries(Tail(up), {"Accept"}, "n", SpawnTeleport)
             /\ up[1].kind = "Accept" => up[1].n = SpawnTeleport
  BY <1>1, CarriesRead DEF FirstTeleport
<1>2. ASSUME down # <<>>
      PROVE  /\ Carries(Tail(down), {"Teleport"}, "n", SpawnTeleport) /\ ~Has(Tail(down), Reborn)
             /\ down[1].kind # "Respawned"
             /\ down[1].kind = "Teleport" => down[1].n = SpawnTeleport
  BY <1>2, CarriesRead, HasRead DEF FirstTeleport, Reborn
<1>3. ASSUME evs # <<>>
      PROVE  ~Has(Tail(evs), Granted) /\ evs[1].kind # "respawned"
  BY <1>3, HasRead DEF FirstTeleport, Granted
<1> QED BY <1>1, <1>2, <1>3 DEF FirstTeleport

\* What is sent.
LEMMA FirstTeleportSent ==
  ASSUME NEW up, IsSequence(up), NEW down, IsSequence(down), NEW evs, IsSequence(evs),
         FirstTeleport(up, down, evs), NEW p
  PROVE  /\ (p.kind = "Accept" => p.n = SpawnTeleport) => FirstTeleport(Append(up, p), down, evs)
         /\ p.kind # "Respawned" /\ (p.kind = "Teleport" => p.n = SpawnTeleport) =>
              FirstTeleport(up, Append(down, p), evs)
         /\ p.kind # "respawned" => FirstTeleport(up, down, Append(evs, p))
<1>1. ASSUME p.kind = "Accept" => p.n = SpawnTeleport
      PROVE  Carries(Append(up, p), {"Accept"}, "n", SpawnTeleport)
  <2>1. p.kind \in {"Accept"} => p["n"] = SpawnTeleport
    BY <1>1
  <2> QED BY <2>1, CarriesAppended DEF FirstTeleport
<1>2. ASSUME p.kind # "Respawned", p.kind = "Teleport" => p.n = SpawnTeleport
      PROVE  /\ Carries(Append(down, p), {"Teleport"}, "n", SpawnTeleport)
             /\ ~Has(Append(down, p), Reborn)
  <2>1. p.kind \in {"Teleport"} => p["n"] = SpawnTeleport
    BY <1>2
  <2> QED BY <1>2, <2>1, CarriesAppended, HasAppended DEF FirstTeleport, Reborn
<1>3. ASSUME p.kind # "respawned" PROVE ~Has(Append(evs, p), Granted)
  BY <1>3, HasAppended DEF FirstTeleport, Granted
<1> QED BY <1>1, <1>2, <1>3 DEF FirstTeleport

\* The packets that enter Play.
LEMMA TheFirstTeleport ==
  ASSUME EntersPlay
  PROVE  OnlyFirstTeleport'
<1>2. PICK a : a = Plain("PlayLogin")
  OBVIOUS
<1>3. PICK b : b = FirstView
  OBVIOUS
<1>4. PICK d : d = Teleport(SpawnTeleport, Spawn)
  OBVIOUS
<1>5. /\ a.kind = "PlayLogin" /\ b.kind = "View"
      /\ d.kind = "Teleport" /\ d.n = SpawnTeleport
  BY <1>2, <1>3, <1>4 DEF Plain, Packet, FirstView, View, Teleport
<1>6. IsSequence(<<>>) /\ FirstTeleport(<<>>, <<>>, <<>>)
  BY NoneFacts, HasNothing, NoneIsAlone DEF FirstTeleport
<1>7. PICK q1 : q1 = Append(<<>>, a)
  OBVIOUS
<1>8. IsSequence(q1) /\ FirstTeleport(<<>>, q1, <<>>)
  BY <1>5, <1>6, <1>7, AppendFacts, FirstTeleportSent
<1>9. PICK q2 : q2 = Append(q1, b)
  OBVIOUS
<1>10. IsSequence(q2) /\ FirstTeleport(<<>>, q2, <<>>)
  BY <1>5, <1>6, <1>8, <1>9, AppendFacts, FirstTeleportSent
<1>11. FirstTeleport(<<>>, Append(q2, d), <<>>)
  BY <1>5, <1>6, <1>10, FirstTeleportSent
<1>12. toClient' = Append(q2, d) /\ events' = <<>> /\ toServer' = <<>>
  BY <1>2, <1>3, <1>4, <1>7, <1>9 DEF EntersPlay, Fresh
<1> QED BY <1>11, <1>12 DEF OnlyFirstTeleport

\* Through every step.
LEMMA FirstTeleportKept ==
  ASSUME SessionInv, TalkInv, Types, Types', [Next]_vars, Honest',
         Honest => OnlyFirstTeleport /\ HomeOnly
  PROVE  OnlyFirstTeleport'
<1> SUFFICES ASSUME step' = "bootstrap" PROVE OnlyFirstTeleport'
  BY DEF OnlyFirstTeleport
<1>1. CASE EntersPlay
  BY <1>1, TheFirstTeleport
<1> SUFFICES ASSUME Honest, step = "bootstrap" PROVE OnlyFirstTeleport'
  BY <1>1, StepsOfTheBootstrap
<1>2. Entered
  BY DEF Honest
<1>3. PICK up : up = toServer
  OBVIOUS
<1>4. PICK down : down = toClient
  OBVIOUS
<1>5. PICK evs : evs = events
  OBVIOUS
<1>6. /\ FirstTeleport(up, down, evs) /\ Addressed(down, evs)
      /\ IsSequence(up) /\ IsSequence(down) /\ IsSequence(evs)
  BY <1>2, <1>3, <1>4, <1>5, EnteredFacts DEF OnlyFirstTeleport, HomeOnly, IsSequence
<1>7. ASSUME NEW q, NEW r, NEW s, toServer' = q, toClient' = r, events' = s,
             FirstTeleport(q, r, s)
      PROVE  OnlyFirstTeleport'
  BY <1>7 DEF OnlyFirstTeleport
<1>8. CASE Boots
  BY <1>3, <1>4, <1>5, <1>6, <1>7, <1>8, FirstTeleportRead DEF Boots, TakesFirst
<1>9. CASE KilledFromOutside
  <2>1. /\ UNCHANGED <<toServer, toClient>>
        /\ events' = evs \/ events' = Append(evs, [kind |-> "killed", at |-> 0])
    BY <1>5, <1>9 DEF KilledFromOutside, Kills, Published
  <2>2. PICK e : e = [kind |-> "killed", at |-> 0]
    OBVIOUS
  <2>3. FirstTeleport(up, down, Append(evs, e))
    BY <1>6, <2>2, FirstTeleportSent
  <2> QED BY <1>3, <1>4, <1>6, <1>7, <2>1, <2>2, <2>3
<1>10. CASE Dispatch
  <2>1. UNCHANGED toServer /\ evs # <<>> /\ events' = Tail(evs)
    BY <1>2, <1>4, <1>5, <1>6, <1>10, DispatchEffect
  <2>2. evs[1].kind # "teleported" /\ evs[1].kind # "respawned"
    BY <1>6, <2>1, AddressRead, FirstTeleportRead
  <2>3. PICK p : p.kind \in {"Died", "SystemChat"} /\ toClient' = Append(down, p)
    <3>1. toClient' = Append(down, Plain("Died")) \/ toClient' = Append(down, Plain("SystemChat"))
      BY <1>2, <1>4, <1>5, <1>6, <1>10, <2>2, DispatchEffect
    <3>2. Plain("Died").kind = "Died" /\ Plain("SystemChat").kind = "SystemChat"
      BY DEF Plain, Packet
    <3> QED BY <3>1, <3>2
  <2>4. PICK s : s = Tail(evs)
    OBVIOUS
  <2>5. IsSequence(s) /\ FirstTeleport(up, down, s)
    BY <1>6, <2>1, <2>4, TailFacts, FirstTeleportRead
  <2>6. FirstTeleport(up, Append(down, p), s)
    BY <1>6, <2>3, <2>5, FirstTeleportSent
  <2> QED BY <1>3, <1>7, <2>1, <2>3, <2>4, <2>6
<1>11. CASE Inhabit /\ (Enters \/ Lives)
  <2>1. down # <<>> /\ toClient' = Tail(down) /\ events' = evs
    BY <1>2, <1>4, <1>5, <1>11, LivesAnswers
  <2>2. PICK p : p = down[1]
    OBVIOUS
  <2>3. PICK d : d = Tail(down)
    OBVIOUS
  <2>4. /\ IsSequence(d) /\ FirstTeleport(up, d, evs)
        /\ p.kind = "Teleport" => p.n = SpawnTeleport
    BY <1>6, <2>1, <2>2, <2>3, TailFacts, FirstTeleportRead
  <2>5. \/ toServer' = up
        \/ toServer' = Append(up, Packet("ChunkBatch", 1))
        \/ toServer' = Append(up, Packet("KeepAlive", p.n))
        \/ /\ p.kind = "Teleport"
           /\ toServer' = Append(Append(up, Packet("Accept", p.n)), Packet("Move", p.to))
    BY <1>2, <1>3, <1>4, <1>11, <2>2, LivesAnswers
  <2>6. ASSUME NEW r, r.kind # "Accept", toServer' = Append(up, r) PROVE OnlyFirstTeleport'
    <3>1. FirstTeleport(Append(up, r), d, evs)
      BY <1>6, <2>4, <2>6, FirstTeleportSent
    <3> QED BY <1>7, <2>1, <2>3, <2>6, <3>1
  <2>7. CASE /\ p.kind = "Teleport"
             /\ toServer' = Append(Append(up, Packet("Accept", p.n)), Packet("Move", p.to))
    <3>1. PICK a : a = Packet("Accept", p.n)
      OBVIOUS
    <3>2. PICK m : m = Packet("Move", p.to)
      OBVIOUS
    <3>3. a.n = SpawnTeleport /\ m.kind # "Accept"
      BY <2>4, <2>7, <3>1, <3>2 DEF Packet
    <3>4. PICK q : q = Append(up, a)
      OBVIOUS
    <3>5. IsSequence(q) /\ FirstTeleport(q, d, evs)
      BY <1>6, <2>4, <3>3, <3>4, AppendFacts, FirstTeleportSent
    <3>6. FirstTeleport(Append(q, m), d, evs)
      BY <1>6, <2>4, <3>3, <3>5, FirstTeleportSent
    <3> QED BY <1>7, <2>1, <2>3, <2>7, <3>1, <3>2, <3>4, <3>6
  <2>8. Packet("ChunkBatch", 1).kind # "Accept" /\ Packet("KeepAlive", p.n).kind # "Accept"
    BY DEF Packet
  <2> QED BY <1>7, <2>1, <2>3, <2>4, <2>5, <2>6, <2>7, <2>8
<1>12. ASSUME NEW p, Acts(p) PROVE OnlyFirstTeleport'
  <2>1. UNCHANGED <<toClient, events>> /\ toServer' = Append(up, p) /\ p.kind # "Accept"
    BY <1>3, <1>12 DEF Acts, ActsAlone, AvatarActs
  <2>2. FirstTeleport(Append(up, p), down, evs)
    BY <1>6, <2>1, FirstTeleportSent
  <2> QED BY <1>4, <1>5, <1>7, <2>1, <2>2
<1>13. CASE UNCHANGED vars
  BY <1>13 DEF vars, connVars, playVars, OnlyFirstTeleport
<1> QED BY <1>1, <1>8, <1>9, <1>10, <1>11, <1>12, <1>13, StepsOfTheBootstrap

---------------------------------------------------------------------------
\* Without the packet that has it reborn, a player on its feet is not
\* teleported, and one that is dead stays dead.
LEMMA OnItsFeet ==
  ASSUME NEW q, IsSequence(q), NEW s \in {"up", "down"}, NEW x, Becomes(q, s, x, ProperSteps),
         ~Has(q, Reborn)
  PROVE  ~Has(q, {"Teleport"})
<1>1. PICK t : /\ t[0] = s /\ t[Len(q)] = x
               /\ \A i \in 1 .. Len(q) : <<t[i - 1], q[i].kind, t[i]>> \in ProperSteps
  BY DEF Becomes
<1>2. PICK n \in Nat : n = Len(q)
  BY LenProperties DEF IsSequence
<1>3. ASSUME NEW i \in 0 .. n, t[i] \notin {"up", "down"} PROVE FALSE
  <2>1. PICK T : T = {k \in 0 .. n : t[k] \notin {"up", "down"}}
    OBVIOUS
  <2>2. T \in SUBSET Nat /\ T # {}
    BY <1>3, <2>1
  <2>3. PICK m \in T : \A k \in T : ~(k < m)
    BY <2>2, SmallestIndex
  <2>4. m \in 1 .. n /\ m - 1 \in 0 .. n /\ m - 1 < m
    BY <1>1, <2>1, <2>3
  <2>5. t[m - 1] \in {"up", "down"} /\ t[m] \notin {"up", "down"}
    BY <2>1, <2>3, <2>4
  <2>6. <<t[m - 1], q[m].kind, t[m]>> \in ProperSteps /\ q[m].kind # "Respawned"
    BY <1>1, <1>2, <2>4 DEF Has, Reborn
  <2> QED BY <2>5, <2>6 DEF ProperSteps, Changes, Unchanged
<1>4. ASSUME NEW i \in 1 .. n, q[i].kind = "Teleport" PROVE FALSE
  <2>1. <<t[i - 1], "Teleport", t[i]>> \in ProperSteps
    BY <1>1, <1>2, <1>4
  <2>2. t[i - 1] = "unplaced"
    BY <2>1 DEF ProperSteps, Changes, Unchanged, NeutralLife
  <2>3. i - 1 \in 0 .. n
    OBVIOUS
  <2> QED BY <1>3, <2>2, <2>3
<1> QED BY <1>2, <1>4 DEF Has

\* A dead player stays dead.
LEMMA StaysDead ==
  ASSUME NEW q, IsSequence(q), NEW x, Becomes(q, "down", x, ProperSteps),
         ~Has(q, Reborn), ~Has(q, Granted)
  PROVE  x = "down"
<1>1. PICK t : /\ t[0] = "down" /\ t[Len(q)] = x
               /\ \A i \in 1 .. Len(q) : <<t[i - 1], q[i].kind, t[i]>> \in ProperSteps
  BY DEF Becomes
<1>2. PICK n \in Nat : n = Len(q)
  BY LenProperties DEF IsSequence
<1>3. SUFFICES ASSUME t[n] # "down" PROVE FALSE
  BY <1>1, <1>2
<1>4. PICK T : T = {k \in 0 .. n : t[k] # "down"}
  OBVIOUS
<1>5. T \in SUBSET Nat /\ T # {}
  BY <1>3, <1>4
<1>6. PICK m \in T : \A k \in T : ~(k < m)
  BY <1>5, SmallestIndex
<1>7. m \in 1 .. n /\ m - 1 \in 0 .. n /\ m - 1 < m
  BY <1>1, <1>4, <1>6
<1>8. t[m - 1] = "down" /\ t[m] # "down"
  BY <1>4, <1>6, <1>7
<1>9. /\ <<t[m - 1], q[m].kind, t[m]>> \in ProperSteps
      /\ q[m].kind # "Respawned" /\ q[m].kind # "respawned"
  BY <1>1, <1>2, <1>7 DEF Has, Reborn, Granted
<1> QED BY <1>8, <1>9 DEF ProperSteps, Changes, Unchanged

\* So a client whose player is alive and placed is not being teleported.
LEMMA NotPendingUp ==
  ASSUME TalkInv, Types, Entered, ProperLife, OneWish, HomeOnly, avatar.alive, avatar.placed
  PROVE  NotPending
<1>1. IsSequence(toClient) /\ IsSequence(events)
  BY EnteredFacts DEF IsSequence
<1>2. ~Has(toClient, Reborn) /\ ~Has(events, Granted)
  BY DEF OneWish, Wish
<1>3. PICK m \in LifeStates : Becomes(toClient, LifeOf(avatar), m, ProperSteps)
  BY DEF ProperLife, LivesWith
<1>4. LifeOf(avatar) = "up"
  BY DEF LifeOf
<1>5. Becomes(toClient, "up", m, ProperSteps)
  BY <1>3, <1>4
<1>6. ~Has(toClient, {"Teleport"})
  BY <1>1, <1>2, <1>5, OnItsFeet
<1>7. ~Has(events, Places2)
  BY <1>2 DEF HomeOnly, Addressed, Has, Granted, Places2
<1> QED BY <1>6, <1>7 DEF NotPending

---------------------------------------------------------------------------
\* The walk on its way, from where the loop has the player, has legs that the
\* loop accepts; it leads to where the client shows the player, or to the
\* spawn while the player is being teleported there.
Legs == {leg \in Places \X Places : Distance(leg[1], leg[2]) <= MaxDelta}
RouteOf(up, f, at, pending) ==
  /\ f \in Places
  /\ \E x \in Places : /\ Leads(up, f, x, Legs)
                       /\ (pending => x = Spawn) /\ (~pending => x = at)
Route == RouteOf(toServer, From, avatar.at, ~NotPending)

\* A loop that bounds what the client counts, as the hypothesis of what
\* follows: a step of a player is short enough, and a client neither acts nor
\* informs more often than the server lets it.
RoomForHonesty == MaxDelta >= 1 /\ MaxActs + 1 < MaxIgnored /\ MaxInformation < MaxAuxiliary

\* Standing is a leg, and so is a step of a player.
LEMMA LegFacts ==
  ASSUME NEW a \in Places
  PROVE  /\ <<a, a>> \in Legs
         /\ \A b : <<a, b>> \in Legs => b \in Places /\ Distance(a, b) <= MaxDelta
         /\ \A b \in Places : RoomForHonesty /\ Distance(b, a) <= 1 => <<a, b>> \in Legs
<1>1. a \in Int /\ MaxDelta \in Nat /\ Places \subseteq Int
  BY PlayLoopAssumption
<1>2. <<a, a>> \in Legs
  BY <1>1 DEF Legs, Distance
<1>3. ASSUME NEW b, <<a, b>> \in Legs PROVE b \in Places /\ Distance(a, b) <= MaxDelta
  BY <1>3 DEF Legs
<1>4. ASSUME NEW b \in Places, RoomForHonesty, Distance(b, a) <= 1 PROVE <<a, b>> \in Legs
  <2>1. b \in Int /\ Distance(a, b) <= MaxDelta
    BY <1>1, <1>4 DEF RoomForHonesty, Distance
  <2> QED BY <2>1 DEF Legs
<1> QED BY <1>2, <1>3, <1>4

\* Without a move the walk leads nowhere else.
LEMMA LeadsNowhere ==
  ASSUME NEW q, IsSequence(q), ~Has(q, Moving), NEW f, NEW R, <<f, f>> \in R
  PROVE  Leads(q, f, f, R)
<1>1. PICK n \in Nat : n = Len(q)
  BY LenProperties DEF IsSequence
<1>2. PICK t : t = [i \in 0 .. n |-> f]
  OBVIOUS
<1>3. \A i \in 1 .. n : t[i] = f /\ t[i - 1] = f /\ q[i].kind # "Move"
  BY <1>1, <1>2 DEF Has, Moving
<1>4. t[0] = f /\ t[n] = f
  BY <1>2
<1> QED BY <1>1, <1>3, <1>4 DEF Leads, WalkedBy

\* The first packet is read, and one that is no move is sent.
LEMMA RouteRead ==
  ASSUME NEW up, IsSequence(up), NEW f, NEW at, NEW pending, RouteOf(up, f, at, pending),
         up # <<>>
  PROVE  /\ RouteOf(Tail(up), WalkedBy(f, up[1]), at, pending)
         /\ up[1].kind = "Move" => up[1].n \in Places /\ Distance(f, up[1].n) <= MaxDelta
<1>1. PICK x \in Places : /\ Leads(up, f, x, Legs)
                          /\ (pending => x = Spawn) /\ (~pending => x = at)
  BY DEF RouteOf
<1>2. PICK g : g = WalkedBy(f, up[1])
  OBVIOUS
<1>3. Leads(Tail(up), g, x, Legs) /\ <<f, g>> \in Legs
  BY <1>1, <1>2, LeadsRead
<1>4. f \in Places
  BY DEF RouteOf
<1>5. g \in Places /\ Distance(f, g) <= MaxDelta
  BY <1>3, <1>4, LegFacts
<1>6. up[1].kind = "Move" => g = up[1].n
  BY <1>2 DEF WalkedBy
<1> QED BY <1>1, <1>2, <1>3, <1>5, <1>6 DEF RouteOf

\* One more packet that is no move.
LEMMA RouteSent ==
  ASSUME NEW up, IsSequence(up), NEW f, NEW at, NEW pending, RouteOf(up, f, at, pending),
         NEW p, p.kind # "Move"
  PROVE  RouteOf(Append(up, p), f, at, pending)
<1>1. PICK x \in Places : /\ Leads(up, f, x, Legs)
                          /\ (pending => x = Spawn) /\ (~pending => x = at)
  BY DEF RouteOf
<1>2. WalkedBy(x, p) = x /\ <<x, x>> \in Legs
  BY LegFacts DEF WalkedBy
<1>3. Leads(Append(up, p), f, x, Legs)
  BY <1>1, <1>2, LeadsAppended
<1> QED BY <1>1, <1>3 DEF RouteOf

\* One more move: a step, or to where the player is teleported.
LEMMA RouteMoved ==
  ASSUME NEW up, IsSequence(up), NEW f, NEW at, NEW p, p.kind = "Move"
  PROVE  /\ /\ RoomForHonesty /\ RouteOf(up, f, at, FALSE)
            /\ p.n \in Places /\ Distance(p.n, at) <= 1
            => RouteOf(Append(up, p), f, p.n, FALSE)
         /\ RouteOf(up, f, at, TRUE) /\ p.n = Spawn =>
              \A pending : RouteOf(Append(up, p), f, Spawn, pending)
<1>1. WalkedBy(at, p) = p.n /\ WalkedBy(Spawn, p) = p.n
  BY DEF WalkedBy
<1>2. ASSUME RoomForHonesty, RouteOf(up, f, at, FALSE), p.n \in Places, Distance(p.n, at) <= 1
      PROVE  RouteOf(Append(up, p), f, p.n, FALSE)
  <2>1. at \in Places /\ Leads(up, f, at, Legs) /\ f \in Places
    BY <1>2 DEF RouteOf
  <2>2. <<at, p.n>> \in Legs
    BY <1>2, <2>1, LegFacts
  <2>3. Leads(Append(up, p), f, WalkedBy(at, p), Legs)
    BY <1>1, <2>1, <2>2, LeadsAppended
  <2> QED BY <1>1, <1>2, <2>1, <2>3 DEF RouteOf
<1>3. ASSUME RouteOf(up, f, at, TRUE), p.n = Spawn, NEW pending
      PROVE  RouteOf(Append(up, p), f, Spawn, pending)
  <2>1. Spawn \in Places /\ Leads(up, f, Spawn, Legs) /\ f \in Places
    BY <1>3 DEF RouteOf
  <2>2. <<Spawn, p.n>> \in Legs
    BY <1>3, <2>1, LegFacts
  <2>3. Leads(Append(up, p), f, WalkedBy(Spawn, p), Legs)
    BY <1>1, <2>1, <2>2, LeadsAppended
  <2> QED BY <1>1, <1>3, <2>1, <2>3 DEF RouteOf
<1> QED BY <1>2, <1>3

\* Where the player is reborn there is nothing left to walk.
LEMMA RouteReborn ==
  ASSUME NEW up, IsSequence(up), ~Has(up, Moving), NEW at
  PROVE  RouteOf(up, Spawn, at, TRUE)
<1>1. Spawn \in Places /\ <<Spawn, Spawn>> \in Legs
  BY SpawnIsThere, LegFacts
<1>2. Leads(up, Spawn, Spawn, Legs)
  BY <1>1, LeadsNowhere
<1> QED BY <1>1, <1>2 DEF RouteOf

\* A step of the loop walks on, or has the player reborn at the spawn.
Publishes2 == UNCHANGED events \/ \E kind \in {"broadcast", "killed"} : Published(kind, 0)
WalksOn ==
  /\ \/ toServer' = toServer /\ From' = From
     \/ TakesFirst /\ From' = WalkedBy(From, toServer[1])
  /\ Publishes2
Revives ==
  /\ TakesFirst /\ toServer[1].kind = "ClientCommand"
  /\ Published("respawned", Spawn) /\ From' = Spawn

\* It is one of the two.
LEMMA LoopRoutes ==
  ASSUME TalkInv, Types, Boot, Entered, LoopStep, step' # "ended", ~history'.teleported
  PROVE  WalksOn \/ Revives
<1>1. LoopTypes(loop) /\ EntityTypes /\ HistoryTypes /\ conforms
  BY DEF Types, Entered
<1>2. CASE ReadRespawn
  <2>1. /\ TakesFirst /\ step = "read" /\ \E l : AfterPacket(l)
        /\ toServer[1].kind = "ClientCommand"
        /\ Respawns \/ UNCHANGED <<entity, events>>
    BY <1>2 DEF ReadRespawn, Gets, Reads, Consumes, Incoming, TakesFirst
  <2>2. step' # "moving"
    BY <2>1 DEF AfterPacket, Goes
  <2>3. CASE UNCHANGED <<entity, events>>
    BY <2>1, <2>2, <2>3 DEF WalksOn, Publishes2, WalkedBy, From
  <2>4. CASE Respawns
    BY <1>1, <2>1, <2>2, <2>4 DEF Respawns, Publishes, Published, Revives, From
  <2> QED BY <2>1, <2>3, <2>4
<1>3. CASE ~ReadRespawn
  <2>1. Publishes2
    <3>1. CASE ReadChat
      BY <1>1, <3>1 DEF ReadChat, Publishes, Published, Publishes2
    <3>2. CASE ReadCommand
      <4>1. UNCHANGED events \/ Executes(history.acts)
        BY <3>2 DEF ReadCommand
      <4>2. Executes(history.acts) => UNCHANGED events \/ Published("killed", 0)
        BY <1>1 DEF Executes, Kill, Publishes, Published, HistoryTypes, HistoryFields
      <4> QED BY <4>1, <4>2 DEF Publishes2
    <3>3. CASE ReadMovement \/ Synchronize
      BY <3>3 DEF ReadMovement, Synchronize, Unaffected, GameRest, Publishes2
    <3>4. CASE \/ ReadBootstrap \/ Request \/ ReadAnswer \/ ReadTick \/ ReadUndecodable
               \/ ReadHarmless \/ ReadUnknown \/ PlayEnds
      BY <3>4 DEF ReadBootstrap, Request, ReadAnswer, ReadTick, ReadUndecodable, ReadHarmless,
                  ReadUnknown, PlayEnds, Unaffected, GameRest, Publishes2
    <3> QED BY <1>3, <3>1, <3>2, <3>3, <3>4 DEF LoopStep
  <2>2. Walks
    BY LoopWalks
  <2> QED BY <2>1, <2>2 DEF Walks, WalksOn, Revives, TakesFirst
<1> QED BY <1>2, <1>3

\* A packet of the loop, and an event of what it does, tell of no teleport.
LEMMA PendingAsBefore ==
  ASSUME NEW q, IsSequence(q), NEW evs, IsSequence(evs)
  PROVE  /\ \A p : p.kind # "Teleport" =>
              (Has(Append(q, p), {"Teleport"}) <=> Has(q, {"Teleport"}))
         /\ \A p : p.kind \notin Places2 => (Has(Append(evs, p), Places2) <=> Has(evs, Places2))
<1>1. ASSUME NEW p, p.kind # "Teleport"
      PROVE  Has(Append(q, p), {"Teleport"}) <=> Has(q, {"Teleport"})
  BY <1>1, HasAppended
<1>2. ASSUME NEW p, p.kind \notin Places2
      PROVE  Has(Append(evs, p), Places2) <=> Has(evs, Places2)
  BY <1>2, HasAppended
<1> QED BY <1>1, <1>2

\* Events of no teleport.
LEMMA PublishedAsBefore ==
  ASSUME IsSequence(events), Publishes2
  PROVE  IsSequence(events') /\ (Has(events', Places2) <=> Has(events, Places2))
<1>1. CASE UNCHANGED events
  BY <1>1
<1>2. ASSUME NEW kind \in {"broadcast", "killed"}, Published(kind, 0)
      PROVE  IsSequence(events') /\ (Has(events', Places2) <=> Has(events, Places2))
  <2>1. PICK e : e = [kind |-> kind, at |-> 0]
    OBVIOUS
  <2>2. events' = Append(events, e) /\ e.kind \notin Places2
    BY <1>2, <2>1 DEF Published, Places2
  <2> QED BY <2>2, AppendFacts, HasAppended
<1> QED BY <1>1, <1>2 DEF Publishes2

\* A route is that of equivalent claims.
LEMMA SameRoute ==
  ASSUME NEW up, NEW f, NEW at, NEW p, NEW r, RouteOf(up, f, at, p), p <=> r
  PROVE  RouteOf(up, f, at, r)
BY DEF RouteOf

\* A step of the loop.
LEMMA RouteInLoop ==
  ASSUME SessionInv, TalkInv, Types, Boot, Entered, LoopStep, step' # "ended",
         ~history'.teleported, OneWish, Route
  PROVE  Route'
<1>1. /\ IsSequence(toServer) /\ IsSequence(toClient) /\ IsSequence(events)
      /\ UNCHANGED avatar
  BY EnteredFacts, LoopEffect DEF IsSequence
<1>2. PICK up : up = toServer
  OBVIOUS
<1>3. PICK f : f = From
  OBVIOUS
<1>4. PICK at : at = avatar.at
  OBVIOUS
<1>5. PICK pending : pending = ~NotPending
  OBVIOUS
<1>6. RouteOf(up, f, at, pending) /\ IsSequence(up)
  BY <1>1, <1>2, <1>3, <1>4, <1>5 DEF Route
<1>7. Has(toClient', {"Teleport"}) <=> Has(toClient, {"Teleport"})
  <2>1. toClient' = toClient \/ SendsOne({"View", "SystemChat", "KeepAlive"})
    BY LoopQueues
  <2>2. ASSUME NEW p, p.kind \in {"View", "SystemChat", "KeepAlive"},
               toClient' = Append(toClient, p)
        PROVE  Has(toClient', {"Teleport"}) <=> Has(toClient, {"Teleport"})
    BY <1>1, <2>2, HasAppended
  <2> QED BY <2>1, <2>2 DEF SendsOne
<1>8. CASE WalksOn
  <2>1. NotPending' <=> NotPending
    BY <1>1, <1>7, <1>8, PublishedAsBefore DEF WalksOn, NotPending
  <2>2. ASSUME NEW q, toServer' = q, NEW g, From' = g, RouteOf(q, g, at, pending)
        PROVE  Route'
    <3>1. pending <=> ~NotPending'
      BY <1>5, <2>1
    <3>2. PICK r : r = ~NotPending'
      OBVIOUS
    <3>3. RouteOf(q, g, at, r)
      BY <2>2, <3>1, <3>2, SameRoute
    <3> QED BY <1>1, <1>4, <2>2, <3>2, <3>3 DEF Route
  <2>3. CASE toServer' = toServer /\ From' = From
    BY <1>2, <1>3, <1>6, <2>2, <2>3
  <2>4. CASE TakesFirst /\ From' = WalkedBy(From, toServer[1])
    <3>1. PICK g : g = WalkedBy(f, up[1])
      OBVIOUS
    <3>2. RouteOf(Tail(up), g, at, pending)
      BY <1>2, <1>6, <2>4, <3>1, RouteRead DEF TakesFirst
    <3> QED BY <1>2, <1>3, <2>2, <2>4, <3>1, <3>2 DEF TakesFirst
  <2> QED BY <1>8, <2>3, <2>4 DEF WalksOn
<1>9. CASE Revives
  <2>1. PICK e : e = [kind |-> "respawned", at |-> Spawn]
    OBVIOUS
  <2>2. /\ events' = Append(events, e) /\ e.kind \in Granted /\ e.kind \in Places2
        /\ up # <<>> /\ toServer' = Tail(up) /\ up[1].kind \in Asked /\ From' = Spawn
    BY <1>2, <1>9, <2>1 DEF Revives, Published, Granted, Places2, TakesFirst, Asked
  <2>3. ~NotPending'
    <3>1. Has(Append(events, e), Places2)
      BY <1>1, <2>2, HasAppended
    <3> QED BY <2>2, <3>1 DEF NotPending
  <2>4. ~Has(Tail(up), Moving) /\ IsSequence(Tail(up))
    <3>1. PICK down, evs, asked : down = toClient /\ evs = events /\ asked = avatar.asked
      OBVIOUS
    <3>2. Wish(up, down, evs, asked)
      BY <1>2, <3>1 DEF OneWish
    <3> QED BY <1>1, <1>6, <2>2, <3>1, <3>2, WishGranted, TailFacts
  <2>5. RouteOf(Tail(up), Spawn, at, TRUE)
    BY <2>4, RouteReborn
  <2>6. PICK r : r = ~NotPending'
    OBVIOUS
  <2>7. RouteOf(Tail(up), Spawn, at, r)
    <3>1. TRUE <=> r
      BY <2>3, <2>6
    <3> QED BY <2>5, <3>1, SameRoute
  <2> QED BY <1>1, <1>4, <2>2, <2>6, <2>7 DEF Route
<1> QED BY <1>8, <1>9, LoopRoutes

\* An event that replication dispatches.
LEMMA RouteInDispatch ==
  ASSUME TalkInv, Types, Entered, Dispatch, HomeOnly, Route
  PROVE  Route'
<1>1. /\ IsSequence(toServer) /\ IsSequence(toClient) /\ IsSequence(events)
      /\ UNCHANGED <<avatar, toServer, step, loop, entity>>
      /\ events # <<>> /\ events' = Tail(events)
  BY EnteredFacts, DispatchEffect DEF IsSequence
<1>2. From' = From
  BY <1>1 DEF From
<1>3. PICK t : t = Teleport(TeleportId, events[1].at)
  OBVIOUS
<1>4. PICK r : r = Plain("Respawned")
  OBVIOUS
<1>5. /\ t.kind = "Teleport" /\ r.kind # "Teleport" /\ Plain("Died").kind # "Teleport"
      /\ Plain("SystemChat").kind # "Teleport"
  BY <1>3, <1>4 DEF Teleport, Plain, Packet
<1>6. events[1].kind # "teleported"
  <2>1. PICK down, evs : down = toClient /\ evs = events
    OBVIOUS
  <2>2. Addressed(down, evs) /\ IsSequence(down) /\ IsSequence(evs) /\ evs # <<>>
    BY <1>1, <2>1 DEF HomeOnly
  <2> QED BY <2>1, <2>2, AddressRead
<1>7. \/ /\ events[1].kind \notin Places2
         /\ \E p : p.kind # "Teleport" /\ toClient' = Append(toClient, p)
      \/ events[1].kind \in Places2 /\ toClient' = Append(Append(toClient, r), t)
  BY <1>1, <1>3, <1>4, <1>5, <1>6, DispatchEffect DEF Places2
<1>8. NotPending' <=> NotPending
  <2>1. ASSUME events[1].kind \notin Places2, NEW p, p.kind # "Teleport",
               toClient' = Append(toClient, p)
        PROVE  NotPending' <=> NotPending
    <3>1. Has(toClient', {"Teleport"}) <=> Has(toClient, {"Teleport"})
      BY <1>1, <2>1, HasAppended
    <3>2. Has(events', Places2) <=> Has(events, Places2)
      BY <1>1, <2>1, HasRead
    <3> QED BY <3>1, <3>2 DEF NotPending
  <2>2. CASE events[1].kind \in Places2 /\ toClient' = Append(Append(toClient, r), t)
    <3>1. Has(events, Places2)
      BY <1>1, <2>2, HasRead
    <3>2. PICK d : d = Append(toClient, r)
      OBVIOUS
    <3>3. IsSequence(d)
      BY <1>1, <3>2, AppendFacts
    <3>4. Has(Append(d, t), {"Teleport"})
      BY <1>5, <3>3, HasAppended
    <3> QED BY <2>2, <3>1, <3>2, <3>4 DEF NotPending
  <2> QED BY <1>7, <2>1, <2>2
<1>9. PICK up : up = toServer
  OBVIOUS
<1>10. PICK f : f = From
  OBVIOUS
<1>11. PICK at : at = avatar.at
  OBVIOUS
<1>12. PICK pending, after : pending = ~NotPending /\ after = ~NotPending'
  OBVIOUS
<1>13. RouteOf(up, f, at, pending) /\ (pending <=> after)
  BY <1>8, <1>9, <1>10, <1>11, <1>12 DEF Route
<1>14. RouteOf(up, f, at, after)
  BY <1>13, SameRoute
<1> QED BY <1>1, <1>2, <1>9, <1>10, <1>11, <1>12, <1>14 DEF Route

\* The route begins at the spawn, where the client is teleported.
LEMMA FirstRoute ==
  ASSUME EntersPlay
  PROVE  Route'
<1>1. PICK q : q = Append(Append(<<>>, Plain("PlayLogin")), FirstView)
  OBVIOUS
<1>2. PICK r : r = Append(<<>>, Plain("PlayLogin"))
  OBVIOUS
<1>3. IsSequence(<<>>) /\ IsSequence(r)
  BY <1>2, NoneFacts, AppendFacts
<1>4. IsSequence(q)
  BY <1>1, <1>2, <1>3, AppendFacts
<1>5. PICK d : d = Teleport(SpawnTeleport, Spawn)
  OBVIOUS
<1>6. d.kind \in {"Teleport"}
  BY <1>5 DEF Teleport
<1>7. Has(Append(q, d), {"Teleport"})
  BY <1>4, <1>6, HasAppended
<1>8. ~NotPending'
  BY <1>1, <1>5, <1>7 DEF EntersPlay, NotPending
<1>9. From' = Spawn /\ toServer' = <<>>
  BY DEF EntersPlay, Fresh, From
<1>10. PICK at : at = avatar'.at
  OBVIOUS
<1>11. RouteOf(<<>>, Spawn, at, TRUE)
  BY <1>3, HasNothing, RouteReborn
<1>12. PICK after : after = ~NotPending'
  OBVIOUS
<1>13. RouteOf(<<>>, Spawn, at, after)
  <2>1. TRUE <=> after
    BY <1>8, <1>12
  <2> QED BY <1>11, <2>1, SameRoute
<1> QED BY <1>9, <1>10, <1>12, <1>13 DEF Route

\* A packet that the client reads.
LEMMA RouteInhabited ==
  ASSUME TalkInv, Types, Entered, Inhabit, Enters \/ Lives, HomeOnly, Route
  PROVE  Route'
<1>1. /\ IsSequence(toServer) /\ IsSequence(toClient) /\ IsSequence(events)
      /\ UNCHANGED <<events, step, loop, entity>> /\ toClient # <<>>
      /\ toClient' = Tail(toClient)
  BY EnteredFacts, LivesAnswers DEF IsSequence
<1>2. PICK up : up = toServer
  OBVIOUS
<1>3. PICK down : down = toClient
  OBVIOUS
<1>4. PICK f : f = From
  OBVIOUS
<1>5. PICK at : at = avatar.at
  OBVIOUS
<1>6. PICK pending : pending = ~NotPending
  OBVIOUS
<1>7. PICK after : after = ~NotPending'
  OBVIOUS
<1>8. PICK p : p = down[1]
  OBVIOUS
<1>9. /\ RouteOf(up, f, at, pending) /\ IsSequence(up) /\ IsSequence(down) /\ down # <<>>
      /\ From' = f
  BY <1>1, <1>2, <1>3, <1>4, <1>5, <1>6 DEF Route, From
<1>10. ASSUME NEW q, toServer' = q, NEW x, avatar'.at = x, RouteOf(q, f, x, after)
       PROVE  Route'
  BY <1>7, <1>9, <1>10 DEF Route
<1>11. CASE p.kind = "Teleport"
  <2>1. PICK a : a = Packet("Accept", p.n)
    OBVIOUS
  <2>2. PICK m : m = Packet("Move", p.to)
    OBVIOUS
  <2>3. /\ avatar' = AvatarAfter(avatar, toClient[1])
        /\ toServer' = Append(Append(up, a), m)
    BY <1>2, <1>3, <1>8, <1>11, <2>1, <2>2, LivesAnswers
  <2>4. p.to = Spawn
    <3>1. PICK evs : evs = events
      OBVIOUS
    <3>2. Addressed(down, evs) /\ IsSequence(evs)
      BY <1>1, <1>3, <3>1 DEF HomeOnly
    <3> QED BY <1>8, <1>9, <1>11, <3>2, AddressRead
  <2>5. avatar'.at = Spawn
    <3>1. toClient[1].kind \in WorldKinds /\ toClient[1].kind = "Teleport"
      BY <1>3, <1>8, <1>11 DEF WorldKinds
    <3> QED BY <1>3, <1>8, <2>3, <2>4, <3>1, AvatarLives
  <2>6. a.kind # "Move" /\ m.kind = "Move" /\ m.n = Spawn
    BY <2>1, <2>2, <2>4 DEF Packet
  <2>7. RouteOf(up, f, at, TRUE)
    <3>1. Has(toClient, {"Teleport"})
      BY <1>1, <1>3, <1>8, <1>11, HasRead
    <3>2. pending <=> TRUE
      BY <1>6, <3>1 DEF NotPending
    <3> QED BY <1>9, <3>2, SameRoute
  <2>8. PICK q : q = Append(up, a)
    OBVIOUS
  <2>9. IsSequence(q) /\ RouteOf(q, f, at, TRUE)
    BY <1>9, <2>6, <2>7, <2>8, RouteSent, AppendFacts
  <2>10. RouteOf(Append(q, m), f, Spawn, after)
    BY <2>6, <2>9, RouteMoved
  <2> QED BY <1>10, <2>3, <2>5, <2>8, <2>10
<1>12. CASE p.kind # "Teleport"
  <2>1. pending <=> after
    <3>1. Has(toClient, {"Teleport"}) <=> Has(Tail(toClient), {"Teleport"})
      BY <1>1, <1>3, <1>8, <1>12, HasRead
    <3> QED BY <1>1, <1>6, <1>7, <3>1 DEF NotPending
  <2>2. RouteOf(up, f, at, after)
    BY <1>9, <2>1, SameRoute
  <2>3. avatar'.at = at
    <3>1. CASE avatar' = avatar
      BY <1>5, <3>1
    <3>2. CASE avatar' = AvatarAfter(avatar, toClient[1]) /\ toClient[1].kind \in WorldKinds
      BY <1>3, <1>5, <1>8, <1>12, <3>2, AvatarLives
    <3> QED BY <3>1, <3>2, LivesAnswers DEF WorldKinds
  <2>4. \/ toServer' = up
        \/ \E r : r.kind # "Move" /\ toServer' = Append(up, r)
    <3>1. Packet("ChunkBatch", 1).kind # "Move" /\ Packet("KeepAlive", p.n).kind # "Move"
      BY DEF Packet
    <3> QED BY <1>2, <1>3, <1>8, <1>12, <3>1, LivesAnswers
  <2>5. ASSUME NEW r, r.kind # "Move", toServer' = Append(up, r) PROVE Route'
    <3>1. RouteOf(Append(up, r), f, at, after)
      BY <1>9, <2>2, <2>5, RouteSent
    <3> QED BY <1>10, <2>3, <2>5, <3>1
  <2> QED BY <1>10, <2>2, <2>3, <2>4, <2>5
<1> QED BY <1>11, <1>12

\* An act of the client.
LEMMA RouteActed ==
  ASSUME RoomForHonesty, TalkInv, Types, Entered, ProperLife, OneWish, HomeOnly, Route,
         NEW p, Acts(p)
  PROVE  Route'
<1>1. PICK up : up = toServer
  OBVIOUS
<1>2. PICK f : f = From
  OBVIOUS
<1>3. PICK at : at = avatar.at
  OBVIOUS
<1>4. PICK pending : pending = ~NotPending
  OBVIOUS
<1>5. RouteOf(up, f, at, pending) /\ IsSequence(up)
  BY <1>1, <1>2, <1>3, <1>4, EnteredFacts DEF Route
<1>6. /\ UNCHANGED <<toClient, events, step, loop, entity>> /\ toServer' = Append(up, p)
      /\ \/ /\ p.kind = "Move" /\ p.n \in Places /\ Distance(p.n, at) <= 1
            /\ avatar'.at = p.n /\ avatar.placed /\ avatar.alive
         \/ p.kind # "Move" /\ avatar'.at = at
  BY <1>1, <1>3 DEF Acts, ActsAlone, AvatarActs
<1>7. From' = f /\ (pending <=> ~NotPending') /\ pending = ~NotPending'
  BY <1>2, <1>4, <1>6 DEF From, NotPending
<1>8. CASE p.kind # "Move"
  <2>1. RouteOf(Append(up, p), f, at, pending)
    BY <1>5, <1>8, RouteSent
  <2> QED BY <1>6, <1>7, <1>8, <2>1 DEF Route
<1>9. CASE p.kind = "Move"
  <2>1. p.n \in Places /\ Distance(p.n, at) <= 1 /\ avatar'.at = p.n
    BY <1>6, <1>9
  <2>2. NotPending
    BY <1>6, <1>9, NotPendingUp
  <2>3. pending <=> FALSE
    BY <1>4, <2>2
  <2>4. RouteOf(up, f, at, FALSE)
    BY <1>5, <2>3, SameRoute
  <2>5. RouteOf(Append(up, p), f, p.n, FALSE)
    BY <1>5, <1>9, <2>1, <2>4, RouteMoved
  <2>6. RouteOf(Append(up, p), f, p.n, pending)
    BY <2>3, <2>5, SameRoute
  <2> QED BY <1>6, <1>7, <2>1, <2>6 DEF Route
<1> QED BY <1>8, <1>9

\* The route, through every step.
LEMMA RouteKept ==
  ASSUME RoomForHonesty, SessionInv, TalkInv, Types, Types', Boot, [Next]_vars, Honest',
         Honest => ProperLife /\ OneWish /\ HomeOnly /\ Route
  PROVE  Route'
<1>1. CASE EntersPlay
  BY <1>1, FirstRoute
<1> SUFFICES ASSUME Honest PROVE Route'
  BY <1>1, StepsOfTheHonest
<1>2. Entered /\ step' # "ended" /\ ~history'.teleported
  BY DEF Honest, Entered, InPlay
<1>3. CASE LoopStep
  BY <1>2, <1>3, RouteInLoop
<1>4. CASE KilledFromOutside
  <2>1. /\ UNCHANGED <<toServer, toClient, avatar, step, loop>> /\ entity'.at = entity.at
        /\ events' = events \/ Published("killed", 0)
    BY <1>4 DEF KilledFromOutside, Kills
  <2>2. IsSequence(events)
    BY <1>2, EnteredFacts DEF IsSequence
  <2>3. Has(events', Places2) <=> Has(events, Places2)
    <3>1. Publishes2
      BY <2>1 DEF Publishes2
    <3> QED BY <2>2, <3>1, PublishedAsBefore
  <2>4. PICK up, f, at : up = toServer /\ f = From /\ at = avatar.at
    OBVIOUS
  <2>5. PICK pending, after : pending = ~NotPending /\ after = ~NotPending'
    OBVIOUS
  <2>6. /\ pending <=> after
        /\ From' = f
    BY <2>1, <2>3, <2>4, <2>5 DEF NotPending, From
  <2>7. RouteOf(up, f, at, pending)
    BY <1>2, <2>4, <2>5 DEF Route
  <2>8. RouteOf(up, f, at, after)
    BY <2>6, <2>7, SameRoute
  <2> QED BY <2>1, <2>4, <2>5, <2>6, <2>8 DEF Route
<1>5. CASE Dispatch
  BY <1>2, <1>5, RouteInDispatch
<1>6. CASE Inhabit /\ (Enters \/ Lives)
  BY <1>2, <1>6, RouteInhabited
<1>7. ASSUME NEW p, Acts(p) PROVE Route'
  BY <1>2, <1>7, RouteActed
<1>8. CASE UNCHANGED vars
  BY <1>8 DEF vars, connVars, playVars, Route, From, NotPending
<1> QED BY <1>1, <1>3, <1>4, <1>5, <1>6, <1>7, <1>8, StepsOfTheHonest

---------------------------------------------------------------------------
\* The packets that the loop does not know, those it has ignored and those on
\* their way, are acts of the client.
ClientKinds ==
  {"Turn", "Tick", "Other", "ClientCommand", "Chat", "ChatCommand", "ChunkBatch", "Move",
   "Accept", "KeepAlive"}
CountOthers ==
  {c \in Nat \X ClientKinds \X Nat :
     IF c[2] = "Other" THEN c[3] = c[1] + 1 /\ c[3] <= MaxActs ELSE c[3] = c[1]}
Counts(up, ignored, acts) ==
  \E b, x \in Nat : ignored <= b /\ x <= acts /\ Becomes(up, b, x, CountOthers)
Ignored == IF step = "bootstrap" THEN 0 ELSE loop.ignored
Known == Counts(toServer, Ignored, history.acts)

\* The count of a packet.
LEMMA CountFacts ==
  ASSUME NEW a, NEW k, NEW b
  PROVE  <<a, k, b>> \in CountOthers <=>
           /\ a \in Nat /\ k \in ClientKinds /\ b \in Nat
           /\ IF k = "Other" THEN b = a + 1 /\ b <= MaxActs ELSE b = a
BY DEF CountOthers

\* Nothing on its way counts nothing, and more acts may have been counted.
LEMMA CountLess ==
  ASSUME NEW acts \in Nat, NEW more \in Nat, acts <= more
  PROVE  /\ Counts(<<>>, 0, acts)
         /\ \A up : \A i \in Nat : Counts(up, i, acts) => Counts(up, i, more)
<1>1. Becomes(<<>>, 0, 0, CountOthers)
  BY NothingArrives
<1>2. Counts(<<>>, 0, acts)
  BY <1>1 DEF Counts
<1>3. ASSUME NEW up, NEW i \in Nat, Counts(up, i, acts) PROVE Counts(up, i, more)
  <2>1. PICK b \in Nat, x \in Nat : i <= b /\ x <= acts /\ Becomes(up, b, x, CountOthers)
    BY <1>3 DEF Counts
  <2>2. x <= more
    BY <2>1
  <2> QED BY <2>1, <2>2 DEF Counts
<1> QED BY <1>2, <1>3

\* The first packet is read, and counted if the loop does not know it.
LEMMA CountRead ==
  ASSUME NEW up, IsSequence(up), up # <<>>, NEW i \in Nat, NEW acts \in Nat,
         Counts(up, i, acts)
  PROVE  /\ Counts(Tail(up), i, acts)
         /\ up[1].kind = "Other" => i < MaxActs /\ Counts(Tail(up), i + 1, acts)
<1>1. PICK b \in Nat, x \in Nat : i <= b /\ x <= acts /\ Becomes(up, b, x, CountOthers)
  BY DEF Counts
<1>2. PICK y : <<b, up[1].kind, y>> \in CountOthers /\ Becomes(Tail(up), y, x, CountOthers)
  BY <1>1, BecomesRead
<1>3. PICK k : k = up[1].kind
  OBVIOUS
<1>4. y \in Nat /\ IF k = "Other" THEN y = b + 1 /\ y <= MaxActs ELSE y = b
  BY <1>2, <1>3, CountFacts
<1>5. i <= y /\ (k = "Other" => i + 1 <= y /\ i < MaxActs /\ i + 1 \in Nat)
  BY <1>1, <1>4, PlayLoopAssumption
<1> QED BY <1>1, <1>2, <1>3, <1>4, <1>5 DEF Counts

\* One more packet is sent, an act if the loop does not know it.
LEMMA CountSent ==
  ASSUME NEW up, IsSequence(up), NEW i \in Nat, NEW acts \in Nat, Counts(up, i, acts),
         NEW p, p.kind \in ClientKinds
  PROVE  /\ p.kind # "Other" => Counts(Append(up, p), i, acts)
         /\ acts + 1 <= MaxActs => Counts(Append(up, p), i, acts + 1)
<1>1. PICK b \in Nat, x \in Nat : i <= b /\ x <= acts /\ Becomes(up, b, x, CountOthers)
  BY DEF Counts
<1>2. ASSUME p.kind # "Other" PROVE Counts(Append(up, p), i, acts)
  <2>1. <<x, p.kind, x>> \in CountOthers
    BY <1>2, CountFacts
  <2>2. Becomes(Append(up, p), b, x, CountOthers)
    BY <1>1, <2>1, BecomesAppended
  <2> QED BY <1>1, <2>2 DEF Counts
<1>3. ASSUME acts + 1 <= MaxActs, p.kind = "Other" PROVE Counts(Append(up, p), i, acts + 1)
  <2>1. x + 1 \in Nat /\ x + 1 <= acts + 1 /\ x + 1 <= MaxActs
    BY <1>1, <1>3, PlayLoopAssumption
  <2>2. <<x, p.kind, x + 1>> \in CountOthers
    BY <1>3, <2>1, CountFacts
  <2>3. Becomes(Append(up, p), b, x + 1, CountOthers)
    BY <1>1, <2>2, BecomesAppended
  <2> QED BY <1>1, <2>1, <2>3 DEF Counts
<1>4. acts <= acts + 1 /\ acts + 1 \in Nat
  OBVIOUS
<1> QED BY <1>2, <1>3, <1>4, CountLess

\* A step of the loop.
LEMMA KnownInLoop ==
  ASSUME SessionInv, TalkInv, Types, Types', Entered, LoopStep, step' # "ended",
         ~history'.teleported, Known
  PROVE  Known'
<1>1. PICK up : up = toServer
  OBVIOUS
<1>2. PICK acts : acts = history.acts
  OBVIOUS
<1>3. PICK i : i = Ignored
  OBVIOUS
<1>4. /\ IsSequence(up) /\ Counts(up, i, acts) /\ acts \in Nat /\ i \in Nat /\ history'.acts = acts
      /\ toServer' = up \/ (up # <<>> /\ toServer' = Tail(up))
  <2>1. IsSequence(up) /\ Counts(up, i, acts)
    BY <1>1, <1>2, <1>3, EnteredFacts DEF Known
  <2>2. acts \in Nat /\ i \in Nat
    BY <1>2, <1>3 DEF Types, HistoryTypes, LoopTypes, Ignored
  <2> QED BY <1>1, <1>2, <2>1, <2>2, LoopsHistory, LoopQueues DEF TakesFirst
<1>5. ASSUME NEW q, toServer' = q, Counts(q, Ignored', acts) PROVE Known'
  BY <1>4, <1>5 DEF Known
<1>6. ASSUME Ignored' = i PROVE Known'
  BY <1>4, <1>5, <1>6, CountRead
<1>7. CASE Boots \/ Starts
  BY <1>3, <1>6, <1>7 DEF Boots, Starts, Ignored
<1>8. CASE (Asks \/ Hears)
  BY <1>3, <1>6, <1>8 DEF Asks, Hears, Ignored
<1>9. CASE GoesOn
  <2>1. \/ Ignored' = i
        \/ TakesFirst /\ toServer[1].kind \notin KnownKinds /\ Ignored' = i + 1
    BY <1>3, <1>9 DEF GoesOn, Ignored
  <2>2. CASE TakesFirst /\ toServer[1].kind \notin KnownKinds /\ Ignored' = i + 1
    <3>1. step # "bootstrap" /\ up # <<>> /\ toServer' = Tail(up) /\ up[1].kind \notin KnownKinds
      BY <1>1, <1>9, <2>2 DEF GoesOn, TakesFirst
    <3>2. FromClient(up)
      BY <1>1, <3>1, EnteredFacts DEF Types, PacketTypes, InWorld, Entered
    <3>3. ClientPacket(up[1])
      BY <3>1, <3>2, FromClientRead
    <3>4. up[1].kind = "Other"
      BY <3>1, <3>3 DEF ClientPacket, KnownKinds, DecodedKinds, MovementKinds
    <3>5. Counts(Tail(up), i + 1, acts)
      BY <1>4, <3>1, <3>4, CountRead
    <3> QED BY <1>5, <2>2, <3>1, <3>5
  <2> QED BY <1>6, <2>1, <2>2
<1> QED BY <1>7, <1>8, <1>9, LoopCases

\* Through every step.
LEMMA KnownKept ==
  ASSUME SessionInv, TalkInv, Types, Types', [Next]_vars, Honest', Honest => Known
  PROVE  Known'
<1>1. CASE EntersPlay
  <2>1. toServer' = <<>> /\ Ignored' = 0 /\ history'.acts = 0
    BY <1>1 DEF EntersPlay, Fresh, Quiet, Ignored
  <2>2. 0 \in Nat /\ 0 <= 0
    OBVIOUS
  <2>3. Counts(<<>>, 0, 0)
    BY <2>2, CountLess
  <2> QED BY <2>1, <2>3 DEF Known
<1> SUFFICES ASSUME Honest PROVE Known'
  BY <1>1, StepsOfTheHonest
<1>2. Entered /\ Known
  BY DEF Honest
<1>3. PICK up : up = toServer
  OBVIOUS
<1>4. PICK acts : acts = history.acts
  OBVIOUS
<1>5. PICK i : i = Ignored
  OBVIOUS
<1>6. IsSequence(up) /\ Counts(up, i, acts) /\ acts \in Nat /\ i \in Nat
  <2>1. acts \in Nat /\ i \in Nat
    BY <1>4, <1>5 DEF Types, HistoryTypes, LoopTypes, Ignored
  <2> QED BY <1>2, <1>3, <1>4, <1>5, <2>1, EnteredFacts DEF Known
<1>7. ASSUME NEW q, NEW n, toServer' = q, history'.acts = n, Counts(q, i, n),
             UNCHANGED <<step, loop>>
      PROVE  Known'
  <2>1. Ignored' = i
    BY <1>5, <1>7 DEF Ignored
  <2> QED BY <1>7, <2>1 DEF Known
<1>8. CASE LoopStep
  <2>1. step' # "ended" /\ ~history'.teleported
    BY DEF Honest, Entered, InPlay
  <2> QED BY <1>2, <1>8, <2>1, KnownInLoop
<1>9. CASE KilledFromOutside
  <2>1. UNCHANGED <<step, loop, toServer>> /\ history'.acts = acts + 1
    BY <1>4, <1>9 DEF KilledFromOutside
  <2>2. acts + 1 \in Nat /\ acts <= acts + 1
    BY <1>6
  <2>3. Counts(up, i, acts + 1)
    BY <1>6, <2>2, CountLess
  <2> QED BY <1>3, <1>7, <2>1, <2>3
<1>10. CASE Dispatch
  BY <1>2, <1>3, <1>4, <1>6, <1>7, <1>10, DispatchEffect DEF Types
<1>11. CASE Inhabit /\ (Enters \/ Lives)
  <2>1. UNCHANGED <<step, loop, history>>
    BY <1>2, <1>11, LivesAnswers
  <2>2. \/ toServer' = up
        \/ toServer' = Append(up, Packet("ChunkBatch", 1))
        \/ toServer' = Append(up, Packet("KeepAlive", toClient[1].n))
        \/ toServer' = Append(Append(up, Packet("Accept", toClient[1].n)),
                              Packet("Move", toClient[1].to))
    BY <1>2, <1>3, <1>11, LivesAnswers
  <2>3. ASSUME NEW r, r.kind \in {"ChunkBatch", "KeepAlive"}, toServer' = Append(up, r)
        PROVE  Known'
    <3>1. r.kind \in ClientKinds /\ r.kind # "Other"
      BY <2>3 DEF ClientKinds
    <3>2. Counts(Append(up, r), i, acts)
      BY <1>6, <3>1, CountSent
    <3> QED BY <1>4, <1>7, <2>1, <2>3, <3>2
  <2>4. CASE toServer' = Append(Append(up, Packet("Accept", toClient[1].n)),
                                Packet("Move", toClient[1].to))
    <3>1. PICK a : a = Packet("Accept", toClient[1].n)
      OBVIOUS
    <3>2. PICK m : m = Packet("Move", toClient[1].to)
      OBVIOUS
    <3>3. /\ a.kind \in ClientKinds /\ a.kind # "Other"
          /\ m.kind \in ClientKinds /\ m.kind # "Other"
      BY <3>1, <3>2 DEF Packet, ClientKinds
    <3>4. PICK q : q = Append(up, a)
      OBVIOUS
    <3>5. IsSequence(q) /\ Counts(q, i, acts)
      BY <1>6, <3>3, <3>4, AppendFacts, CountSent
    <3>6. Counts(Append(q, m), i, acts)
      BY <1>6, <3>3, <3>5, CountSent
    <3> QED BY <1>4, <1>7, <2>1, <2>4, <3>1, <3>2, <3>4, <3>6
  <2>5. /\ Packet("ChunkBatch", 1).kind = "ChunkBatch"
        /\ Packet("KeepAlive", toClient[1].n).kind = "KeepAlive"
    BY DEF Packet
  <2> QED BY <1>4, <1>6, <1>7, <2>1, <2>2, <2>3, <2>4, <2>5
<1>12. ASSUME NEW p, Acts(p) PROVE Known'
  <2>1. UNCHANGED <<step, loop>> /\ toServer' = Append(up, p) /\ p.kind \in ClientKinds
    BY <1>3, <1>12 DEF Acts, ActsAlone, AvatarActs, ClientKinds
  <2>2. IF p.kind = "ClientCommand" THEN history'.acts = acts
        ELSE history'.acts \in {acts + 1, acts + 2} /\ history'.acts <= MaxActs
    BY <1>4, <1>12 DEF Acts, HistoryActs
  <2>3. CASE p.kind = "ClientCommand"
    <3>1. Counts(Append(up, p), i, acts)
      BY <1>6, <2>1, <2>3, CountSent
    <3> QED BY <1>7, <2>1, <2>2, <2>3, <3>1
  <2>4. CASE p.kind # "ClientCommand"
    <3>1. PICK n : n = history'.acts
      OBVIOUS
    <3>2. n \in Nat /\ acts + 1 \in Nat /\ acts + 1 <= n /\ acts + 1 <= MaxActs
      BY <1>6, <2>2, <2>4, <3>1, PlayLoopAssumption
    <3>3. Counts(Append(up, p), i, acts + 1)
      BY <1>6, <2>1, <3>2, CountSent
    <3>4. Counts(Append(up, p), i, n)
      BY <1>6, <3>2, <3>3, CountLess
    <3> QED BY <1>7, <2>1, <3>1, <3>4
  <2> QED BY <2>3, <2>4
<1>13. CASE UNCHANGED vars
  BY <1>2, <1>13 DEF vars, connVars, playVars, Known, Ignored
<1> QED BY <1>1, <1>8, <1>9, <1>10, <1>11, <1>12, <1>13, StepsOfTheHonest

---------------------------------------------------------------------------
\* In the bootstrap every packet but those that answer the first view and the
\* first teleport is an act of the client, or its wish to respawn after a
\* command has killed it, which was an act too.
EarlyOf(up, down, ignored, acts, owes) ==
  /\ Alone(down, {"View"}) /\ Alone(down, {"Teleport"}) /\ acts <= MaxActs
  /\ Has(down, {"Teleport"}) \/ (Has(up, {"Accept"}) /\ Has(up, Moving))
  /\ \E v \in {0, 1}, t \in {0, 2}, o \in {0, 1} :
       /\ (Has(down, {"View"}) => v = 0) /\ (Has(down, {"Teleport"}) => t = 0)
       /\ owes => o = 1
       /\ ignored + Len(up) + o <= acts + v + t
Owes == entity.dead /\ ~avatar.asked
Early == step = "bootstrap" => EarlyOf(toServer, toClient, loop.ignored, history.acts, Owes)

\* The bootstrap ignores a packet that it does not wait for.
LEMMA EarlyIgnored ==
  ASSUME NEW up, IsSequence(up), NEW down, NEW i \in Nat, NEW acts \in Nat, NEW owes,
         EarlyOf(up, down, i, acts, owes), up # <<>>, up[1].kind \notin {"Accept", "Move"}
  PROVE  /\ EarlyOf(Tail(up), down, i + 1, acts, owes)
         /\ RoomForHonesty => i + 1 # MaxIgnored
<1>1. PICK v \in {0, 1}, t \in {0, 2}, o \in {0, 1} :
        /\ (Has(down, {"View"}) => v = 0) /\ (Has(down, {"Teleport"}) => t = 0)
        /\ owes => o = 1
        /\ i + Len(up) + o <= acts + v + t
  BY DEF EarlyOf
<1>2. IsSequence(Tail(up)) /\ Len(Tail(up)) \in Nat /\ Len(up) = Len(Tail(up)) + 1
  BY TailFacts
<1>3. /\ Has(up, {"Accept"}) => Has(Tail(up), {"Accept"})
      /\ Has(up, Moving) => Has(Tail(up), Moving)
  BY HasRead DEF Moving
<1>4. (i + 1) + Len(Tail(up)) + o <= acts + v + t
  BY <1>1, <1>2
<1>5. EarlyOf(Tail(up), down, i + 1, acts, owes)
  BY <1>1, <1>3, <1>4 DEF EarlyOf
<1>6. ASSUME RoomForHonesty PROVE i + 1 # MaxIgnored
  <2>1. acts <= MaxActs /\ MaxActs + 1 < MaxIgnored /\ MaxActs \in Nat /\ MaxIgnored \in Nat
    BY <1>6, PlayLoopAssumption DEF EarlyOf, RoomForHonesty
  <2>2. CASE Has(down, {"Teleport"})
    <3>1. t = 0
      BY <1>1, <2>2
    <3> QED BY <1>1, <1>2, <2>1, <3>1
  <2>3. CASE ~Has(down, {"Teleport"})
    <3>1. PICK r : r = Tail(up)
      OBVIOUS
    <3>2. IsSequence(r) /\ Has(r, {"Accept"}) /\ Has(r, Moving)
      BY <1>2, <1>3, <2>3, <3>1 DEF EarlyOf
    <3>3. PICK j \in 1 .. Len(r), k \in 1 .. Len(r) : r[j].kind = "Accept" /\ r[k].kind = "Move"
      BY <3>2 DEF Has, Moving
    <3>4. j # k
      BY <3>3
    <3>5. Len(r) >= 2
      BY <1>2, <3>1, <3>3, <3>4
    <3> QED BY <1>1, <1>2, <2>1, <3>1, <3>5
  <2> QED BY <2>2, <2>3
<1> QED BY <1>5, <1>6

\* The client reads a packet that it does not answer, the first view, and the
\* first teleport.
LEMMA EarlyAnswered ==
  ASSUME NEW up, IsSequence(up), NEW down, IsSequence(down), NEW i \in Nat, NEW acts \in Nat,
         NEW owes, EarlyOf(up, down, i, acts, owes), down # <<>>
  PROVE  /\ down[1].kind \notin {"View", "Teleport"} => EarlyOf(up, Tail(down), i, acts, owes)
         /\ down[1].kind = "View" => \A p : EarlyOf(Append(up, p), Tail(down), i, acts, owes)
         /\ down[1].kind = "Teleport" =>
              \A a, m : a.kind = "Accept" /\ m.kind = "Move" =>
                EarlyOf(Append(Append(up, a), m), Tail(down), i, acts, owes)
<1>1. PICK v \in {0, 1}, t \in {0, 2}, o \in {0, 1} :
        /\ (Has(down, {"View"}) => v = 0) /\ (Has(down, {"Teleport"}) => t = 0)
        /\ owes => o = 1
        /\ i + Len(up) + o <= acts + v + t
  BY DEF EarlyOf
<1>2. PICK d : d = Tail(down)
  OBVIOUS
<1>3. /\ Alone(d, {"View"}) /\ Alone(d, {"Teleport"})
      /\ down[1].kind = "View" => ~Has(d, {"View"}) /\ Has(down, {"View"})
      /\ down[1].kind = "Teleport" => ~Has(d, {"Teleport"}) /\ Has(down, {"Teleport"})
      /\ Has(d, {"View"}) => Has(down, {"View"})
      /\ Has(d, {"Teleport"}) => Has(down, {"Teleport"})
      /\ down[1].kind # "Teleport" => (Has(down, {"Teleport"}) => Has(d, {"Teleport"}))
  BY <1>2, AloneRead, HasRead DEF EarlyOf
<1>4. Len(up) \in Nat /\ acts <= MaxActs
  BY AppendFacts DEF EarlyOf
<1>5. ASSUME down[1].kind \notin {"View", "Teleport"}
      PROVE  EarlyOf(up, d, i, acts, owes)
  BY <1>1, <1>3, <1>5 DEF EarlyOf
<1>6. ASSUME down[1].kind = "View", NEW p PROVE EarlyOf(Append(up, p), d, i, acts, owes)
  <2>1. Len(Append(up, p)) = Len(up) + 1 /\ v = 0
    BY <1>1, <1>3, <1>6, AppendFacts
  <2>2. i + Len(Append(up, p)) + o <= acts + 1 + t
    BY <1>1, <1>4, <2>1
  <2>3. /\ Has(up, {"Accept"}) => Has(Append(up, p), {"Accept"})
        /\ Has(up, Moving) => Has(Append(up, p), Moving)
    BY HasAppended
  <2>4. Has(d, {"Teleport"}) \/ (Has(Append(up, p), {"Accept"}) /\ Has(Append(up, p), Moving))
    BY <1>3, <1>6, <2>3 DEF EarlyOf
  <2>5. /\ (Has(d, {"View"}) => 1 = 0) /\ (Has(d, {"Teleport"}) => t = 0)
        /\ 1 \in {0, 1}
    BY <1>1, <1>3, <1>6
  <2> QED BY <1>1, <1>3, <1>4, <2>2, <2>4, <2>5 DEF EarlyOf
<1>7. ASSUME down[1].kind = "Teleport", NEW a, NEW m, a.kind = "Accept", m.kind = "Move"
      PROVE  EarlyOf(Append(Append(up, a), m), d, i, acts, owes)
  <2>1. PICK q : q = Append(up, a)
    OBVIOUS
  <2>2. IsSequence(q) /\ Len(q) = Len(up) + 1 /\ Has(q, {"Accept"})
    BY <1>7, <2>1, AppendFacts, HasAppended
  <2>3. /\ Len(Append(q, m)) = Len(up) + 2
        /\ Has(Append(q, m), {"Accept"}) /\ Has(Append(q, m), Moving)
    <3>1. Len(Append(q, m)) = Len(q) + 1 /\ Has(Append(q, m), {"Accept"})
      BY <2>2, AppendFacts, HasAppended
    <3>2. Has(Append(q, m), Moving)
      BY <1>7, <2>2, HasAppended DEF Moving
    <3> QED BY <1>4, <2>2, <3>1, <3>2
  <2>4. t = 0
    BY <1>1, <1>3, <1>7
  <2>5. i + Len(Append(q, m)) + o <= acts + v + 2
    BY <1>1, <1>4, <2>3, <2>4
  <2>6. (Has(d, {"View"}) => v = 0) /\ (Has(d, {"Teleport"}) => 2 = 0) /\ 2 \in {0, 2}
    BY <1>1, <1>3, <1>7
  <2>7. EarlyOf(Append(q, m), d, i, acts, owes)
    BY <1>1, <1>3, <1>4, <2>3, <2>5, <2>6 DEF EarlyOf
  <2> QED BY <2>1, <2>7
<1> QED BY <1>2, <1>5, <1>6, <1>7

\* The server sends no view and no teleport.
LEMMA EarlyTold ==
  ASSUME NEW up, NEW down, IsSequence(down), NEW i, NEW acts,
         NEW owes, EarlyOf(up, down, i, acts, owes), NEW p, p.kind \notin {"View", "Teleport"}
  PROVE  EarlyOf(up, Append(down, p), i, acts, owes)
<1>1. PICK d : d = Append(down, p)
  OBVIOUS
<1>2. /\ Alone(d, {"View"}) /\ Alone(d, {"Teleport"})
      /\ Has(d, {"View"}) => Has(down, {"View"})
      /\ Has(d, {"Teleport"}) <=> Has(down, {"Teleport"})
  <2>1. Alone(d, {"View"}) /\ Alone(d, {"Teleport"})
    BY <1>1, AloneAppended DEF EarlyOf
  <2>2. Has(d, {"View"}) => Has(down, {"View"})
    BY <1>1, HasAppended
  <2>3. Has(d, {"Teleport"}) <=> Has(down, {"Teleport"})
    BY <1>1, HasAppended
  <2> QED BY <2>1, <2>2, <2>3
<1> QED BY <1>1, <1>2 DEF EarlyOf

\* The client acts or a command kills its player, and the client wishes to
\* respawn.
LEMMA EarlyActed ==
  ASSUME NEW up, IsSequence(up), NEW down, NEW i \in Nat, NEW acts \in Nat, NEW owes,
         EarlyOf(up, down, i, acts, owes)
  PROVE  /\ \A p : \A n \in Nat : acts + 1 <= n /\ n <= MaxActs =>
              EarlyOf(Append(up, p), down, i, n, owes)
         /\ acts + 1 <= MaxActs => \A now : EarlyOf(up, down, i, acts + 1, now)
         /\ owes => \A p : EarlyOf(Append(up, p), down, i, acts, FALSE)
<1>1. PICK v \in {0, 1}, t \in {0, 2}, o \in {0, 1} :
        /\ (Has(down, {"View"}) => v = 0) /\ (Has(down, {"Teleport"}) => t = 0)
        /\ owes => o = 1
        /\ i + Len(up) + o <= acts + v + t
  BY DEF EarlyOf
<1>2. /\ Len(up) \in Nat /\ acts <= MaxActs /\ MaxActs \in Nat
      /\ Alone(down, {"View"}) /\ Alone(down, {"Teleport"})
      /\ Has(down, {"Teleport"}) \/ (Has(up, {"Accept"}) /\ Has(up, Moving))
  BY AppendFacts, PlayLoopAssumption DEF EarlyOf
<1>3. ASSUME NEW p
      PROVE  /\ Len(Append(up, p)) = Len(up) + 1
             /\ \/ Has(down, {"Teleport"})
                \/ Has(Append(up, p), {"Accept"}) /\ Has(Append(up, p), Moving)
  BY <1>2, AppendFacts, HasAppended
<1>4. ASSUME NEW p, NEW n \in Nat, acts + 1 <= n, n <= MaxActs
      PROVE  EarlyOf(Append(up, p), down, i, n, owes)
  <2>1. i + Len(Append(up, p)) + o <= n + v + t
    BY <1>1, <1>2, <1>3, <1>4
  <2> QED BY <1>1, <1>2, <1>3, <1>4, <2>1 DEF EarlyOf
<1>5. ASSUME acts + 1 <= MaxActs, NEW now PROVE EarlyOf(up, down, i, acts + 1, now)
  <2>1. i + Len(up) + 1 <= (acts + 1) + v + t /\ 1 \in {0, 1}
    BY <1>1, <1>2
  <2> QED BY <1>1, <1>2, <1>5, <2>1 DEF EarlyOf
<1>6. ASSUME owes, NEW p PROVE EarlyOf(Append(up, p), down, i, acts, FALSE)
  <2>1. i + Len(Append(up, p)) + 0 <= acts + v + t /\ 0 \in {0, 1}
    BY <1>1, <1>2, <1>3, <1>6
  <2> QED BY <1>1, <1>2, <1>3, <2>1 DEF EarlyOf
<1> QED BY <1>4, <1>5, <1>6

\* The packets that enter Play.
LEMMA TheFirstIsEarly ==
  ASSUME EntersPlay
  PROVE  Early'
<1>1. PICK a : a = Plain("PlayLogin")
  OBVIOUS
<1>2. PICK b : b = FirstView
  OBVIOUS
<1>3. PICK c : c = Teleport(SpawnTeleport, Spawn)
  OBVIOUS
<1>4. a.kind = "PlayLogin" /\ b.kind = "View" /\ c.kind = "Teleport"
  BY <1>1, <1>2, <1>3 DEF Plain, Packet, FirstView, View, Teleport
<1>5. PICK d : d = Append(<<>>, a)
  OBVIOUS
<1>6. PICK e : e = Append(d, b)
  OBVIOUS
<1>7. PICK f : f = Append(e, c)
  OBVIOUS
<1>8. /\ toServer' = <<>> /\ toClient' = f /\ loop'.ignored = 0 /\ history'.acts = 0
      /\ Owes' <=> FALSE
  BY <1>1, <1>2, <1>3, <1>5, <1>6, <1>7
     DEF EntersPlay, Fresh, NewLoop, Quiet, Owes
<1>9. \A K : Alone(<<>>, K) /\ ~Has(<<>>, K)
  BY HasNothing, NoneIsAlone
<1>10. IsSequence(d) /\ Alone(d, {"View"}) /\ ~Has(d, {"View"})
       /\ Alone(d, {"Teleport"}) /\ ~Has(d, {"Teleport"})
  BY <1>4, <1>5, <1>9, NoneFacts, AppendFacts, AloneAppended, HasAppended
<1>11. IsSequence(e) /\ Alone(e, {"View"}) /\ Has(e, {"View"})
       /\ Alone(e, {"Teleport"}) /\ ~Has(e, {"Teleport"})
  BY <1>4, <1>6, <1>10, AppendFacts, AloneAppended, HasAppended
<1>12. Alone(f, {"View"}) /\ Has(f, {"View"}) /\ Alone(f, {"Teleport"}) /\ Has(f, {"Teleport"})
  BY <1>4, <1>7, <1>11, AppendFacts, AloneAppended, HasAppended
<1>13. 0 + Len(<<>>) + 0 <= 0 + 0 + 0 /\ 0 <= MaxActs /\ 0 \in {0, 1} /\ 0 \in {0, 2}
  BY NoneFacts, PlayLoopAssumption
<1>14. EarlyOf(<<>>, f, 0, 0, FALSE)
  BY <1>12, <1>13 DEF EarlyOf
<1>15. ASSUME NEW o, o <=> FALSE PROVE EarlyOf(<<>>, f, 0, 0, o)
  BY <1>14, <1>15 DEF EarlyOf
<1> QED BY <1>8, <1>15 DEF Early

\* A client whose player has died in the bootstrap shows what is in the game.
LEMMA DeadInTheGame ==
  ASSUME TalkInv, Types, Entered, ProperLife, NEW up,
         FirstTeleport(up, toClient, events), InWorld, ~avatar.alive
  PROVE  entity.dead
<1>1. PICK m \in LifeStates : /\ Becomes(toClient, LifeOf(avatar), m, ProperSteps)
                              /\ Becomes(events, m, LifeInGame, ProperSteps)
  BY DEF ProperLife, LivesWith
<1>2. LifeOf(avatar) = "down"
  BY DEF LifeOf
<1>3. ~Has(toClient, Reborn) /\ ~Has(events, Granted)
  BY DEF FirstTeleport
<1>4. ~Has(toClient, Granted)
  BY DEF Types, PacketTypes, FromServer, ServerPacket, WorldKinds, Has, Granted
<1>5. ~Has(events, Reborn)
  BY DEF TalkInv, EventTypes, Has, Reborn
<1>6. IsSequence(toClient) /\ IsSequence(events)
  BY EnteredFacts DEF IsSequence
<1>7. m = "down"
  BY <1>1, <1>2, <1>3, <1>4, <1>6, StaysDead
<1>8. LifeInGame = "down"
  BY <1>1, <1>3, <1>5, <1>6, <1>7, StaysDead
<1> QED BY <1>8 DEF LifeInGame

\* Through every step.
LEMMA EarlyKept ==
  ASSUME SessionInv, TalkInv, Types, Types', Boot, [Next]_vars, Honest',
         Honest => Heartbeat /\ ProperLife /\ OnlyFirstTeleport /\ HomeOnly /\ Early
  PROVE  Early'
<1> SUFFICES ASSUME step' = "bootstrap" PROVE Early'
  BY DEF Early
<1>1. CASE EntersPlay
  BY <1>1, TheFirstIsEarly
<1> SUFFICES ASSUME Honest, step = "bootstrap" PROVE Early'
  BY <1>1, StepsOfTheBootstrap
<1>2. Entered
  BY DEF Honest
<1>3. PICK up : up = toServer
  OBVIOUS
<1>4. PICK down : down = toClient
  OBVIOUS
<1>5. PICK i : i = loop.ignored
  OBVIOUS
<1>6. PICK acts : acts = history.acts
  OBVIOUS
<1>7. PICK owes : owes = Owes
  OBVIOUS
<1>8. /\ EarlyOf(up, down, i, acts, owes) /\ FirstTeleport(up, down, events)
      /\ IsSequence(up) /\ IsSequence(down) /\ i \in Nat /\ acts \in Nat
  <2>1. EarlyOf(up, down, i, acts, owes) /\ FirstTeleport(up, down, events)
    BY <1>3, <1>4, <1>5, <1>6, <1>7 DEF OnlyFirstTeleport, Early
  <2>2. i \in Nat /\ acts \in Nat
    BY <1>5, <1>6 DEF Types, HistoryTypes, LoopTypes
  <2> QED BY <1>2, <1>3, <1>4, <2>1, <2>2, EnteredFacts
<1>9. ASSUME NEW q, NEW d, NEW j, NEW n, toServer' = q, toClient' = d,
             loop'.ignored = j, history'.acts = n, Owes' => owes, EarlyOf(q, d, j, n, owes)
      PROVE  Early'
  <2>1. EarlyOf(q, d, j, n, Owes')
    BY <1>9 DEF EarlyOf
  <2> QED BY <1>9, <2>1 DEF Early
<1>10. CASE /\ Boots /\ ReadBootstrap /\ UNCHANGED avatar
            /\ history'.acts = history.acts
  <2>1. /\ up[1].kind \notin {"Accept", "Move"} /\ up # <<>> /\ toServer' = Tail(up)
        /\ UNCHANGED toClient
    BY <1>2, <1>3, <1>10, BootRead DEF MovementKinds
  <2>2. loop'.ignored = i + 1 /\ UNCHANGED entity
    BY <1>5, <1>10 DEF Boots
  <2>3. Owes' => owes
    BY <1>7, <1>10, <2>2 DEF Owes
  <2>4. EarlyOf(Tail(up), down, i + 1, acts, owes)
    BY <1>8, <2>1, EarlyIgnored
  <2> QED BY <1>4, <1>6, <1>9, <1>10, <2>1, <2>2, <2>3, <2>4
<1>11. CASE KilledFromOutside
  <2>1. /\ UNCHANGED <<toServer, toClient, loop, avatar>>
        /\ history'.acts = acts + 1 /\ acts + 1 <= MaxActs
    BY <1>6, <1>11 DEF KilledFromOutside
  <2>2. EarlyOf(up, down, i, acts + 1, Owes')
    BY <1>8, <2>1, EarlyActed
  <2> QED BY <1>3, <1>4, <1>5, <2>1, <2>2 DEF Early
<1>12. CASE Dispatch
  <2>1. UNCHANGED <<toServer, loop, entity, avatar, history>> /\ events # <<>>
    BY <1>2, <1>4, <1>8, <1>12, DispatchEffect
  <2>2. events[1].kind # "teleported" /\ events[1].kind # "respawned"
    <3>1. IsSequence(events) /\ Addressed(down, events)
      BY <1>2, <1>4, EnteredFacts DEF HomeOnly, IsSequence
    <3> QED BY <1>8, <2>1, <3>1, AddressRead, FirstTeleportRead
  <2>3. PICK p : p.kind \in {"Died", "SystemChat"} /\ toClient' = Append(down, p)
    <3>1. toClient' = Append(down, Plain("Died")) \/ toClient' = Append(down, Plain("SystemChat"))
      BY <1>2, <1>4, <1>8, <1>12, <2>2, DispatchEffect
    <3>2. Plain("Died").kind = "Died" /\ Plain("SystemChat").kind = "SystemChat"
      BY DEF Plain, Packet
    <3> QED BY <3>1, <3>2
  <2>4. EarlyOf(up, Append(down, p), i, acts, owes)
    BY <1>8, <2>3, EarlyTold
  <2>5. Owes' => owes
    BY <1>7, <2>1 DEF Owes
  <2> QED BY <1>3, <1>5, <1>6, <1>9, <2>1, <2>3, <2>4, <2>5
<1>13. CASE Inhabit /\ (Enters \/ Lives)
  <2>1. down # <<>> /\ toClient' = Tail(down) /\ UNCHANGED <<loop, entity, history>>
    BY <1>2, <1>4, <1>13, LivesAnswers
  <2>2. PICK p : p = down[1]
    OBVIOUS
  <2>3. p.kind # "Respawned" /\ p.kind # "KeepAlive"
    <3>1. IsSequence(events)
      BY <1>2, EnteredFacts DEF IsSequence
    <3>2. p.kind # "Respawned"
      BY <1>8, <2>1, <2>2, <3>1, FirstTeleportRead
    <3>3. session.pending = NoId
      BY DEF SessionInv, SessionFits
    <3>4. ~Has(down, Asking)
      BY <1>4, <3>3 DEF Heartbeat, Pulse
    <3>5. p.kind # "KeepAlive"
      BY <1>8, <2>1, <2>2, <3>4, HasRead DEF Asking
    <3> QED BY <3>2, <3>5
  <2>4. \/ p.kind = "PlayLogin" /\ UNCHANGED <<toServer, avatar>>
        \/ /\ avatar' = AvatarAfter(avatar, p)
           /\ \/ p.kind \in {"SystemChat", "Died"} /\ UNCHANGED toServer
              \/ p.kind = "View" /\ toServer' = Append(up, Packet("ChunkBatch", 1))
              \/ /\ p.kind = "Teleport"
                 /\ toServer' = Append(Append(up, Packet("Accept", p.n)), Packet("Move", p.to))
    BY <1>2, <1>3, <1>4, <1>13, <2>2, <2>3, LivesAnswers
  <2>5. avatar'.asked = avatar.asked
    <3>1. CASE p.kind = "PlayLogin" /\ UNCHANGED <<toServer, avatar>>
      BY <3>1
    <3>2. CASE avatar' = AvatarAfter(avatar, p) /\ p.kind \in WorldKinds
      BY <1>4, <2>2, <2>3, <3>2, AvatarLives
    <3> QED BY <2>4, <3>1, <3>2 DEF WorldKinds
  <2>6. Owes' => owes
    BY <1>7, <2>1, <2>5 DEF Owes
  <2>7. PICK d : d = Tail(down)
    OBVIOUS
  <2>8. ASSUME NEW q, toServer' = q, EarlyOf(q, d, i, acts, owes) PROVE Early'
    BY <1>5, <1>6, <1>9, <2>1, <2>6, <2>7, <2>8
  <2>9. CASE p.kind \in {"PlayLogin", "SystemChat", "Died"} /\ UNCHANGED toServer
    <3>1. EarlyOf(up, d, i, acts, owes)
      BY <1>8, <2>1, <2>2, <2>7, <2>9, EarlyAnswered
    <3> QED BY <1>3, <2>8, <2>9, <3>1
  <2>10. CASE p.kind = "View" /\ toServer' = Append(up, Packet("ChunkBatch", 1))
    <3>1. PICK r : r = Packet("ChunkBatch", 1)
      OBVIOUS
    <3>2. EarlyOf(Append(up, r), d, i, acts, owes)
      BY <1>8, <2>1, <2>2, <2>7, <2>10, EarlyAnswered
    <3> QED BY <2>8, <2>10, <3>1, <3>2
  <2>11. CASE /\ p.kind = "Teleport"
              /\ toServer' = Append(Append(up, Packet("Accept", p.n)), Packet("Move", p.to))
    <3>1. PICK a : a = Packet("Accept", p.n)
      OBVIOUS
    <3>2. PICK m : m = Packet("Move", p.to)
      OBVIOUS
    <3>3. a.kind = "Accept" /\ m.kind = "Move"
      BY <3>1, <3>2 DEF Packet
    <3>4. EarlyOf(Append(Append(up, a), m), d, i, acts, owes)
      BY <1>8, <2>1, <2>2, <2>7, <2>11, <3>3, EarlyAnswered
    <3> QED BY <2>8, <2>11, <3>1, <3>2, <3>4
  <2> QED BY <2>4, <2>9, <2>10, <2>11
<1>14. ASSUME NEW p, Acts(p) PROVE Early'
  <2>1. UNCHANGED <<toClient, loop, entity>> /\ toServer' = Append(up, p) /\ InWorld
    BY <1>3, <1>14 DEF Acts, ActsAlone
  <2>2. CASE p.kind = "ClientCommand"
    <3>1. /\ ~avatar.alive /\ ~avatar.asked /\ avatar'.asked /\ history'.acts = acts
      BY <1>6, <1>14, <2>2 DEF Acts, AvatarActs, HistoryActs
    <3>2. entity.dead
      BY <1>2, <1>4, <1>8, <2>1, <3>1, DeadInTheGame
    <3>3. owes /\ ~Owes'
      BY <1>7, <3>1, <3>2 DEF Owes
    <3>4. EarlyOf(Append(up, p), down, i, acts, FALSE)
      BY <1>8, <3>3, EarlyActed
    <3>5. EarlyOf(Append(up, p), down, i, acts, Owes')
      BY <3>3, <3>4 DEF EarlyOf
    <3> QED BY <1>4, <1>5, <2>1, <3>1, <3>5 DEF Early
  <2>3. CASE p.kind # "ClientCommand"
    <3>1. avatar'.asked = avatar.asked
      BY <1>14, <2>3 DEF Acts, AvatarActs
    <3>2. PICK n : n = history'.acts
      OBVIOUS
    <3>3. n \in Nat /\ acts + 1 <= n /\ n <= MaxActs
      BY <1>6, <1>8, <1>14, <2>3, <3>2 DEF Acts, HistoryActs
    <3>4. EarlyOf(Append(up, p), down, i, n, owes)
      BY <1>8, <3>3, EarlyActed
    <3>5. Owes' => owes
      BY <1>7, <2>1, <3>1 DEF Owes
    <3> QED BY <1>4, <1>5, <1>9, <2>1, <3>2, <3>4, <3>5
  <2> QED BY <2>2, <2>3
<1>15. CASE UNCHANGED vars
  BY <1>15 DEF vars, connVars, playVars, Early, Owes
<1> QED BY <1>1, <1>10, <1>11, <1>12, <1>13, <1>14, <1>15, StepsOfTheBootstrap

---------------------------------------------------------------------------
\* The client informations that the negotiation of the packs has counted and
\* those on their way are the first one and those of the changed settings.
CountInformation ==
  {c \in Nat \X {"Brand", "ClientInformation", "LoginAcknowledged", "KnownPacks"} \X Nat :
     IF c[2] = "ClientInformation" THEN c[3] = c[1] + 1 /\ c[3] <= MaxInformation + 1
     ELSE c[3] = c[1]}
Informs(up, counted, informed) ==
  \E x \in Nat : x <= 1 + informed /\ Becomes(up, counted, x, CountInformation)
EarlySteps == {"handshake", "status", "ping", "loginStart", "loginAck"}
Negotiating ==
  conforms /\ client.phase \in {"Configuration", "Packs"} /\ step \in {"loginAck", "knownPacks"}
AuxiliaryInv ==
  /\ client.informed \in 0 .. MaxInformation
  /\ auxiliary \in Nat
  /\ step \in EarlySteps => auxiliary = 0
  /\ Negotiating => Informs(toServer, auxiliary, client.informed)

\* One more packet is on its way.
LEMMA InformsSent ==
  ASSUME NEW up, IsSequence(up), NEW counted, NEW informed \in 0 .. MaxInformation,
         Informs(up, counted, informed), NEW p
  PROVE  /\ p.kind = "KnownPacks" => Informs(Append(up, p), counted, informed)
         /\ p.kind = "ClientInformation" /\ informed < MaxInformation =>
              Informs(Append(up, p), counted, informed + 1)
<1>1. PICK x \in Nat : x <= 1 + informed /\ Becomes(up, counted, x, CountInformation)
  BY DEF Informs
<1>2. informed \in Nat /\ MaxInformation \in Nat
  BY ConnectionAssumption
<1>3. ASSUME p.kind = "KnownPacks" PROVE Informs(Append(up, p), counted, informed)
  <2>1. <<x, p.kind, x>> \in CountInformation
    BY <1>3 DEF CountInformation
  <2>2. Becomes(Append(up, p), counted, x, CountInformation)
    BY <1>1, <2>1, BecomesAppended
  <2> QED BY <1>1, <2>2 DEF Informs
<1>4. ASSUME p.kind = "ClientInformation", informed < MaxInformation
      PROVE  Informs(Append(up, p), counted, informed + 1)
  <2>1. x + 1 \in Nat /\ x + 1 <= 1 + (informed + 1) /\ x + 1 <= MaxInformation + 1
    BY <1>1, <1>2, <1>4
  <2>2. <<x, p.kind, x + 1>> \in CountInformation
    BY <1>4, <2>1 DEF CountInformation
  <2>3. Becomes(Append(up, p), counted, x + 1, CountInformation)
    BY <1>1, <2>2, BecomesAppended
  <2> QED BY <2>1, <2>3 DEF Informs
<1> QED BY <1>3, <1>4

\* One is read, and counted if it is an information: there is room for it.
LEMMA InformsRead ==
  ASSUME NEW up, IsSequence(up), up # <<>>, NEW counted \in Nat, NEW informed,
         Informs(up, counted, informed)
  PROVE  IF up[1].kind = "ClientInformation"
           THEN Informs(Tail(up), counted + 1, informed) /\ counted + 1 <= MaxInformation + 1
           ELSE Informs(Tail(up), counted, informed)
<1>1. PICK x \in Nat : x <= 1 + informed /\ Becomes(up, counted, x, CountInformation)
  BY DEF Informs
<1>2. PICK y : /\ <<counted, up[1].kind, y>> \in CountInformation
               /\ Becomes(Tail(up), y, x, CountInformation)
  BY <1>1, BecomesRead
<1>3. IF up[1].kind = "ClientInformation" THEN y = counted + 1 /\ y <= MaxInformation + 1
      ELSE y = counted
  BY <1>2 DEF CountInformation
<1> QED BY <1>1, <1>2, <1>3 DEF Informs

\* What the client sends with the acknowledgement of its login.
LEMMA FirstInformation ==
  ASSUME NEW informed \in 0 .. MaxInformation
  PROVE  LET q == <<Plain("LoginAcknowledged"), Plain("Brand"), Plain("ClientInformation")>>
         IN  \A up : up = <<>> \o q => Informs(up, 0, informed)
<1>1. PICK a : a = Plain("LoginAcknowledged")
  OBVIOUS
<1>2. PICK b : b = Plain("Brand")
  OBVIOUS
<1>3. PICK c : c = Plain("ClientInformation")
  OBVIOUS
<1>4. a.kind = "LoginAcknowledged" /\ b.kind = "Brand" /\ c.kind = "ClientInformation"
  BY <1>1, <1>2, <1>3 DEF Plain, Packet
<1>5. /\ <<0, a.kind, 0>> \in CountInformation /\ <<0, b.kind, 0>> \in CountInformation
      /\ <<0, c.kind, 1>> \in CountInformation
  <2>1. 0 \in Nat /\ 1 \in Nat /\ 1 = 0 + 1 /\ 1 <= MaxInformation + 1
    BY ConnectionAssumption
  <2> QED BY <1>4, <2>1 DEF CountInformation
<1>6. PICK d : d = Append(<<>>, a)
  OBVIOUS
<1>7. PICK e : e = Append(d, b)
  OBVIOUS
<1>8. IsSequence(d) /\ Becomes(d, 0, 0, CountInformation)
  <2>1. IsSequence(<<>>) /\ Becomes(<<>>, 0, 0, CountInformation)
    BY NoneFacts, NothingArrives
  <2>2. Becomes(Append(<<>>, a), 0, 0, CountInformation)
    BY <1>5, <2>1, BecomesAppended
  <2> QED BY <1>6, <2>1, <2>2, AppendFacts
<1>9. IsSequence(e) /\ Becomes(e, 0, 0, CountInformation)
  BY <1>5, <1>7, <1>8, AppendFacts, BecomesAppended
<1>10. Becomes(Append(e, c), 0, 1, CountInformation)
  BY <1>5, <1>9, BecomesAppended
<1>11. Informs(Append(e, c), 0, informed)
  <2>1. 1 \in Nat /\ 1 <= 1 + informed
    OBVIOUS
  <2> QED BY <1>10, <2>1 DEF Informs
<1>12. <<>> \o <<a, b, c>> = Append(e, c)
  <2>1. <<>> \o <<a, b, c>> = <<a, b, c>>
    BY ShortSequences
  <2>2. d = <<a>>
    BY <1>6
  <2>3. e = <<a, b>>
    BY <1>7, <1>8, <2>2, PairConcat, AppendFacts
  <2> QED BY <2>1, <2>3
<1> QED BY <1>1, <1>2, <1>3, <1>11, <1>12

\* What a step of the handler counts.
LEMMA HandlerCounts ==
  ASSUME HandlerStep
  PROVE  /\ UNCHANGED client
         /\ auxiliary' = auxiliary \/ (ReadAuxiliary /\ auxiliary' = auxiliary + 1)
         /\ step' \in EarlySteps => step \in EarlySteps /\ auxiliary' = auxiliary
<1> USE DEF Gets, Reads, Goes, Ends, EarlySteps, Rest
<1>1. CASE SkipBrand \/ Unexpected \/ ReadHandshake \/ AnswerStatus \/ AnswerPing
  BY <1>1 DEF SkipBrand, Unexpected, ReadHandshake, AnswerStatus, AnswerPing
<1>2. CASE ReadLoginStart \/ ReadLoginAcknowledged \/ ReadKnownPacks \/ EnterPlay \/ EndOfStream
  BY <1>2 DEF ReadLoginStart, ReadLoginAcknowledged, ReadKnownPacks, EnterPlay, EndOfStream
<1>3. CASE ReadAuxiliary
  BY <1>3 DEF ReadAuxiliary
<1> QED BY <1>1, <1>2, <1>3 DEF HandlerStep

\* A conforming client that negotiates its packs, and the packet that the
\* handler reads next.
LEMMA HandlerNegotiates ==
  ASSUME TalkInv, HandlerStep, Negotiating'
  PROVE  /\ Negotiating /\ toServer # <<>> /\ toServer' = Tail(toServer) /\ IsSequence(toServer)
         /\ Incoming.kind = "ClientInformation" <=> ReadAuxiliary
<1>1. UNCHANGED client
  BY HandlerCounts
<1>2. /\ conforms /\ client.phase \in {"Configuration", "Packs"}
  BY <1>1, HandlerReads DEF Negotiating, HandlerStep, SkipBrand, Unexpected, ReadHandshake,
     AnswerStatus, AnswerPing, ReadLoginStart, ReadLoginAcknowledged, ReadAuxiliary,
     ReadKnownPacks, EnterPlay, EndOfStream, Rest
<1>3. toServer # <<>> /\ toServer' = Tail(toServer) /\ step # "ended"
  BY <1>2, HandlerReads
<1>4. Configuring \/ ChoosingPacks
  BY <1>2 DEF TalkInv, Conversation
<1>5. \/ /\ step = "loginAck" /\ toServer \in Seq(ConfigurationPackets)
         /\ toServer[1] = Plain("LoginAcknowledged")
      \/ step = "knownPacks" /\ IsSequence(toServer)
  <2>1. ASSUME NEW q \in Seq(ConfigurationPackets), toServer = Append(q, Choice)
        PROVE  IsSequence(toServer)
    BY <2>1, AppendFacts DEF IsSequence
  <2> QED BY <1>3, <1>4, <2>1 DEF Configuring, ChoosingPacks, HandlerLeft, OnTheWay, IsSequence
<1>6. Negotiating /\ IsSequence(toServer)
  BY <1>2, <1>5 DEF Negotiating, IsSequence
<1>7. ReadAuxiliary => Incoming.kind = "ClientInformation"
  BY DEF ReadAuxiliary, Gets
<1>8. ASSUME Incoming.kind = "ClientInformation" PROVE ReadAuxiliary
  <2>1. step = "knownPacks"
    BY <1>5, <1>8 DEF Incoming, Plain, Packet
  <2> QED BY <1>2, <1>8, <2>1, HandlerReads
<1> QED BY <1>3, <1>6, <1>7, <1>8

\* A step of the handler.
LEMMA AuxiliaryInHandler ==
  ASSUME TalkInv, AuxiliaryInv, HandlerStep
  PROVE  AuxiliaryInv'
<1>1. /\ UNCHANGED client
      /\ auxiliary' = auxiliary \/ (ReadAuxiliary /\ auxiliary' = auxiliary + 1)
      /\ step' \in EarlySteps => step \in EarlySteps /\ auxiliary' = auxiliary
  BY HandlerCounts
<1>2. auxiliary \in Nat /\ auxiliary' \in Nat
  BY <1>1 DEF AuxiliaryInv
<1>3. ASSUME Negotiating' PROVE Informs(toServer', auxiliary', client.informed)
  <2>1. /\ Negotiating /\ toServer # <<>> /\ toServer' = Tail(toServer) /\ IsSequence(toServer)
        /\ Incoming.kind = "ClientInformation" <=> ReadAuxiliary
    BY <1>3, HandlerNegotiates
  <2>2. Informs(toServer, auxiliary, client.informed)
    BY <2>1 DEF AuxiliaryInv
  <2>3. IF toServer[1].kind = "ClientInformation"
          THEN Informs(Tail(toServer), auxiliary + 1, client.informed)
          ELSE Informs(Tail(toServer), auxiliary, client.informed)
    BY <1>2, <2>1, <2>2, InformsRead
  <2>4. CASE ReadAuxiliary
    <3>1. auxiliary' = auxiliary + 1
      BY <2>4 DEF ReadAuxiliary
    <3> QED BY <2>1, <2>3, <2>4, <3>1 DEF Incoming
  <2>5. CASE ~ReadAuxiliary
    BY <1>1, <2>1, <2>3, <2>5 DEF Incoming
  <2> QED BY <2>4, <2>5
<1> QED BY <1>1, <1>2, <1>3 DEF AuxiliaryInv

\* A step of the client before Play.
LEMMA AuxiliaryInClient ==
  ASSUME TalkInv, AuxiliaryInv, ClientStep
  PROVE  AuxiliaryInv'
<1>1. UNCHANGED <<conforms, step, auxiliary>>
  BY DEF ClientStep, Open, Receive, Inform, Leave, Stray, ServerRest
<1>2. client = [f \in {"phase", "informed"} |-> client[f]]
  BY DEF TalkInv
<1>3. client.informed \in 0 .. MaxInformation /\ MaxInformation \in Nat
  BY ConnectionAssumption DEF AuxiliaryInv
<1>4. CASE \E intent \in {1, 2} : Open(intent)
  BY <1>1, <1>2, <1>4 DEF Open, AuxiliaryInv, Negotiating
<1>5. CASE Receive
  <2> DEFINE done == Understood(client.phase, toClient[1])
  <2>1. /\ conforms /\ client.phase \notin {"new", "Play", "InWorld", "gone", "confused"}
        /\ toServer' = toServer \o done.answers
        /\ client' = [client EXCEPT !.phase = done.phase]
    BY <1>5 DEF Receive, ClientSends
  <2> HIDE DEF done
  <2>2. client'.informed = client.informed /\ client'.phase = done.phase
    BY <1>2, <2>1
  <2>3. ASSUME Negotiating' PROVE Informs(toServer', auxiliary, client.informed)
    <3>1. done.phase \in {"Configuration", "Packs"}
      BY <2>2, <2>3 DEF Negotiating
    <3>2. \/ /\ client.phase = "Login"
             /\ done.answers = <<Plain("LoginAcknowledged"), Plain("Brand"),
                                 Plain("ClientInformation")>>
          \/ client.phase = "Configuration" /\ done.answers = <<Packet("KnownPacks", 1)>>
      BY <3>1 DEF done, Understood, Answer, NotUnderstood
    <3>3. CASE /\ client.phase = "Login"
               /\ done.answers = <<Plain("LoginAcknowledged"), Plain("Brand"),
                                   Plain("ClientInformation")>>
      <4>1. step = "loginAck" /\ toServer = <<>>
        BY <1>1, <2>1, <2>3, <3>3 DEF TalkInv, Conversation, LoggingIn, OnTheWay, HandlerLeft,
                                     Negotiating
      <4>2. auxiliary = 0
        BY <4>1 DEF AuxiliaryInv, EarlySteps
      <4> QED BY <1>3, <2>1, <3>3, <4>1, <4>2, FirstInformation
    <3>4. CASE client.phase = "Configuration" /\ done.answers = <<Packet("KnownPacks", 1)>>
      <4>1. Negotiating
        BY <1>1, <2>1, <2>3, <3>4 DEF Negotiating
      <4>2. IsSequence(toServer)
        BY <2>1, <3>4, <4>1 DEF TalkInv, Conversation, Configuring, HandlerLeft, IsSequence,
                                Negotiating
      <4>3. Informs(toServer, auxiliary, client.informed)
        BY <4>1 DEF AuxiliaryInv
      <4>4. Packet("KnownPacks", 1).kind = "KnownPacks"
        BY DEF Packet
      <4>5. PICK p : p = Packet("KnownPacks", 1)
        OBVIOUS
      <4>6. Informs(Append(toServer, p), auxiliary, client.informed)
        BY <1>3, <4>2, <4>3, <4>4, <4>5, InformsSent
      <4>7. toServer' = Append(toServer, p)
        BY <2>1, <3>4, <4>2, <4>5, AppendFacts
      <4> QED BY <4>6, <4>7
    <3> QED BY <3>2, <3>3, <3>4
  <2> QED BY <1>1, <2>2, <2>3 DEF AuxiliaryInv
<1>6. CASE Inform
  <2>1. /\ conforms /\ client.phase = "Configuration" /\ client.informed < MaxInformation
        /\ client' = [client EXCEPT !.informed = client.informed + 1]
        /\ toServer' = toServer \o <<Plain("ClientInformation")>>
    BY <1>6 DEF Inform, ClientSends
  <2>2. client'.informed = client.informed + 1 /\ client'.phase = client.phase
        /\ client.informed + 1 \in 0 .. MaxInformation
    BY <1>2, <1>3, <2>1
  <2>3. ASSUME Negotiating' PROVE Informs(toServer', auxiliary, client.informed + 1)
    <3>1. Negotiating
      BY <1>1, <2>2, <2>3 DEF Negotiating
    <3>2. IsSequence(toServer)
      BY <2>1, <3>1 DEF TalkInv, Conversation, Configuring, HandlerLeft, IsSequence, Negotiating
    <3>3. Informs(toServer, auxiliary, client.informed)
      BY <3>1 DEF AuxiliaryInv
    <3>4. PICK p : p = Plain("ClientInformation")
      OBVIOUS
    <3>5. p.kind = "ClientInformation"
      BY <3>4 DEF Plain, Packet
    <3>6. Informs(Append(toServer, p), auxiliary, client.informed + 1)
      BY <1>3, <2>1, <3>2, <3>3, <3>5, InformsSent
    <3>7. toServer' = Append(toServer, p)
      BY <2>1, <3>2, <3>4, AppendFacts
    <3> QED BY <3>6, <3>7
  <2> QED BY <1>1, <2>2, <2>3 DEF AuxiliaryInv
<1>7. CASE Leave
  BY <1>1, <1>2, <1>7 DEF Leave, AuxiliaryInv, Negotiating
<1>8. CASE Stray
  BY <1>1, <1>8 DEF Stray, AuxiliaryInv, Negotiating
<1> QED BY <1>4, <1>5, <1>6, <1>7, <1>8 DEF ClientStep

\* Every step.
LEMMA AuxiliaryKept ==
  ASSUME TalkInv, Types, SessionInv, AuxiliaryInv, [Next]_vars
  PROVE  AuxiliaryInv'
<1>1. CASE (HandlerStep \/ ClientStep) /\ UNCHANGED playVars
  BY <1>1, AuxiliaryInHandler, AuxiliaryInClient
<1>2. ASSUME UNCHANGED <<conforms, client, auxiliary, toServer, step>> PROVE AuxiliaryInv'
  BY <1>2 DEF AuxiliaryInv, Negotiating
<1>3. CASE LoopStep
  <2>1. UNCHANGED <<client, auxiliary>>
    BY <1>3 DEF LoopStep, ReadBootstrap, Request, ReadAnswer, ReadTick, ReadUndecodable,
         ReadHarmless, ReadChat, ReadCommand, ReadUnknown, ReadMovement, Synchronize,
         ReadRespawn, PlayEnds, Unaffected, PlayersSide, Rest
  <2>2. step' \notin EarlySteps /\ step' \notin {"loginAck", "knownPacks"}
    BY <1>3, LoopEffect DEF Traffic, Farewell, Going, EarlySteps
  <2>3. ~Negotiating'
    BY <2>2 DEF Negotiating
  <2> QED BY <2>1, <2>2, <2>3 DEF AuxiliaryInv
<1>4. CASE Command \/ Dispatch \/ ForeignRequest
  BY <1>2, <1>4 DEF Command, Dispatch, ForeignRequest, connVars
<1>5. CASE PlayerStep
  <2>1. UNCHANGED <<conforms, step, auxiliary>>
    BY <1>5 DEF PlayerStep, Inhabit, Walk, Idle, Speak, AskRespawn, ServerUntouched
  <2>2. client'.informed = client.informed /\ client'.phase \notin {"Configuration", "Packs"}
    <3>1. client = [f \in {"phase", "informed"} |-> client[f]]
      BY DEF TalkInv
    <3> QED BY <1>5, <3>1 DEF PlayerStep, Inhabit, Walk, Idle, Speak, AskRespawn, InWorld
  <2>3. ~Negotiating'
    BY <2>2 DEF Negotiating
  <2> QED BY <2>1, <2>2, <2>3 DEF AuxiliaryInv
<1>6. CASE UNCHANGED vars
  BY <1>2, <1>6 DEF vars, connVars, playVars
<1> QED BY <1>1, <1>3, <1>4, <1>5, <1>6 DEF Next

---------------------------------------------------------------------------
\* No step of the server ends such a client with an error.
Undisturbed == conforms /\ client.phase # "gone" /\ ~history.teleported /\ history.foreign = 0
Ended == Undisturbed => outcome # "error"

\* A packet of the configuration is none that ends it.
LEMMA PacksStay ==
  ASSUME TalkInv, AuxiliaryInv, MaxInformation < MaxAuxiliary, HandlerStep, outcome # "error",
         conforms, client.phase \in {"Configuration", "Packs"}
  PROVE  outcome' # "error"
<1>1. toServer # <<>> /\ toServer' = Tail(toServer) /\ step # "ended"
  BY HandlerReads
<1>2. Configuring \/ ChoosingPacks
  BY DEF TalkInv, Conversation
<1>3. CASE step = "loginAck"
  <2>1. toServer[1] = Plain("LoginAcknowledged")
    BY <1>1, <1>2, <1>3 DEF Configuring, ChoosingPacks, HandlerLeft, OnTheWay
  <2>2. ReadLoginAcknowledged
    <3>1. Incoming.kind = "LoginAcknowledged"
      BY <2>1 DEF Incoming, Plain, Packet
    <3> QED BY <1>3, <3>1, HandlerReads
  <2> QED BY <2>2 DEF ReadLoginAcknowledged, Goes
<1>4. CASE step = "knownPacks"
  <2>1. /\ Incoming.kind \in {"Brand", "ClientInformation", "KnownPacks"}
        /\ Incoming.kind = "KnownPacks" => Incoming.n = 1
    <3>1. CASE toServer \in Seq(ConfigurationPackets) /\ Noise(toServer)
      BY <1>1, <3>1, NoiseTaken DEF Incoming
    <3>2. ASSUME NEW q \in Seq(ConfigurationPackets), Noise(q), toServer = Append(q, Choice)
          PROVE  /\ Incoming.kind \in {"Brand", "ClientInformation", "KnownPacks"}
                 /\ Incoming.kind = "KnownPacks" => Incoming.n = 1
      <4>1. CASE q = <<>>
        <5>1. Incoming = Choice
          BY <3>2, <4>1 DEF Incoming
        <5> QED BY <5>1 DEF Choice, Packet
      <4>2. CASE q # <<>>
        <5>1. Incoming = q[1]
          BY <3>2, <4>2 DEF Incoming
        <5> QED BY <3>2, <4>2, <5>1, NoiseTaken
      <4> QED BY <4>1, <4>2
    <3> QED BY <1>1, <1>2, <1>4, <3>1, <3>2 DEF Configuring, ChoosingPacks, HandlerLeft, OnTheWay
  <2>2. CASE Incoming.kind = "Brand"
    <3>1. SkipBrand
      BY <1>4, <2>2, HandlerReads
    <3> QED BY <3>1 DEF SkipBrand
  <2>3. CASE Incoming.kind = "ClientInformation"
    <3>1. ReadAuxiliary
      BY <1>4, <2>3, HandlerReads
    <3>2. Informs(toServer, auxiliary, client.informed) /\ auxiliary \in Nat
      BY <1>4 DEF AuxiliaryInv, Negotiating
    <3>3. IsSequence(toServer)
      <4>1. ASSUME NEW q \in Seq(ConfigurationPackets), toServer = Append(q, Choice)
            PROVE  IsSequence(toServer)
        BY <4>1, AppendFacts DEF IsSequence
      <4> QED BY <1>1, <1>2, <1>4, <4>1
              DEF Configuring, ChoosingPacks, HandlerLeft, OnTheWay, IsSequence
    <3>4. auxiliary + 1 <= MaxInformation + 1
      BY <1>1, <2>3, <3>2, <3>3, InformsRead DEF Incoming
    <3>5. ~(auxiliary + 1 > MaxAuxiliary)
      BY <3>2, <3>4, ConnectionAssumption
    <3> QED BY <3>1, <3>5 DEF ReadAuxiliary, Goes
  <2>4. CASE Incoming.kind = "KnownPacks"
    <3>1. ReadKnownPacks
      BY <1>4, <2>4, HandlerReads
    <3> QED BY <2>1, <2>4, <3>1 DEF ReadKnownPacks, Goes
  <2> QED BY <2>1, <2>2, <2>3, <2>4
<1> QED BY <1>1, <1>2, <1>3, <1>4 DEF Configuring, ChoosingPacks, HandlerLeft, OnTheWay

\* No packet on the way to Play is.
LEMMA HandlerStays ==
  ASSUME TalkInv, Types, AuxiliaryInv, MaxInformation < MaxAuxiliary, HandlerStep,
         conforms, client.phase # "gone", outcome # "error"
  PROVE  outcome' # "error"
<1>1. toServer # <<>> /\ toServer' = Tail(toServer) /\ step # "ended"
  BY HandlerReads
<1>2. ASSUME NEW intent \in {1, 2}, NEW p,
             OnTheWay("handshake", <<Packet("Handshake", intent), p>>, <<>>)
      PROVE  outcome' # "error"
  <2>1. Incoming.kind = "Handshake" /\ Incoming.n = intent
    BY <1>2, ShortSequences DEF OnTheWay, Incoming, Packet
  <2>2. ReadHandshake
    BY <1>2, <2>1, HandlerReads DEF OnTheWay
  <2> QED BY <2>1, <2>2 DEF ReadHandshake, Goes, Ends
<1>3. CASE client.phase = "Status"
  <2>1. CASE step = "status"
    <3>1. Incoming.kind = "StatusRequest"
      BY <1>3, <2>1, ShortSequences DEF TalkInv, Conversation, AskingStatus, OnTheWay, HandlerLeft,
                                       Incoming, Plain, Packet
    <3>2. AnswerStatus
      BY <1>3, <2>1, <3>1, HandlerReads
    <3> QED BY <3>2 DEF AnswerStatus, Goes
  <2>2. CASE step = "ping"
    <3>1. Incoming.kind = "PingRequest"
      BY <1>1, <1>3, <2>2, ShortSequences DEF TalkInv, Conversation, AskingStatus, OnTheWay,
                                       HandlerLeft, Incoming, Plain, Packet
    <3>2. AnswerPing
      BY <1>3, <2>2, <3>1, HandlerReads
    <3> QED BY <3>2 DEF AnswerPing, Ends
  <2> QED BY <1>1, <1>2, <1>3, <2>1, <2>2 DEF TalkInv, Conversation, AskingStatus, OnTheWay,
                                             HandlerLeft
<1>4. CASE client.phase = "Login"
  <2>1. CASE step = "loginStart"
    <3>1. Incoming.kind = "LoginStart" /\ Incoming.n = 1
      BY <1>4, <2>1, ShortSequences DEF TalkInv, Conversation, LoggingIn, OnTheWay, HandlerLeft,
                                       Incoming, Packet
    <3>2. ReadLoginStart
      BY <1>4, <2>1, <3>1, HandlerReads
    <3> QED BY <3>1, <3>2 DEF ReadLoginStart, Ends, Goes
  <2> QED BY <1>1, <1>2, <1>4, <2>1 DEF TalkInv, Conversation, LoggingIn, OnTheWay, HandlerLeft
<1>5. CASE client.phase \in {"Configuration", "Packs"}
  BY <1>5, PacksStay
<1>6. CASE client.phase = "Play"
  <2>1. step = "configAck" /\ toServer = <<Plain("ConfigurationAcknowledged")>>
    BY <1>1, <1>6 DEF TalkInv, Conversation, EnteringPlay, OnTheWay, HandlerLeft
  <2>2. EnterPlay
    BY <1>6, <2>1, HandlerReads, ShortSequences DEF Incoming, Plain, Packet
  <2> QED BY <2>2 DEF EnterPlay, Ends, Goes
<1>7. CASE client.phase = "InWorld"
  <2>1. step \notin PreplaySteps
    BY <1>7 DEF Types, PacketTypes, InWorld
  <2>2. SkipBrand
    BY <2>1 DEF HandlerStep, Unexpected, ReadHandshake, AnswerStatus, AnswerPing,
       ReadLoginStart, ReadLoginAcknowledged, ReadAuxiliary, ReadKnownPacks, EnterPlay,
       EndOfStream, Gets, Reads, PreplaySteps
  <2> QED BY <2>2 DEF SkipBrand
<1> QED BY <1>1, <1>3, <1>4, <1>5, <1>6, <1>7
        DEF TalkInv, Conversation, Silence, ReadingData, OnTheWay

\* The bootstrap.
LEMMA BootstrapStays ==
  ASSUME RoomForHonesty, TalkInv, Types, Boot, Entered, ReadBootstrap, OnlyFirstTeleport, Early
  PROVE  outcome' # "error"
<1>1. /\ step = "bootstrap" /\ toServer # <<>> /\ IsSequence(toServer) /\ IsSequence(events)
      /\ IsSequence(toClient) /\ FromClient(toServer) /\ outcome = "open"
  <2>1. step = "bootstrap" /\ toServer # <<>>
    BY DEF ReadBootstrap, Reads
  <2>2. InWorld
    BY <2>1, EnteredFacts DEF Entered, InWorld
  <2> QED BY <2>1, <2>2, EnteredFacts DEF Types, PacketTypes, IsSequence
<1>2. PICK up : up = toServer
  OBVIOUS
<1>3. PICK p : p = up[1]
  OBVIOUS
<1>4. /\ p.kind \notin MovementKinds /\ ~loop.accepted
      /\ p.kind = "Accept" => loop.batched
  <2>1. /\ ~loop.accepted /\ Preceded(up, MovementKinds, {"Accept"})
        /\ loop.batched \/ Preceded(up, {"Accept"}, {"ChunkBatch"})
    BY <1>1, <1>2 DEF Boot
  <2>2. p.kind \notin MovementKinds
    BY <1>1, <1>2, <1>3, <2>1, PrecededRead
  <2>3. Preceded(up, {"Accept"}, {"ChunkBatch"}) => p.kind # "Accept"
    BY <1>1, <1>2, <1>3, PrecededRead
  <2> QED BY <2>1, <2>2, <2>3
<1>5. p.kind = "Accept" => p.n = SpawnTeleport
  <2>1. FirstTeleport(up, toClient, events)
    BY <1>1, <1>2 DEF OnlyFirstTeleport
  <2> QED BY <1>1, <1>2, <1>3, <2>1, FirstTeleportRead
<1>6. p.kind = "ChunkBatch" => p.n # 0
  <2>1. ClientPacket(p)
    BY <1>1, <1>2, <1>3, FromClientRead
  <2> QED BY <2>1 DEF ClientPacket
<1>7. p.kind # "Accept" => loop.ignored + 1 # MaxIgnored
  <2>1. /\ EarlyOf(up, toClient, loop.ignored, history.acts, Owes)
        /\ loop.ignored \in Nat /\ history.acts \in Nat
    BY <1>1, <1>2 DEF Early, Types, LoopTypes, HistoryTypes
  <2>2. ASSUME p.kind # "Accept" PROVE loop.ignored + 1 # MaxIgnored
    <3>1. up[1].kind \notin {"Accept", "Move"}
      BY <1>3, <1>4, <2>2 DEF MovementKinds
    <3> QED BY <1>1, <1>2, <2>1, <3>1, EarlyIgnored
  <2> QED BY <2>2
<1>8. Incoming = p
  BY <1>2, <1>3 DEF Incoming
<1>9. LoopFields = LoopFields /\ loop = [f \in LoopFields |-> loop[f]]
  BY DEF Types, LoopTypes, IsLoop
<1> DEFINE l == [loop EXCEPT !.accepted = @ \/ Incoming.kind = "Accept",
                             !.batched = @ \/ Incoming.kind = "ChunkBatch",
                             !.ignored = @ + 1]
<1>10. /\ l.accepted <=> loop.accepted \/ p.kind = "Accept"
       /\ l.batched <=> loop.batched \/ p.kind = "ChunkBatch"
       /\ l.ignored = loop.ignored + 1
  BY <1>8, <1>9 DEF LoopFields
<1>11. \/ /\ \/ p.kind \in MovementKinds /\ ~loop.accepted
             \/ p.kind = "Accept" /\ p.n # SpawnTeleport
             \/ p.kind = "ChunkBatch" /\ p.n = 0
       \/ LoopStarts([l EXCEPT !.ignored = 0])
       \/ ~(l.accepted /\ l.batched) /\ l.ignored = MaxIgnored
       \/ Goes("bootstrap")
  BY <1>8 DEF ReadBootstrap
<1> HIDE DEF l
<1> QED BY <1>1, <1>4, <1>5, <1>6, <1>7, <1>10, <1>11 DEF LoopStarts, Goes

\* The loop.
LEMMA LoopStays ==
  ASSUME RoomForHonesty, TalkInv, Types, Boot, Entered, LoopStep,
         OnlyFirstTeleport, Early, Heartbeat, Known, Route
  PROVE  outcome' # "error"
<1>1. outcome = "open"
  BY DEF Types, Entered, InPlay
<1>2. ASSUME Goes(step') PROVE outcome' # "error"
  BY <1>1, <1>2 DEF Goes
<1>3. ASSUME NEW l, AfterPacket(l) PROVE outcome' # "error"
  BY <1>1, <1>3 DEF AfterPacket, Goes
<1>4. CASE ReadBootstrap
  BY <1>4, BootstrapStays
<1>5. CASE Request \/ ReadTick \/ ReadHarmless \/ ReadChat \/ ReadCommand
           \/ Synchronize \/ ReadRespawn
  BY <1>1, <1>3, <1>5 DEF Request, ReadTick, ReadHarmless, ReadChat, ReadCommand, Synchronize,
                          ReadRespawn, Goes
<1>6. CASE PlayEnds
  BY <1>6 DEF PlayEnds, Entered
<1> SUFFICES ASSUME step = "read", toServer # <<>> PROVE outcome' # "error"
  BY <1>4, <1>5, <1>6 DEF LoopStep, ReadAnswer, ReadUndecodable, ReadUnknown, ReadMovement,
                          Gets, Reads
<1>7. PICK up : up = toServer
  OBVIOUS
<1>8. PICK p : p = up[1]
  OBVIOUS
<1>9. Incoming = p
  BY <1>7, <1>8 DEF Incoming
<1>10. IsSequence(up) /\ IsSequence(toClient) /\ ClientPacket(p)
  <2>1. InWorld
    BY EnteredFacts DEF Entered, InWorld
  <2>2. FromClient(up)
    BY <1>7, <2>1 DEF Types, PacketTypes
  <2> QED BY <1>7, <1>8, <2>2, EnteredFacts, FromClientRead
<1>11. p.kind = "Move" => p.n \in Places /\ Distance(entity.at, p.n) <= MaxDelta
  <2>1. From = entity.at
    BY DEF From
  <2>2. PICK f : f = entity.at
    OBVIOUS
  <2>3. PICK pending : pending = ~NotPending
    OBVIOUS
  <2>4. RouteOf(up, f, avatar.at, pending)
    BY <1>7, <2>1, <2>2, <2>3 DEF Route
  <2> QED BY <1>7, <1>8, <1>10, <2>2, <2>4, RouteRead
<1>12. CASE ReadAnswer
  <2>1. p.kind = "KeepAlive"
    BY <1>9, <1>12 DEF ReadAnswer, Gets
  <2>2. Pulse(up, toClient, session.pending, loop.id)
    BY <1>7 DEF Heartbeat
  <2>3. p.n = loop.id /\ session.pending # NoId
    BY <1>7, <1>8, <1>10, <2>1, <2>2, PulseAnswered
  <2> QED BY <1>3, <1>9, <1>12, <2>3 DEF ReadAnswer
<1>13. CASE ReadUndecodable
  <2>1. p.kind \in DecodedKinds /\ ~Decodes(p)
    BY <1>9, <1>13 DEF ReadUndecodable
  <2>2. p.kind \in MovementKinds => DecodesMovement(p)
    <3>1. p.kind = "Turn" => p.n = 0
      BY <1>10 DEF ClientPacket
    <3>2. p.kind = "Move" => p.n # Unreadable
      BY <1>11, UnreadableAssumption
    <3>3. 0 # Unreadable
      BY DEF Unreadable
    <3> QED BY <3>1, <3>2, <3>3 DEF MovementKinds, DecodesMovement
  <2>3. p.kind \notin MovementKinds =>
          /\ p.kind = "Accept" => p.n \in Nat
          /\ p.kind = "ClientCommand" => p.n = 0
          /\ p.kind \in {"ChunkBatch", "Gameplay", "ChatCommand", "Chat"} => p.n = 1
    BY <1>10 DEF ClientPacket, MovementKinds
  <2> QED BY <2>1, <2>2, <2>3 DEF Decodes, DecodedKinds, MovementKinds
<1>14. CASE ReadUnknown
  <2>1. p.kind \notin KnownKinds
    BY <1>9, <1>14 DEF ReadUnknown
  <2>2. p.kind = "Other"
    BY <1>10, <2>1 DEF ClientPacket, KnownKinds, DecodedKinds, MovementKinds
  <2>3. PICK i : i = loop.ignored
    OBVIOUS
  <2>4. PICK acts : acts = history.acts
    OBVIOUS
  <2>5. Counts(up, i, acts) /\ i \in Nat /\ acts \in Nat
    BY <1>7, <2>3, <2>4 DEF Known, Ignored, Types, LoopTypes, HistoryTypes
  <2>6. i < MaxActs
    BY <1>7, <1>8, <1>10, <2>2, <2>5, CountRead
  <2>7. loop.ignored # MaxIgnored
    BY <2>3, <2>5, <2>6, PlayLoopAssumption DEF RoomForHonesty
  <2> QED BY <1>3, <1>14, <2>7 DEF ReadUnknown
<1>15. CASE ReadMovement
  <2>1. Acceptable(p)
    BY <1>11 DEF Acceptable
  <2> QED BY <1>1, <1>9, <1>15, <2>1 DEF ReadMovement, Goes
<1> QED BY <1>4, <1>5, <1>6, <1>12, <1>13, <1>14, <1>15 DEF LoopStep

---------------------------------------------------------------------------
HonestParts ==
  /\ Heartbeat /\ ProperLife /\ OneWish /\ HomeOnly
  /\ OnlyFirstTeleport /\ Route /\ Known /\ Early
HonestInv == PlaceInv /\ SessionInv /\ AuxiliaryInv /\ (Honest => HonestParts) /\ Ended

\* Every step keeps what holds while it is honest.
LEMMA HonestPartsKept ==
  ASSUME RoomForHonesty, HonestInv, PlaceInv', SessionInv', [Next]_vars, Honest'
  PROVE  HonestParts'
<1>1. /\ SessionInv /\ TalkInv /\ Types /\ Boot /\ (Honest => HonestParts)
      /\ Types'
  BY DEF HonestInv, PlaceInv
<1>2. Heartbeat'
  BY <1>1, HeartbeatKept DEF HonestParts
<1>3. ProperLife'
  BY <1>1, ProperLifeKept DEF HonestParts
<1>4. OneWish'
  BY <1>1, WishKept DEF HonestParts
<1>5. HomeOnly'
  BY <1>1, AddressKept DEF HonestParts
<1>6. OnlyFirstTeleport'
  BY <1>1, FirstTeleportKept DEF HonestParts
<1>7. Route'
  BY <1>1, RouteKept DEF HonestParts
<1>8. Known'
  BY <1>1, KnownKept DEF HonestParts
<1>9. Early'
  BY <1>1, EarlyKept DEF HonestParts
<1> QED BY <1>2, <1>3, <1>4, <1>5, <1>6, <1>7, <1>8, <1>9 DEF HonestParts

\* A client that is undisturbed was so before.
LEMMA UndisturbedBefore ==
  ASSUME TalkInv, Types, Types', [Next]_vars, Undisturbed'
  PROVE  Undisturbed
<1>1. conforms' = conforms
  BY DEF Next, vars, connVars, playVars, HandlerStep, SkipBrand, Unexpected, ReadHandshake,
       AnswerStatus, AnswerPing, ReadLoginStart, ReadLoginAcknowledged, ReadAuxiliary,
       ReadKnownPacks, EnterPlay, EndOfStream, Rest, ClientStep, Open, Receive, Inform, Leave,
       Stray, ServerRest, LoopStep, ReadBootstrap, Request, ReadAnswer, ReadTick,
       ReadUndecodable, ReadHarmless, ReadChat, ReadCommand, ReadUnknown, ReadMovement,
       Synchronize, ReadRespawn, PlayEnds, Unaffected, PlayersSide, Command, Dispatch,
       ForeignRequest, PlayerStep, Inhabit, Walk, Idle, Speak, AskRespawn, ServerUntouched
<1>2. client.phase = "gone" => client'.phase = "gone"
  <2>1. CASE HandlerStep \/ LoopStep
    <3>1. UNCHANGED client
      BY <2>1, HandlerCounts, LoopEffect
    <3> QED BY <3>1
  <2>2. CASE ClientStep
    BY <2>2 DEF ClientStep, Open, Receive, Inform, Leave, Stray
  <2>3. CASE Command \/ Dispatch \/ ForeignRequest \/ UNCHANGED vars
    BY <2>3 DEF Command, Dispatch, ForeignRequest, connVars, vars
  <2>4. CASE PlayerStep
    BY <2>4 DEF PlayerStep, Inhabit, Walk, Idle, Speak, AskRespawn, InWorld
  <2> QED BY <2>1, <2>2, <2>3, <2>4 DEF Next
<1>3. history.teleported => history'.teleported
  <2>1. history = [f \in HistoryFields |-> history[f]]
    BY DEF Types, HistoryTypes
  <2>2. CASE (HandlerStep \/ ClientStep) /\ UNCHANGED playVars
    BY <2>2 DEF playVars
  <2>3. CASE LoopStep
    BY <2>3, LoopsHistory
  <2>4. CASE Command
    BY <2>1, <2>4 DEF Command, Executes, HistoryFields
  <2>5. CASE Dispatch \/ UNCHANGED vars
    BY <2>5 DEF Dispatch, vars, playVars
  <2>6. CASE ForeignRequest \/ PlayerStep
    BY <2>1, <2>6 DEF ForeignRequest, PlayerStep, Inhabit, Walk, Idle, Speak, AskRespawn,
                      HistoryFields
  <2> QED BY <2>2, <2>3, <2>4, <2>5, <2>6 DEF Next
<1>4. history'.foreign = 0 => history.foreign = 0
  <2>1. history = [f \in HistoryFields |-> history[f]] /\ history.foreign \in Nat
    BY DEF Types, HistoryTypes
  <2>2. CASE (HandlerStep \/ ClientStep) /\ UNCHANGED playVars
    BY <2>2 DEF playVars
  <2>3. CASE LoopStep
    BY <2>3, LoopsHistory
  <2>4. CASE Command
    BY <2>1, <2>4 DEF Command, Executes, HistoryFields
  <2>5. CASE Dispatch \/ UNCHANGED vars
    BY <2>5 DEF Dispatch, vars, playVars
  <2>6. CASE PlayerStep
    BY <2>1, <2>6 DEF PlayerStep, Inhabit, Walk, Idle, Speak, AskRespawn, HistoryFields
  <2>7. CASE ForeignRequest
    <3>1. history'.foreign = history.foreign + 1
      BY <2>1, <2>7 DEF ForeignRequest, HistoryFields
    <3> QED BY <2>1, <3>1
  <2> QED BY <2>2, <2>3, <2>4, <2>5, <2>6, <2>7 DEF Next
<1>5. history.teleported \in BOOLEAN /\ history'.teleported \in BOOLEAN
  BY DEF Types, HistoryTypes
<1> QED BY <1>1, <1>2, <1>3, <1>4, <1>5 DEF Undisturbed

\* No step ends it with an error.
LEMMA EndedKept ==
  ASSUME RoomForHonesty, HonestInv, Types', [Next]_vars
  PROVE  Ended'
<1> SUFFICES ASSUME Undisturbed' PROVE outcome' # "error"
  BY DEF Ended
<1>1. TalkInv /\ Types /\ Boot /\ AuxiliaryInv /\ (Honest => HonestParts)
  BY DEF HonestInv, PlaceInv
<1>2. Undisturbed /\ outcome # "error"
  BY <1>1, UndisturbedBefore DEF HonestInv, Ended
<1>3. conforms /\ client.phase # "gone"
  BY <1>2 DEF Undisturbed
<1>4. CASE HandlerStep /\ UNCHANGED playVars
  BY <1>1, <1>2, <1>3, <1>4, HandlerStays DEF RoomForHonesty
<1>5. CASE LoopStep
  <2>1. Entered
    BY <1>1, <1>3, <1>5, LoopMeetsTheWorld DEF Entered
  <2>2. Honest
    BY <1>2, <2>1 DEF Undisturbed, Honest
  <2> QED BY <1>1, <1>5, <2>1, <2>2, LoopStays DEF HonestParts
<1>6. CASE UNCHANGED outcome
  BY <1>2, <1>6
<1> QED BY <1>4, <1>5, <1>6
        DEF Next, ClientStep, Open, Receive, Inform, Leave, Stray, ServerRest, Command, Dispatch,
            ForeignRequest, PlayerStep, Inhabit, Walk, Idle, Speak, AskRespawn, ServerUntouched,
            vars, connVars

\* A client that follows the protocol is never ended with an error by the
\* handler or the Play loop, unless a command has teleported it or the
\* authoritative runtime has asked it for signs of life as well
\* (negotiate_known_packs, the bootstrap's acknowledgements, the loop's
\* keep-alives, MAX_IGNORED_PLAY_PACKETS and validate_movement): if the limits
\* leave room for what the client may do.
THEOREM HonestClientIsKept == RoomForHonesty => (Spec => []HonestClientStays)
<1> SUFFICES ASSUME RoomForHonesty PROVE Spec => []HonestClientStays
  OBVIOUS
<1>1. Init => HonestInv
  <2> SUFFICES ASSUME Init PROVE HonestInv
    OBVIOUS
  <2>1. PlaceInv
    BY InitPlace
  <2>2. SessionInv
    BY InitSession
  <2>3. step = "handshake" /\ auxiliary = 0 /\ client.informed = 0 /\ outcome = "open"
    BY DEF Init, ConnInit
  <2>4. AuxiliaryInv
    BY <2>3, ConnectionAssumption DEF AuxiliaryInv, Negotiating
  <2>5. ~Honest
    BY <2>3 DEF Honest, Entered, InPlay
  <2>6. Ended
    BY <2>3 DEF Ended
  <2> QED BY <2>1, <2>2, <2>4, <2>5, <2>6 DEF HonestInv
<1>2. HonestInv /\ [Next]_vars => HonestInv'
  <2> SUFFICES ASSUME HonestInv, [Next]_vars PROVE HonestInv'
    OBVIOUS
  <2>1. PlaceInv'
    BY NextPlace DEF HonestInv
  <2>2. SessionInv'
    BY SessionKept DEF HonestInv
  <2>3. AuxiliaryInv'
    BY AuxiliaryKept DEF HonestInv, PlaceInv
  <2>4. Types'
    BY <2>1 DEF PlaceInv
  <2>5. Honest' => HonestParts'
    BY <2>1, <2>2, HonestPartsKept
  <2>6. Ended'
    BY <2>4, EndedKept
  <2> QED BY <2>1, <2>2, <2>3, <2>5, <2>6 DEF HonestInv
<1>3. HonestInv => HonestClientStays
  <2> SUFFICES ASSUME HonestInv, conforms, client.phase # "gone", outcome = "error"
               PROVE  history.teleported \/ history.foreign > 0
    BY DEF HonestClientStays
  <2>1. history.foreign \in Nat
    BY DEF HonestInv, PlaceInv, Types, HistoryTypes
  <2>2. history.teleported \/ history.foreign # 0
    BY DEF HonestInv, Ended, Undisturbed
  <2> QED BY <2>1, <2>2
<1> QED BY <1>1, <1>2, <1>3, PTL DEF Spec
=============================================================================
