------------------------------ MODULE IpProofs ------------------------------
(***************************************************************************)
(* A packet is handed up once, is read as it was sent, and a word that has *)
(* changed on the way is noticed.                                          *)
(*                                                                         *)
(* The properties look at the packet on the wire; what makes them true is  *)
(* what header2data wrote.  So the inductive invariant says of a packet    *)
(* what it was built with: a header and, if it is one of UDP, a datagram   *)
(* with its pseudo header, whose words sum to 0.  The record of the damage *)
(* gives back the words that were sent.  For HandledOnce it says that no   *)
(* type is in the list of protocols twice, as RxHandler does not stop at   *)
(* the first one that matches.                                             *)
(*                                                                         *)
(* Sums are compared modulo 65535, where a carry added back changes        *)
(* nothing: Carried is the residue, and a sum depends neither on where a   *)
(* packet is divided nor on anything but the difference of a word that     *)
(* changes.  The loop and the recursion of Checksum are unfolded by a      *)
(* least counterexample.                                                   *)
(***************************************************************************)
EXTENDS Ip, FiniteSetTheorems, SequenceTheorems, WellFoundedInduction, TLAPS

-----------------------------------------------------------------------------
(***************************************************************************)
(* Arithmetic.                                                             *)
(***************************************************************************)

\* A set of numbers that is not empty has a least one.
LEMMA LeastNumber ==
    ASSUME NEW I \in SUBSET Nat, I # {}
    PROVE  \E m \in I : \A k \in I : m <= k
  <1>1. I \subseteq Nat
    OBVIOUS
  <1>2. PICK m \in I : \A k \in I : ~(<<k, m>> \in OpToRel(<, Nat))
    BY <1>1, NatLessThanWellFounded, WFMin
  <1>3. ASSUME NEW k \in I PROVE m <= k
    <2>1. k < m => <<k, m>> \in OpToRel(<, Nat)
      BY <1>1 DEF OpToRel
    <2>2. m \in Nat /\ k \in Nat /\ ~(k < m)
      BY <1>1, <1>2, <2>1
    <2> QED
      BY <2>2
  <1> QED
    BY <1>3

LEMMA WordIs == \A w : w \in Word <=> w \in Nat /\ w <= 65535
  <1>1. 2 ^ 16 = 65536
    BY SMT
  <1> QED
    BY <1>1 DEF Word

LEMMA ByteIs == \A b : b \in Byte <=> b \in Nat /\ b <= 255
  <1>1. 2 ^ 8 = 256
    BY SMT
  <1> QED
    BY <1>1 DEF Byte

\* Multiples of 65535 do not matter.
LEMMA ModPlus ==
    ASSUME NEW a \in Nat, NEW k \in Nat
    PROVE  (a + 65535 * k) % 65535 = a % 65535
  OBVIOUS

\* Adding the carry of r to its lower word makes it smaller and keeps it
\* modulo 65535, and positive.
NoCarry(r) == r \div 65536 = 0
Carry(r) == (r % 65536) + (r \div 65536)

LEMMA CarryOnce ==
    ASSUME NEW r \in Nat, ~NoCarry(r)
    PROVE  /\ Carry(r) \in Nat /\ 0 < Carry(r) /\ Carry(r) < r
           /\ (Carry(r) - 1) % 65535 = (r - 1) % 65535
  <1> DEFINE h == r \div 65536
             l == r % 65536
             q == h + l
  <1>1. h \in Nat /\ l \in Nat /\ r = 65536 * h + l /\ h # 0
    BY DEF NoCarry
  <1>2. Carry(r) = q
    BY <1>1 DEF Carry
  <1> HIDE DEF h, l
  <1>3. q \in Nat /\ 0 < q /\ q < r /\ r - 1 = (q - 1) + 65535 * h /\ q - 1 \in Nat
    BY <1>1
  <1> HIDE DEF q
  <1>4. ((q - 1) + 65535 * h) % 65535 = (q - 1) % 65535
    BY <1>1, <1>3, ModPlus
  <1> QED
    BY <1>2, <1>3, <1>4

LEMMA NoCarryIsWord ==
    ASSUME NEW r \in Nat, NoCarry(r)
    PROVE  r < 65536
  BY DEF NoCarry
-----------------------------------------------------------------------------
(***************************************************************************)
(* The checksum.                                                           *)
(***************************************************************************)

\* What is left of a sum when its carries are added: 1 .. 65535, or 0 for 0.
Residue(r) == IF r = 0 THEN 0 ELSE ((r - 1) % 65535) + 1

LEMMA ResidueOfWord ==
    ASSUME NEW r \in Nat, r < 65536
    PROVE  Residue(r) = r
  BY DEF Residue

LEMMA ResidueOfCarry ==
    ASSUME NEW r \in Nat, ~NoCarry(r)
    PROVE  Residue(Carry(r)) = Residue(r)
  BY CarryOnce DEF Residue

\* The recursion has a solution, so Carried is one.
LEMMA CarriedUnfolds ==
    ASSUME NEW r \in Nat
    PROVE  Carried[r] = IF NoCarry(r) THEN r ELSE Carried[Carry(r)]
  <1> DEFINE Def(f) == [n \in Nat |-> IF NoCarry(n) THEN n ELSE f[Carry(n)]]
             g == [n \in Nat |-> Residue(n)]
  <1>1. g = Def(g)
    <2> SUFFICES ASSUME NEW n \in Nat PROVE g[n] = Def(g)[n]
      OBVIOUS
    <2>1. CASE NoCarry(n)
      BY <2>1, NoCarryIsWord, ResidueOfWord
    <2>2. CASE ~NoCarry(n)
      BY <2>2, CarryOnce, ResidueOfCarry
    <2> QED
      BY <2>1, <2>2
  <1>2. Carried = CHOOSE f : f = Def(f)
    BY DEF Carried, NoCarry, Carry
  <1> HIDE DEF g, Def
  <1>3. Carried = Def(Carried)
    BY <1>1, <1>2
  <1>4. Def(Carried)[r] = IF NoCarry(r) THEN r ELSE Carried[Carry(r)]
    BY DEF Def
  <1> QED
    BY <1>3, <1>4

\* It has only one.
LEMMA CarriedIsResidue ==
    ASSUME NEW r \in Nat
    PROVE  Carried[r] = Residue(r)
  <1> DEFINE T == {n \in Nat : Carried[n] # Residue(n)}
  <1> SUFFICES ASSUME T # {} PROVE FALSE
    OBVIOUS
  <1>1. T \subseteq Nat
    OBVIOUS
  <1> HIDE DEF T
  <1>2. PICK m \in T : \A k \in T : m <= k
    BY <1>1, LeastNumber
  <1>3. m \in Nat /\ Carried[m] # Residue(m)
    BY <1>2 DEF T
  <1>4. CASE NoCarry(m)
    BY <1>3, <1>4, CarriedUnfolds, NoCarryIsWord, ResidueOfWord
  <1>5. CASE ~NoCarry(m)
    <2>1. Carry(m) \in Nat /\ Carry(m) < m
      BY <1>3, <1>5, CarryOnce
    <2>2. Carry(m) \notin T
      BY <1>2, <1>3, <2>1
    <2>3. Carried[Carry(m)] = Residue(Carry(m))
      BY <2>1, <2>2 DEF T
    <2> QED
      BY <1>3, <1>5, <2>3, CarriedUnfolds, ResidueOfCarry
  <1> QED
    BY <1>4, <1>5

\* So it is a word, congruent to the sum.
LEMMA CarriedIsWord ==
    ASSUME NEW r \in Nat
    PROVE  /\ Carried[r] \in Word
           /\ Carried[r] % 65535 = r % 65535
           /\ (Carried[r] = 0) <=> (r = 0)
  <1>1. Carried[r] = Residue(r)
    BY CarriedIsResidue
  <1>2. CASE r = 0
    BY <1>1, <1>2, WordIs DEF Residue
  <1>3. CASE r # 0
    <2> DEFINE k == (r - 1) \div 65535
               l == (r - 1) % 65535
    <2>1. r - 1 \in Nat
      BY <1>3
    <2>2. k \in Nat /\ l \in Nat /\ l < 65535 /\ r - 1 = 65535 * k + l
      BY <2>1
    <2>3. Carried[r] = l + 1
      BY <1>1, <1>3 DEF Residue
    <2> HIDE DEF k, l
    <2>4. r = (l + 1) + 65535 * k /\ l + 1 \in Nat
      BY <2>2
    <2>5. r % 65535 = (l + 1) % 65535
      BY <2>2, <2>4, ModPlus
    <2>6. l \in Nat /\ l < 65535
      BY <2>2
    <2>7. l + 1 \in Word /\ l + 1 # 0
      BY <2>6, WordIs
    <2> QED
      BY <1>3, <2>3, <2>5, <2>7
  <1> QED
    BY <1>2, <1>3
-----------------------------------------------------------------------------
\* f is the course of the loop over w, begun at b, up to m.
IsLoop(f, w, b, m) == f = [n \in 0 .. m |-> IF n = 0 THEN b ELSE f[n - 1] + w[n]]

LEMMA LoopExists ==
    ASSUME NEW w, NEW b, NEW len \in Nat
    PROVE  \E f : IsLoop(f, w, b, len)
  <1> DEFINE T == {m \in Nat : ~\E f : IsLoop(f, w, b, m)}
  <1> SUFFICES ASSUME T # {} PROVE FALSE
    OBVIOUS
  <1>1. T \in SUBSET Nat
    OBVIOUS
  <1> HIDE DEF T
  <1>2. PICK m \in T : \A k \in T : m <= k
    BY <1>1, LeastNumber
  <1>3. m \in Nat /\ ~\E f : IsLoop(f, w, b, m)
    BY <1>2 DEF T
  <1>4. CASE m = 0
    <2>1. IsLoop([n \in 0 .. m |-> b], w, b, m)
      BY <1>4 DEF IsLoop
    <2> QED
      BY <1>3, <2>1
  <1>5. CASE m # 0
    <2>1. m - 1 \in Nat /\ m - 1 \notin T
      BY <1>2, <1>3, <1>5
    <2>2. PICK f : IsLoop(f, w, b, m - 1)
      BY <2>1 DEF T
    <2> DEFINE g == [n \in 0 .. m |-> IF n = m THEN f[m - 1] + w[m] ELSE f[n]]
    <2>3. ASSUME NEW n \in 0 .. m
          PROVE  g[n] = IF n = 0 THEN b ELSE g[n - 1] + w[n]
      <3>1. CASE n = m
        BY <1>3, <1>5, <3>1
      <3>2. CASE n # m
        <4>1. n \in 0 .. m - 1 /\ g[n] = f[n] /\ (n # 0 => g[n - 1] = f[n - 1])
          BY <1>3, <3>2
        <4>2. f[n] = IF n = 0 THEN b ELSE f[n - 1] + w[n]
          BY <2>2, <4>1 DEF IsLoop
        <4> QED
          BY <4>1, <4>2
      <3> QED
        BY <3>1, <3>2
    <2>4. IsLoop(g, w, b, m)
      BY <2>3 DEF IsLoop
    <2> QED
      BY <1>3, <2>4
  <1> QED
    BY <1>4, <1>5

\* Whatever takes the steps of the loop ends with the sum.
LEMMA SumIs ==
    ASSUME NEW w \in Seq(Nat), NEW b, NEW f, f[0] = b,
           \A n \in 1 .. Len(w) : f[n] = f[n - 1] + w[n]
    PROVE  Sum(w, b) = f[Len(w)]
  <1> DEFINE g == CHOOSE h : IsLoop(h, w, b, Len(w))
             T == {n \in 0 .. Len(w) : g[n] # f[n]}
  <1>1. Len(w) \in Nat
    OBVIOUS
  <1>2. \E h : IsLoop(h, w, b, Len(w))
    BY <1>1, LoopExists
  <1>3. IsLoop(g, w, b, Len(w))
    BY <1>2
  <1>4. Sum(w, b) = g[Len(w)]
    BY Zenon DEF Sum, IsLoop
  <1>5. T \in SUBSET Nat
    BY <1>1
  <1> HIDE DEF g
  <1>6. \A n \in 0 .. Len(w) : g[n] = IF n = 0 THEN b ELSE g[n - 1] + w[n]
    BY <1>3 DEF IsLoop
  <1>7. T = {}
    <2> SUFFICES ASSUME T # {} PROVE FALSE
      OBVIOUS
    <2>1. PICK m \in T : \A k \in T : m <= k
      BY <1>5, LeastNumber
    <2>2. m \in 0 .. Len(w) /\ g[m] # f[m]
      BY <2>1
    <2>3. m # 0
      BY <1>1, <1>6, <2>2
    <2>4. m \in 1 .. Len(w) /\ m - 1 \in 0 .. Len(w) /\ m - 1 < m
      BY <1>1, <2>2, <2>3
    <2>5. g[m - 1] = f[m - 1]
      BY <2>1, <2>4
    <2> QED
      BY <1>6, <2>2, <2>3, <2>4, <2>5
  <1> QED
    BY <1>1, <1>4, <1>7

\* The steps of the loop, for words that are numbers.
LEMMA SumSteps ==
    ASSUME NEW w \in Seq(Nat), NEW b \in Nat
    PROVE  \E f \in [0 .. Len(w) -> Nat] :
              /\ f[0] = b
              /\ \A n \in 1 .. Len(w) : f[n] = f[n - 1] + w[n]
              /\ Sum(w, b) = f[Len(w)]
  <1>1. Len(w) \in Nat
    OBVIOUS
  <1>2. PICK f : IsLoop(f, w, b, Len(w))
    BY <1>1, LoopExists
  <1>3. f = [n \in 0 .. Len(w) |-> f[n]]
    BY <1>2 DEF IsLoop
  <1>4. \A n \in 0 .. Len(w) : f[n] = IF n = 0 THEN b ELSE f[n - 1] + w[n]
    BY <1>2 DEF IsLoop
  <1>5. f[0] = b /\ \A n \in 1 .. Len(w) : f[n] = f[n - 1] + w[n]
    BY <1>1, <1>4
  <1> DEFINE T == {n \in 0 .. Len(w) : f[n] \notin Nat}
  <1>6. T \in SUBSET Nat
    BY <1>1
  <1>7. T = {}
    <2> SUFFICES ASSUME T # {} PROVE FALSE
      OBVIOUS
    <2>1. PICK m \in T : \A k \in T : m <= k
      BY <1>6, LeastNumber
    <2>2. m \in 0 .. Len(w) /\ f[m] \notin Nat
      BY <2>1
    <2>3. m # 0
      BY <1>5, <2>2
    <2>4. m \in 1 .. Len(w) /\ m - 1 \in 0 .. Len(w) /\ m - 1 < m
      BY <1>1, <2>2, <2>3
    <2>5. f[m - 1] \in Nat /\ w[m] \in Nat
      BY <2>1, <2>4
    <2> QED
      BY <1>5, <2>2, <2>4, <2>5
  <1>8. f \in [0 .. Len(w) -> Nat]
    BY <1>3, <1>7
  <1>9. Sum(w, b) = f[Len(w)]
    BY <1>5, SumIs
  <1> QED
    BY <1>5, <1>8, <1>9

LEMMA SumIsNat ==
    ASSUME NEW w \in Seq(Nat), NEW b \in Nat
    PROVE  Sum(w, b) \in Nat
  <1>1. Len(w) \in 0 .. Len(w)
    OBVIOUS
  <1> QED
    BY <1>1, SumSteps

\* The base is just added.
LEMMA SumFrom ==
    ASSUME NEW w \in Seq(Nat), NEW b \in Nat
    PROVE  Sum(w, b) = b + Sum(w, 0)
  <1>1. PICK f \in [0 .. Len(w) -> Nat] :
              /\ f[0] = 0
              /\ \A n \in 1 .. Len(w) : f[n] = f[n - 1] + w[n]
              /\ Sum(w, 0) = f[Len(w)]
    BY SumSteps
  <1>2. Len(w) \in Nat
    OBVIOUS
  <1> DEFINE g == [n \in 0 .. Len(w) |-> b + f[n]]
  <1>3. g[0] = b /\ g[Len(w)] = b + f[Len(w)]
    BY <1>1, <1>2
  <1>4. ASSUME NEW n \in 1 .. Len(w) PROVE g[n] = g[n - 1] + w[n]
    <2>1. n \in 0 .. Len(w) /\ n - 1 \in 0 .. Len(w) /\ w[n] \in Nat
      BY <1>2
    <2>2. f[n] = f[n - 1] + w[n] /\ f[n - 1] \in Nat
      BY <1>1, <2>1
    <2> QED
      BY <2>1, <2>2
  <1> HIDE DEF g
  <1> QED
    BY <1>1, <1>3, <1>4, SumIs

\* The sum of two parts is that of the second, begun at that of the first.
LEMMA SumConcat ==
    ASSUME NEW v \in Seq(Nat), NEW w \in Seq(Nat), NEW b \in Nat
    PROVE  v \o w \in Seq(Nat) /\ Sum(v \o w, b) = Sum(w, Sum(v, b))
  <1>1. /\ v \o w \in Seq(Nat) /\ Len(v \o w) = Len(v) + Len(w)
        /\ \A i \in 1 .. Len(v) + Len(w) :
              (v \o w)[i] = IF i <= Len(v) THEN v[i] ELSE w[i - Len(v)]
    BY ConcatProperties
  <1>2. PICK f \in [0 .. Len(v) -> Nat] :
              /\ f[0] = b
              /\ \A n \in 1 .. Len(v) : f[n] = f[n - 1] + v[n]
              /\ Sum(v, b) = f[Len(v)]
    BY SumSteps
  <1>3. Sum(v, b) \in Nat
    BY SumIsNat
  <1>4. PICK g \in [0 .. Len(w) -> Nat] :
              /\ g[0] = Sum(v, b)
              /\ \A n \in 1 .. Len(w) : g[n] = g[n - 1] + w[n]
              /\ Sum(w, Sum(v, b)) = g[Len(w)]
    BY <1>3, SumSteps
  <1>5. Len(v) \in Nat /\ Len(w) \in Nat
    OBVIOUS
  <1> DEFINE h == [n \in 0 .. Len(v) + Len(w) |-> IF n <= Len(v) THEN f[n] ELSE g[n - Len(v)]]
  <1>6. h[0] = b
    BY <1>2, <1>5
  <1>7. h[Len(v) + Len(w)] = g[Len(w)]
    <2>1. CASE Len(w) = 0
      BY <1>2, <1>4, <1>5, <2>1
    <2>2. CASE Len(w) # 0
      BY <1>5, <2>2
    <2> QED
      BY <2>1, <2>2
  <1>8. ASSUME NEW n \in 1 .. Len(v) + Len(w) PROVE h[n] = h[n - 1] + (v \o w)[n]
    <2>1. CASE n <= Len(v)
      <3>1. n \in 1 .. Len(v) /\ h[n] = f[n] /\ h[n - 1] = f[n - 1] /\ (v \o w)[n] = v[n]
        BY <1>1, <1>5, <2>1
      <3> QED
        BY <1>2, <3>1
    <2>2. CASE n = Len(v) + 1
      <3>1. 1 \in 1 .. Len(w) /\ h[n] = g[1] /\ h[n - 1] = f[Len(v)] /\ (v \o w)[n] = w[1]
        BY <1>1, <1>5, <2>2
      <3>2. g[1] = g[1 - 1] + w[1]
        BY <1>4, <3>1
      <3> QED
        BY <1>2, <1>4, <3>1, <3>2
    <2>3. CASE n > Len(v) + 1
      <3>1. n - Len(v) \in 1 .. Len(w) /\ h[n] = g[n - Len(v)]
            /\ (v \o w)[n] = w[n - Len(v)]
        BY <1>1, <1>5, <2>3
      <3>2. h[n - 1] = g[(n - 1) - Len(v)] /\ (n - 1) - Len(v) = (n - Len(v)) - 1
        BY <1>5, <2>3
      <3> QED
        BY <1>4, <3>1, <3>2
    <2> QED
      BY <1>5, <2>1, <2>2, <2>3
  <1> HIDE DEF h
  <1>9. Sum(v \o w, b) = h[Len(v) + Len(w)]
    BY <1>1, <1>6, <1>8, SumIs
  <1> QED
    BY <1>1, <1>4, <1>7, <1>9

\* A changed word changes the sum by as much.
LEMMA SumChanged ==
    ASSUME NEW w \in Seq(Nat), NEW i \in 1 .. Len(w), NEW x \in Nat, NEW b \in Nat
    PROVE  /\ [w EXCEPT ![i] = x] \in Seq(Nat)
           /\ Sum([w EXCEPT ![i] = x], b) + w[i] = Sum(w, b) + x
  <1> DEFINE v == [w EXCEPT ![i] = x]
  <1>1. /\ v \in Seq(Nat) /\ Len(v) = Len(w) /\ v[i] = x
        /\ \A n \in 1 .. Len(w) : n # i => v[n] = w[n]
    OBVIOUS
  <1>2. PICK f \in [0 .. Len(w) -> Nat] :
              /\ f[0] = b
              /\ \A n \in 1 .. Len(w) : f[n] = f[n - 1] + w[n]
              /\ Sum(w, b) = f[Len(w)]
    BY SumSteps
  <1>3. Len(w) \in Nat /\ w[i] \in Nat
    OBVIOUS
  <1> HIDE DEF v
  <1> DEFINE g == [n \in 0 .. Len(w) |-> IF n < i THEN f[n] ELSE (f[n] + x) - w[i]]
  <1>4. g[0] = b /\ g[Len(w)] = (f[Len(w)] + x) - w[i]
    BY <1>2, <1>3
  <1>5. ASSUME NEW n \in 1 .. Len(w) PROVE g[n] = g[n - 1] + v[n]
    <2>1. n \in 0 .. Len(w) /\ n - 1 \in 0 .. Len(w) /\ w[n] \in Nat
      BY <1>3
    <2>2. f[n] = f[n - 1] + w[n] /\ f[n] \in Nat /\ f[n - 1] \in Nat
      BY <1>2, <2>1
    <2>3. CASE n < i
      BY <1>1, <2>1, <2>2, <2>3
    <2>4. CASE n = i
      <3>1. g[n] = (f[n] + x) - w[n] /\ g[n - 1] = f[n - 1] /\ v[n] = x
        BY <1>1, <2>1, <2>4
      <3> QED
        BY <2>1, <2>2, <3>1
    <2>5. CASE n > i
      <3>1. g[n] = (f[n] + x) - w[i] /\ g[n - 1] = (f[n - 1] + x) - w[i] /\ v[n] = w[n]
        BY <1>1, <2>1, <2>5
      <3> QED
        BY <1>3, <2>1, <2>2, <3>1
    <2> QED
      BY <2>3, <2>4, <2>5
  <1> HIDE DEF g
  <1>6. Sum(v, b) = g[Len(w)]
    <2>1. v \in Seq(Nat) /\ g[0] = b /\ \A n \in 1 .. Len(v) : g[n] = g[n - 1] + v[n]
      BY <1>1, <1>4, <1>5
    <2> HIDE DEF v, g
    <2>2. Sum(v, b) = g[Len(v)]
      BY <2>1, SumIs
    <2> QED
      BY <1>1, <2>2
  <1>7. f[Len(w)] \in Nat
    BY <1>3
  <1>8. Sum(v, b) + w[i] = Sum(w, b) + x
    BY <1>2, <1>3, <1>4, <1>6, <1>7
  <1> QED
    BY <1>1, <1>8 DEF v
-----------------------------------------------------------------------------
\* 0 or -0 in one's complement.
IsZero(r) == r % 65535 = 0


\* Words differ modulo 65535, but for 0 and -0.
LEMMA ZeroMoves ==
    ASSUME NEW r \in Nat, NEW s \in Nat, NEW x \in Word, NEW y \in Word,
           IsZero(r), IsZero(s), s + x = r + y, x # y
    PROVE  Opposite(x, y)
  <1>1. PICK k \in Nat : r = 65535 * k
    BY DEF IsZero
  <1>2. PICK l \in Nat : s = 65535 * l
    BY DEF IsZero
  <1>3. x \in Nat /\ x <= 65535 /\ y \in Nat /\ y <= 65535
    BY WordIs
  <1>4. (x = 0 /\ y = 65535) \/ (x = 65535 /\ y = 0)
    BY <1>1, <1>2, <1>3
  <1> QED
    BY <1>4 DEF Opposite

LEMMA WordsAreNat ==
    ASSUME NEW w \in Seq(Word)
    PROVE  w \in Seq(Nat)
  <1>1. Word \subseteq Nat
    BY WordIs
  <1> QED
    BY <1>1, SeqMonotonic


\* Words keep the sum below 2^32, for as many as a packet has.
LEMMA SumIsBounded ==
    ASSUME NEW w \in Seq(Word), NEW b \in Nat
    PROVE  Sum(w, b) <= b + 65535 * Len(w)
  <1>1. w \in Seq(Nat) /\ Len(w) \in Nat
    BY WordsAreNat
  <1>2. PICK f \in [0 .. Len(w) -> Nat] :
              /\ f[0] = b
              /\ \A n \in 1 .. Len(w) : f[n] = f[n - 1] + w[n]
              /\ Sum(w, b) = f[Len(w)]
    BY <1>1, SumSteps
  <1> DEFINE e(n) == b + 65535 * n
  <1>3. e(0) = b /\ \A n \in Nat : e(n) \in Nat /\ (n > 0 => e(n) = e(n - 1) + 65535)
    OBVIOUS
  <1>4. e(Len(w)) = b + 65535 * Len(w)
    OBVIOUS
  <1> HIDE DEF e
  <1> DEFINE T == {n \in 0 .. Len(w) : ~(f[n] <= e(n))}
  <1>5. T \in SUBSET Nat
    BY <1>1
  <1>6. T = {}
    <2> SUFFICES ASSUME T # {} PROVE FALSE
      OBVIOUS
    <2>1. PICK m \in T : \A k \in T : m <= k
      BY <1>5, LeastNumber
    <2>2. m \in 0 .. Len(w) /\ ~(f[m] <= e(m))
      BY <2>1
    <2>3. m # 0
      BY <1>2, <1>3, <2>2
    <2>4. m \in 1 .. Len(w) /\ m - 1 \in 0 .. Len(w) /\ m - 1 < m /\ m \in Nat /\ m > 0
      BY <1>1, <2>2, <2>3
    <2>5. f[m - 1] <= e(m - 1)
      BY <2>1, <2>4
    <2>6. w[m] \in Word
      BY <2>4
    <2>7. w[m] \in Nat /\ w[m] <= 65535
      BY <2>6, WordIs
    <2>8. f[m] = f[m - 1] + w[m] /\ f[m] \in Nat /\ f[m - 1] \in Nat
      BY <1>2, <2>4
    <2>9. e(m) = e(m - 1) + 65535 /\ e(m) \in Nat /\ e(m - 1) \in Nat
      <3>1. m - 1 \in Nat
        BY <2>4
      <3> QED
        BY <1>3, <2>4, <3>1
    <2> QED
      BY <2>2, <2>5, <2>7, <2>8, <2>9
  <1>7. f[Len(w)] <= e(Len(w))
    <2>1. Len(w) \in 0 .. Len(w)
      BY <1>1
    <2> QED
      BY <1>6, <2>1
  <1> QED
    BY <1>2, <1>4, <1>7

\* The carries do not change whether a sum is 0.
LEMMA CarriedIsZero ==
    ASSUME NEW r \in Nat, NEW s \in Nat
    PROVE  IsZero(Carried[r] + s) <=> IsZero(r + s)
  <1> DEFINE c == Carried[r]
  <1>1. c \in Nat /\ c % 65535 = r % 65535
    BY CarriedIsWord, WordIs
  <1> HIDE DEF c
  <1> DEFINE k == c \div 65535
             l == r \div 65535
             m == r % 65535
  <1>2. k \in Nat /\ l \in Nat /\ m \in Nat /\ c = m + 65535 * k /\ r = m + 65535 * l
    BY <1>1
  <1> HIDE DEF k, l, m
  <1>3. ((m + s) + 65535 * k) % 65535 = (m + s) % 65535
    BY <1>2, ModPlus
  <1>4. ((m + s) + 65535 * l) % 65535 = (m + s) % 65535
    BY <1>2, ModPlus
  <1>5. c + s = (m + s) + 65535 * k /\ r + s = (m + s) + 65535 * l
    BY <1>2
  <1>6. (c + s) % 65535 = (r + s) % 65535
    BY <1>3, <1>4, <1>5
  <1> QED
    BY <1>6 DEF IsZero, c

LEMMA CheckSumIsWord ==
    ASSUME NEW w \in Seq(Nat), NEW b \in Nat
    PROVE  CheckSum(w, b) \in Word
  <1>1. Sum(w, b) \in Nat
    BY SumIsNat
  <1>2. Carried[Sum(w, b)] \in Nat /\ Carried[Sum(w, b)] <= 65535
    BY <1>1, CarriedIsWord, WordIs
  <1> QED
    BY <1>2, WordIs DEF CheckSum

\* The checksum makes the sum 0,
LEMMA CheckSumIsZero ==
    ASSUME NEW w \in Seq(Nat), NEW b \in Nat
    PROVE  IsZero(Sum(w, b) + CheckSum(w, b))
  <1> DEFINE r == Sum(w, b)
             c == Carried[r]
  <1>1. r \in Nat
    BY SumIsNat
  <1>2. c \in Nat /\ c <= 65535
    BY <1>1, CarriedIsWord, WordIs
  <1>3. CheckSum(w, b) = 65535 - c
    BY DEF CheckSum
  <1>4. \A s \in Nat : IsZero(c + s) <=> IsZero(r + s)
    <2> HIDE DEF r
    <2> QED
      BY <1>1, CarriedIsZero
  <1> HIDE DEF c, r
  <1>5. c + (65535 - c) = 65535
    BY <1>2
  <1>6. IsZero(65535)
    BY DEF IsZero
  <1> QED
    BY <1>2, <1>3, <1>4, <1>5, <1>6 DEF r

\* and a sum that is 0 is what a receiver asks for.
Accepted(sum) == sum \in {0, 65535}

LEMMA VerifiesIs == \A w : Verifies(w) <=> Accepted(CheckSum(w, 0))
  BY DEF Verifies, Accepted

LEMMA ZeroVerifies ==
    ASSUME NEW w \in Seq(Nat), NEW b \in Nat
    PROVE  Accepted(CheckSum(w, b)) <=> IsZero(Sum(w, b))
  <1> DEFINE r == Sum(w, b)
             c == Carried[r]
  <1>1. r \in Nat
    BY SumIsNat
  <1>2. c \in Nat /\ c <= 65535
    BY <1>1, CarriedIsWord, WordIs
  <1>3. CheckSum(w, b) = 65535 - c
    BY DEF CheckSum
  <1>4. IsZero(c + 0) <=> IsZero(r + 0)
    <2> HIDE DEF r
    <2> QED
      BY <1>1, CarriedIsZero
  <1> HIDE DEF c, r
  <1>5. IsZero(c) <=> c \in {0, 65535}
    BY <1>2 DEF IsZero
  <1>6. 65535 - c \in {0, 65535} <=> c \in {0, 65535}
    BY <1>2
  <1>7. c + 0 = c /\ r + 0 = r
    BY <1>1, <1>2
  <1> QED
    BY <1>3, <1>4, <1>5, <1>6, <1>7 DEF r, Accepted

\* Writing the checksum where a zero was makes the sum of all words 0.
LEMMA WrittenIsZero ==
    ASSUME NEW w \in Seq(Nat), NEW i \in 1 .. Len(w), w[i] = 0, NEW b \in Nat
    PROVE  IsZero(Sum([w EXCEPT ![i] = CheckSum(w, b)], b))
  <1> DEFINE c == CheckSum(w, b)
             r == Sum(w, b)
             s == Sum([w EXCEPT ![i] = c], b)
  <1>1. c \in Nat /\ r \in Nat
    <2>1. c \in Word /\ r \in Nat
      BY CheckSumIsWord, SumIsNat
    <2> HIDE DEF c, r
    <2> QED
      BY <2>1, WordIs
  <1> HIDE DEF c
  <1>2. [w EXCEPT ![i] = c] \in Seq(Nat) /\ s + 0 = r + c
    BY <1>1, SumChanged
  <1>3. s \in Nat
    BY <1>2, SumIsNat
  <1>4. IsZero(r + c)
    BY CheckSumIsZero DEF c
  <1> HIDE DEF r, s
  <1>5. s = r + c
    BY <1>2, <1>3
  <1> QED
    BY <1>4, <1>5 DEF s, c

\* One changed word is seen, but for 0 and -0.
LEMMA ChangeIsSeen ==
    ASSUME NEW w \in Seq(Word), NEW i \in 1 .. Len(w), NEW x \in Word, NEW b \in Nat,
           IsZero(Sum(w, b)), IsZero(Sum([w EXCEPT ![i] = x], b)), w[i] # x
    PROVE  Opposite(w[i], x)
  <1> DEFINE r == Sum(w, b)
             s == Sum([w EXCEPT ![i] = x], b)
  <1>1. w \in Seq(Nat) /\ x \in Nat
    BY WordsAreNat, WordIs
  <1>2. [w EXCEPT ![i] = x] \in Seq(Nat) /\ s + w[i] = r + x
    BY <1>1, SumChanged
  <1>5. PICK y \in Word : y = w[i] /\ y # x
    OBVIOUS
  <1>3. r \in Nat /\ s \in Nat
    BY <1>1, <1>2, SumIsNat
  <1> HIDE DEF r, s
  <1>4. IsZero(r) /\ IsZero(s)
    BY DEF r, s
  <1>6. s + y = r + x
    BY <1>2, <1>5
  <1>7. Opposite(y, x)
    BY <1>3, <1>4, <1>5, <1>6, ZeroMoves
  <1> QED
    BY <1>5, <1>7, Zenon
-----------------------------------------------------------------------------
(***************************************************************************)
(* Addresses.                                                              *)
(***************************************************************************)
Moderate(x) == x \in Nat /\ x > 0 /\ x <= 65536

LEMMA Powers ==
    ASSUME NEW k \in 0 .. 16
    PROVE  \E x : x = 2 ^ k /\ Moderate(x)
  <1>1. /\ Moderate(2 ^ 0) /\ Moderate(2 ^ 1) /\ Moderate(2 ^ 2) /\ Moderate(2 ^ 3)
        /\ Moderate(2 ^ 4) /\ Moderate(2 ^ 5) /\ Moderate(2 ^ 6) /\ Moderate(2 ^ 7)
        /\ Moderate(2 ^ 8) /\ Moderate(2 ^ 9) /\ Moderate(2 ^ 10) /\ Moderate(2 ^ 11)
        /\ Moderate(2 ^ 12) /\ Moderate(2 ^ 13) /\ Moderate(2 ^ 14)
        /\ Moderate(2 ^ 15) /\ Moderate(2 ^ 16)
    BY SMT DEF Moderate
  <1>2. \/ k = 0 \/ k = 1 \/ k = 2 \/ k = 3 \/ k = 4 \/ k = 5 \/ k = 6 \/ k = 7 \/ k = 8
        \/ k = 9 \/ k = 10 \/ k = 11 \/ k = 12 \/ k = 13 \/ k = 14 \/ k = 15 \/ k = 16
    BY SMT
  <1>3. Moderate(2 ^ k)
    BY <1>1, <1>2, Zenon
  <1> QED
    BY <1>3, Zenon

LEMMA AddrIs ==
    /\ AddrBroadcast \in Nat /\ AddrBroadcast < 65536
    /\ \A a : a \in Addr <=> a \in Nat /\ a <= AddrBroadcast
  <1>1. AddrBits \in 0 .. 16
    BY BitsAssumption
  <1>2. PICK x : x = 2 ^ AddrBits /\ Moderate(x)
    BY <1>1, Powers, Zenon
  <1>3. AddrBroadcast = x - 1
    BY <1>2, Zenon DEF AddrBroadcast
  <1>4. Moderate(x)
    BY <1>2, Zenon
  <1>5. AddrBroadcast \in Nat /\ AddrBroadcast < 65536
    BY <1>3, <1>4 DEF Moderate
  <1> QED
    BY <1>5 DEF Addr, AddrAny

\* The network of an address is an address.
LEMMA NetworkIsAddr ==
    ASSUME NEW a \in Addr, NEW mask \in MaskLen
    PROVE  Network(a, mask) \in Addr
  <1>1. AddrBits - mask \in 0 .. 16
    BY BitsAssumption DEF MaskLen
  <1>0. PICK h : h = 2 ^ (AddrBits - mask) /\ Moderate(h)
    BY <1>1, Powers, Zenon
  <1>10. Moderate(h)
    BY <1>0, Zenon
  <1>2. h \in Nat /\ h > 0
    BY <1>10 DEF Moderate
  <1>3. a \in Nat /\ a <= AddrBroadcast /\ AddrBroadcast \in Nat
    BY AddrIs
  <1>4. Network(a, mask) = (a \div h) * h
    BY <1>0, Zenon DEF Network
  <1> DEFINE q == a \div h
             m == a % h
  <1>5. q \in Nat /\ m \in Nat /\ a = h * q + m
    BY <1>2, <1>3
  <1> HIDE DEF q, m
  <1>6. q * h = h * q /\ h * q \in Nat
    BY <1>2, <1>5
  <1> DEFINE n == h * q
  <1> HIDE DEF n
  <1>7. n \in Nat /\ a = n + m
    BY <1>5, <1>6 DEF n
  <1>8. n <= AddrBroadcast
    BY <1>3, <1>5, <1>7
  <1>9. Network(a, mask) = n
    BY <1>4, <1>6 DEF n, q
  <1> QED
    BY <1>7, <1>8, <1>9, AddrIs

\* What the four bytes of a header may hold.
IpAddr == {a \in Nat : a \div 65536 \in Word}

LEMMA AddrFits ==
    ASSUME NEW a \in Addr
    PROVE  a \in IpAddr /\ a \in Word
  <1>1. a \in Nat /\ a < 65536
    BY AddrIs
  <1>2. a \div 65536 = 0 /\ 0 \in Word /\ a \in Word
    BY <1>1, WordIs
  <1> QED
    BY <1>1, <1>2 DEF IpAddr

\* An address is its two words, and two words are an address.
LEMMA TwoWords ==
    ASSUME NEW a \in IpAddr
    PROVE  /\ a \div 65536 \in Word /\ a % 65536 \in Word
           /\ (a \div 65536) * 65536 + (a % 65536) = a
  <1>1. a \in Nat /\ a \div 65536 \in Word
    BY DEF IpAddr
  <1>2. /\ a % 65536 \in Nat /\ a % 65536 <= 65535
        /\ (a \div 65536) * 65536 + (a % 65536) = a
    BY <1>1
  <1>3. a % 65536 \in Word
    BY <1>2, WordIs
  <1> QED
    BY <1>1, <1>2, <1>3

LEMMA WordsAreAddr ==
    ASSUME NEW x \in Word, NEW y \in Word
    PROVE  x * 65536 + y \in IpAddr
  <1>1. x \in Nat /\ y \in Nat /\ y < 65536
    BY WordIs
  <1>2. x * 65536 + y \in Nat /\ (x * 65536 + y) \div 65536 = x
    BY <1>1
  <1> QED
    BY <1>2 DEF IpAddr
-----------------------------------------------------------------------------
(***************************************************************************)
(* Headers.                                                                *)
(***************************************************************************)
\* What the words of a header say: the version and the length of a header
\* without options, the protocol, an address.
Plain(x) == x = 4 * 4096 + 5 * 256
Proto(x) == x % 256
Address(x, y) == x * 65536 + y

\* header2data of IP.
LEMMA HeaderIs ==
    ASSUME NEW len \in Nat, NEW ident \in Word, NEW proto \in Byte,
           NEW src \in IpAddr, NEW dst \in IpAddr
    PROVE  LET h == header2data(len, ident, proto, src, dst) IN
           /\ h \in Seq(Word) /\ Len(h) = 10
           /\ Plain(h[1]) /\ h[2] = len % 65536 /\ h[4] = 0
           /\ Proto(h[5]) = proto
           /\ Address(h[7], h[8]) = src /\ Address(h[9], h[10]) = dst
           /\ IsZero(Sum(h, 0))
  <1> DEFINE a == 4 * 4096 + 5 * 256
             l == len % 65536
             b == 255 * 256 + proto
             s1 == src \div 65536
             s2 == src % 65536
             d1 == dst \div 65536
             d2 == dst % 65536
             W(sum) == <<a, l, ident, 0, b, sum, s1, s2, d1, d2>>
             c == CheckSum(W(0), 0)
  <1>1. header2data(len, ident, proto, src, dst) = W(c)
    BY DEF header2data
  <1>2. a \in Word /\ 0 \in Word
    BY WordIs
  <1>3. l \in Word
    <2>1. l \in Nat /\ l <= 65535
      OBVIOUS
    <2> QED
      BY <2>1, WordIs
  <1>4. b \in Word /\ Proto(b) = proto
    <2>1. proto \in Nat /\ proto <= 255
      BY ByteIs
    <2>2. b \in Nat /\ b <= 65535 /\ b % 256 = proto
      BY <2>1
    <2> QED
      BY <2>2, WordIs DEF Proto
  <1>5. s1 \in Word /\ s2 \in Word /\ Address(s1, s2) = src
    BY TwoWords DEF Address
  <1>6. d1 \in Word /\ d2 \in Word /\ Address(d1, d2) = dst
    BY TwoWords DEF Address
  <1>7. Plain(a) /\ l = len % 65536
    BY DEF Plain
  <1> HIDE DEF a, l, b, s1, s2, d1, d2
  <1>8. \A sum \in Word : W(sum) \in Seq(Word) /\ Len(W(sum)) = 10
    BY <1>2, <1>3, <1>4, <1>5, <1>6
  <1>9. W(0) \in Seq(Nat) /\ 6 \in 1 .. Len(W(0)) /\ W(0)[6] = 0
    <2>1. W(0)[6] = 0
      OBVIOUS
    <2> HIDE DEF W
    <2>2. W(0) \in Seq(Word) /\ Len(W(0)) = 10
      BY <1>2, <1>8
    <2>3. W(0) \in Seq(Nat)
      BY <2>2, WordsAreNat
    <2> QED
      BY <2>1, <2>2, <2>3
  <1>10. c \in Word
    BY <1>9, CheckSumIsWord
  <1>11. [W(0) EXCEPT ![6] = c] = W(c)
    <2> HIDE DEF c
    <2>1. [W(0) EXCEPT ![6] = c] \in Seq(Word) /\ Len([W(0) EXCEPT ![6] = c]) = 10
      BY <1>2, <1>8, <1>10, ExceptSeq
    <2>2. \A n \in 1 .. 10 : [W(0) EXCEPT ![6] = c][n] = W(c)[n]
      OBVIOUS
    <2> QED
      BY <1>8, <1>10, <2>1, <2>2, SeqEqual
  <1>12. IsZero(Sum([W(0) EXCEPT ![6] = c], 0))
    BY <1>9, WrittenIsZero
  <1> HIDE DEF c
  <1>13. W(c)[1] = a /\ W(c)[2] = l /\ W(c)[4] = 0 /\ W(c)[5] = b
         /\ W(c)[7] = s1 /\ W(c)[8] = s2 /\ W(c)[9] = d1 /\ W(c)[10] = d2
    OBVIOUS
  <1>14. W(c) \in Seq(Word) /\ Len(W(c)) = 10 /\ IsZero(Sum(W(c), 0))
    BY <1>8, <1>10, <1>11, <1>12
  <1> DEFINE h == W(c)
  <1>15. h[1] = a /\ h[2] = l /\ h[4] = 0 /\ h[5] = b
         /\ h[7] = s1 /\ h[8] = s2 /\ h[9] = d1 /\ h[10] = d2
         /\ h \in Seq(Word) /\ Len(h) = 10 /\ IsZero(Sum(h, 0))
    BY <1>13, <1>14
  <1>16. header2data(len, ident, proto, src, dst) = h
    BY <1>1
  <1> HIDE DEF h
  <1> QED
    BY <1>4, <1>5, <1>6, <1>7, <1>15, <1>16
-----------------------------------------------------------------------------
(***************************************************************************)
(* The inductive invariant.                                                *)
(***************************************************************************)

\* The words of a packet before one was damaged.
Original(p) == IF p.damage = <<>> THEN p.data.words
               ELSE [p.data.words EXCEPT ![p.damage[1]] = p.damage[2]]

\* What UDP's header2data promises of a message: its length, and a sum of 0.
Datagrammed(msg, src, dst) ==
    /\ Len(msg.words) >= 4 /\ msg.words[3] = Size(msg)
    /\ IsZero(Sum(U!PseudoHeader(src, dst, Size(msg)) \o msg.words, 0))

Parcel == [way : {"in", "out"}, dev : Device, data : Message, msg : Message,
           damage : {<<>>} \cup (Nat \X Word)]

\* What was sent as p: a header whose sum is 0 and whose length is that of the
\* packet, and the message behind it.
Built(p) ==
    LET w == Original(p) IN
    /\ p \in Parcel /\ p.data.zeros = p.msg.zeros
    /\ w \in Seq(Word) /\ Len(w) = Len(p.data.words)
    /\ SubSeq(w, 11, Len(w)) = p.msg.words
    /\ Len(w) = 10 + Len(p.msg.words)
    /\ Plain(w[1]) /\ w[2] = Size(p.data) /\ w[4] = 0
    /\ IsZero(Sum(SubSeq(w, 1, 10), 0))
    /\ Proto(w[5]) = U!UDP =>
          Datagrammed(p.msg, Address(w[7], w[8]), Address(w[9], w[10]))

\* One word has changed, or none.
Damaged(p) ==
    p.damage # <<>> =>
        /\ p.damage[1] \in 1 .. Len(p.data.words) /\ p.damage[2] \in Word
        /\ p.damage[2] # p.data.words[p.damage[1]]

\* The registered types, each once.
Distinct ==
    /\ protos \in Seq(ProtoType)
    /\ \A m, n \in DOMAIN protos : protos[m] = protos[n] => m = n

\* The lists are sequences.
Tabled == ifaces \in [Device -> Seq(Iface)] /\ routes \in Seq(Route)

\* The counter is a word, and the wire has one packet at most, which was sent,
\* and perhaps damaged once.
Sound(counter, packets) ==
    /\ counter \in Word
    /\ \A p, q \in packets : p = q
    /\ \A p \in packets : Built(p) /\ Damaged(p)

IInv == Tabled /\ Sound(id, wire) /\ Distinct /\ HandledOnce
-----------------------------------------------------------------------------

(***************************************************************************)
(* What is built.                                                          *)
(***************************************************************************)
LEMMA MessageParts ==
    ASSUME NEW msg \in Message
    PROVE  /\ msg.words \in Seq(Word) /\ Len(msg.words) \in Nat /\ msg.zeros \in Nat
           /\ Size(msg) \in Nat /\ Size(msg) = 2 * Len(msg.words) + msg.zeros
  BY DEF Message, Size

\* A header in front of a message.
LEMMA FrontOf ==
    ASSUME NEW h \in Seq(Word), NEW w \in Seq(Word)
    PROVE  /\ h \o w \in Seq(Word) /\ Len(h \o w) = Len(h) + Len(w)
           /\ \A n \in 1 .. Len(h) : (h \o w)[n] = h[n]
           /\ SubSeq(h \o w, 1, Len(h)) = h
           /\ SubSeq(h \o w, Len(h) + 1, Len(h \o w)) = w
  <1> DEFINE v == h \o w
  <1>1. /\ v \in Seq(Word) /\ Len(v) = Len(h) + Len(w)
        /\ \A i \in 1 .. Len(h) + Len(w) :
              v[i] = IF i <= Len(h) THEN h[i] ELSE w[i - Len(h)]
    BY ConcatProperties
  <1>2. Len(h) \in Nat /\ Len(w) \in Nat
    OBVIOUS
  <1> HIDE DEF v
  <1>3. \A n \in 1 .. Len(v) : v[n] \in Word
    BY <1>1
  <1> DEFINE a == SubSeq(v, 1, Len(h))
             b == SubSeq(v, Len(h) + 1, Len(v))
  <1>4. \A i \in 1 .. Len(h) : v[i] \in Word
    BY <1>1, <1>2, <1>3
  <1>5. a \in Seq(Word) /\ Len(a) = (IF 1 <= Len(h) THEN Len(h) - 1 + 1 ELSE 0)
        /\ \A i \in 1 .. Len(h) - 1 + 1 : a[i] = v[1 + i - 1]
    BY <1>2, <1>4, SubSeqProperties
  <1>6. \A i \in Len(h) + 1 .. Len(v) : v[i] \in Word
    BY <1>1, <1>2, <1>3
  <1>7. b \in Seq(Word)
        /\ Len(b) = (IF Len(h) + 1 <= Len(v) THEN Len(v) - (Len(h) + 1) + 1 ELSE 0)
        /\ \A i \in 1 .. Len(v) - (Len(h) + 1) + 1 : b[i] = v[(Len(h) + 1) + i - 1]
    BY <1>1, <1>2, <1>6, SubSeqProperties
  <1> HIDE DEF a, b
  <1>8. a = h
    <2>1. Len(a) = Len(h)
      BY <1>2, <1>5
    <2>2. \A i \in 1 .. Len(a) : a[i] = h[i]
      BY <1>1, <1>2, <1>5, <2>1
    <2> QED
      BY <1>5, <2>1, <2>2, SeqEqual
  <1>9. b = w
    <2>1. Len(b) = Len(w)
      BY <1>1, <1>2, <1>7
    <2>2. \A i \in 1 .. Len(b) : b[i] = w[i]
      <3> SUFFICES ASSUME NEW i \in 1 .. Len(b) PROVE b[i] = w[i]
        OBVIOUS
      <3>1. i \in Nat /\ 1 <= i /\ i <= Len(w)
        BY <1>2, <2>1
      <3>2. i \in 1 .. Len(v) - (Len(h) + 1) + 1
        BY <1>1, <1>2, <3>1
      <3>3. b[i] = v[(Len(h) + 1) + i - 1]
        BY <1>7, <3>2
      <3>4. (Len(h) + 1) + i - 1 = Len(h) + i
        BY <1>2, <3>1
      <3>5. Len(h) + i \in 1 .. Len(h) + Len(w)
            /\ ~(Len(h) + i <= Len(h)) /\ (Len(h) + i) - Len(h) = i
        BY <1>2, <3>1
      <3> QED
        BY <1>1, <3>3, <3>4, <3>5
    <2> QED
      BY <1>7, <2>1, <2>2, SeqEqual
  <1> QED
    BY <1>1, <1>2, <1>8, <1>9 DEF v, a, b

\* A message of which a packet can be made.
Short(msg) == HeaderSizeMin + Size(msg) <= 65535

\* The packet of TxHandler, or of a peer.
LEMMA PacketIsBuilt ==
    ASSUME NEW way \in {"in", "out"}, NEW dev \in Device,
           NEW ident \in Word, NEW proto \in Byte,
           NEW msg \in Message, NEW src \in IpAddr, NEW dst \in IpAddr,
           Short(msg),
           proto = U!UDP => Datagrammed(msg, src, dst)
    PROVE  LET p == Packet(way, dev, ident, proto, msg, src, dst)
           IN  Built(p) /\ Damaged(p)
  <1> DEFINE p == Packet(way, dev, ident, proto, msg, src, dst)
             len == HeaderSizeMin + Size(msg)
             h == header2data(len, ident, proto, src, dst)
             w == h \o msg.words
  <1>1. /\ msg.words \in Seq(Word) /\ Len(msg.words) \in Nat /\ msg.zeros \in Nat
        /\ Size(msg) \in Nat /\ Size(msg) = 2 * Len(msg.words) + msg.zeros
    BY MessageParts
  <1>2. len \in Nat /\ len = 20 + Size(msg) /\ len <= 65535
    BY <1>1 DEF HeaderSizeMin, Short
  <1>3. p = [way |-> way, dev |-> dev, data |-> [words |-> w, zeros |-> msg.zeros],
             msg |-> msg, damage |-> <<>>]
    BY DEF Packet, Data
  <1> HIDE DEF len
  <1>4. /\ h \in Seq(Word) /\ Len(h) = 10
        /\ Plain(h[1]) /\ h[2] = len /\ h[4] = 0
        /\ Proto(h[5]) = proto
        /\ Address(h[7], h[8]) = src /\ Address(h[9], h[10]) = dst
        /\ IsZero(Sum(h, 0))
    <2>1. len % 65536 = len
      BY <1>2
    <2> QED
      BY <1>2, <2>1, HeaderIs
  <1> HIDE DEF h
  <1>5. /\ w \in Seq(Word) /\ Len(w) = 10 + Len(msg.words)
        /\ \A n \in 1 .. 10 : w[n] = h[n]
        /\ SubSeq(w, 1, 10) = h /\ SubSeq(w, 11, Len(w)) = msg.words
    <2>1. /\ w \in Seq(Word) /\ Len(w) = Len(h) + Len(msg.words)
          /\ \A n \in 1 .. Len(h) : w[n] = h[n]
          /\ SubSeq(w, 1, Len(h)) = h /\ SubSeq(w, Len(h) + 1, Len(w)) = msg.words
      BY <1>1, <1>4, FrontOf
    <2> HIDE DEF w
    <2>2. Len(h) = 10 /\ Len(h) + 1 = 11
      BY <1>4
    <2> QED
      BY <2>1, <2>2
  <1> HIDE DEF w
  <1>0. p.data = [words |-> w, zeros |-> msg.zeros]
    BY <1>3
  <1>7. p.msg = msg /\ p.damage = <<>>
        /\ p.way = way /\ p.data.words = w /\ p.data.zeros = msg.zeros
    BY <1>3
  <1>17. p \in Parcel
    <2>1. [words |-> w, zeros |-> msg.zeros] \in Message
      BY <1>1, <1>5 DEF Message
    <2> QED
      BY <1>3, <2>1 DEF Parcel
  <1> HIDE DEF p
  <1>8. p.data \in Message /\ Size(p.data) = len
    <2>1. p.data \in Message
      BY <1>0, <1>1, <1>5 DEF Message
    <2>2. Size(p.data) = 2 * Len(w) + msg.zeros
      BY <1>7 DEF Size
    <2>3. Len(w) = 10 + Len(msg.words)
      BY <1>5
    <2> QED
      BY <1>1, <1>2, <2>1, <2>2, <2>3
  <1>9. Original(p) = w
    BY <1>7 DEF Original
  <1>10. /\ w[1] = h[1] /\ w[2] = h[2] /\ w[4] = h[4] /\ w[5] = h[5] /\ w[7] = h[7]
         /\ w[8] = h[8] /\ w[9] = h[9] /\ w[10] = h[10]
    BY <1>5
  <1>11. Plain(w[1]) /\ w[2] = Size(p.data) /\ w[4] = 0
    BY <1>4, <1>8, <1>10
  <1>12. Proto(w[5]) = proto
    BY <1>4, <1>10
  <1>13. Address(w[7], w[8]) = src /\ Address(w[9], w[10]) = dst
    BY <1>4, <1>10
  <1>14. IsZero(Sum(SubSeq(w, 1, 10), 0))
    <2>1. SubSeq(w, 1, 10) = h
      BY <1>5
    <2>2. IsZero(Sum(h, 0))
      BY <1>4
    <2> QED
      BY <2>1, <2>2, Zenon
  <1>15. Built(p)
    <2>1. p \in Parcel /\ p.data.zeros = p.msg.zeros
      BY <1>7, <1>17
    <2>2. w \in Seq(Word) /\ Len(w) = Len(p.data.words)
          /\ SubSeq(w, 11, Len(w)) = p.msg.words /\ Len(w) = 10 + Len(p.msg.words)
      BY <1>5, <1>7
    <2>3. Proto(w[5]) = U!UDP =>
             Datagrammed(p.msg, Address(w[7], w[8]), Address(w[9], w[10]))
      BY <1>7, <1>12, <1>13, Zenon
    <2> QED
      BY <1>9, <1>11, <1>14, <2>1, <2>2, <2>3, Zenon DEF Built
  <1>16. Damaged(p)
    BY <1>7 DEF Damaged
  <1> QED
    BY <1>15, <1>16 DEF p

\* UDP's copy of the checksum.
LEMMA SameCheckSum == \A w, b : U!CheckSum(w, b) = CheckSum(w, b)
  BY DEF U!CheckSum, CheckSum, U!Carried, Carried, U!Sum, Sum

LEMMA SameSize == \A msg : U!Size(msg) = Size(msg)
  BY DEF U!Size, Size

\* What UDP's header2data makes of a payload, as long as its length is a word.
LEMMA DatagramIsBuilt ==
    ASSUME NEW sport \in Word, NEW dport \in Word, NEW payload \in Message,
           NEW src \in Word, NEW dst \in Word
    PROVE  LET m == U!header2data(sport, dport, payload, src, dst) IN
           /\ m \in Message /\ Size(m) = 8 + Size(payload)
           /\ Size(m) \in Word => Datagrammed(m, src, dst)
  <1> DEFINE m == U!header2data(sport, dport, payload, src, dst)
             len == (U!HeaderSize + U!Size(payload)) % 65536
             P == U!PseudoHeader(src, dst, len)
             H(sum) == <<sport, dport, len, sum>>
             W(sum) == H(sum) \o payload.words
             c == CheckSum(P \o W(0), 0)
  <1>1. /\ payload.words \in Seq(Word) /\ Len(payload.words) \in Nat
        /\ payload.zeros \in Nat /\ Size(payload) \in Nat
        /\ Size(payload) = 2 * Len(payload.words) + payload.zeros
    BY MessageParts
  <1>2. m = [payload EXCEPT !.words = W(c)]
    BY SameCheckSum DEF U!header2data
  <1>3. len = (8 + Size(payload)) % 65536
    BY SameSize DEF U!HeaderSize
  <1>4. len \in Word /\ (8 + Size(payload) \in Word => len = 8 + Size(payload))
    <2> DEFINE s == Size(payload)
    <2>1. s \in Nat
      BY <1>1
    <2> HIDE DEF s
    <2>2. (8 + s) % 65536 \in Nat /\ (8 + s) % 65536 <= 65535
      BY <2>1
    <2>3. 8 + s <= 65535 => (8 + s) % 65536 = 8 + s
      BY <2>1
    <2> QED
      BY <1>3, <2>2, <2>3, WordIs DEF s
  <1>5. P = <<0, src, 0, dst, 17, len>>
    BY DEF U!PseudoHeader, U!UDP
  <1>6. 0 \in Word /\ 17 \in Word
    BY WordIs
  <1> HIDE DEF len, P
  <1>7. P \in Seq(Word) /\ Len(P) = 6
    BY <1>4, <1>5, <1>6
  <1>8. \A sum \in Word : /\ H(sum) \in Seq(Word) /\ Len(H(sum)) = 4 /\ H(sum)[4] = sum
                          /\ H(sum)[1] = sport /\ H(sum)[2] = dport /\ H(sum)[3] = len
    BY <1>4
  <1> HIDE DEF H
  <1>9. \A sum \in Word :
           /\ W(sum) \in Seq(Word) /\ Len(W(sum)) = 4 + Len(payload.words)
           /\ \A n \in 1 .. 4 : W(sum)[n] = H(sum)[n]
           /\ \A n \in 1 .. 4 + Len(payload.words) :
                 W(sum)[n] = IF n <= 4 THEN H(sum)[n] ELSE payload.words[n - 4]
    <2> SUFFICES ASSUME NEW sum \in Word
                 PROVE  /\ W(sum) \in Seq(Word) /\ Len(W(sum)) = 4 + Len(payload.words)
                        /\ \A n \in 1 .. 4 : W(sum)[n] = H(sum)[n]
                        /\ \A n \in 1 .. 4 + Len(payload.words) :
                              W(sum)[n] = IF n <= 4 THEN H(sum)[n]
                                          ELSE payload.words[n - 4]
      OBVIOUS
    <2>1. H(sum) \in Seq(Word) /\ Len(H(sum)) = 4
      BY <1>8
    <2> DEFINE h == H(sum)
               pw == payload.words
    <2>2. h \in Seq(Word) /\ Len(h) = 4 /\ pw \in Seq(Word) /\ Len(pw) \in Nat
      BY <1>1, <2>1
    <2>3. W(sum) = h \o pw
      OBVIOUS
    <2> HIDE DEF h, pw, W
    <2>4. /\ h \o pw \in Seq(Word) /\ Len(h \o pw) = Len(h) + Len(pw)
          /\ \A i \in 1 .. Len(h) + Len(pw) :
                (h \o pw)[i] = IF i <= Len(h) THEN h[i] ELSE pw[i - Len(h)]
      BY <2>2, ConcatProperties
    <2> QED
      BY <2>2, <2>3, <2>4 DEF h, pw
  <1> HIDE DEF W
  <1> DEFINE V(sum) == P \o W(sum)
  <1>10. \A sum \in Word :
           /\ V(sum) \in Seq(Word) /\ Len(V(sum)) = 10 + Len(payload.words)
           /\ \A n \in 1 .. 10 + Len(payload.words) :
                 V(sum)[n] = IF n <= 6 THEN P[n] ELSE W(sum)[n - 6]
    <2> SUFFICES ASSUME NEW sum \in Word
                 PROVE  /\ V(sum) \in Seq(Word) /\ Len(V(sum)) = 10 + Len(payload.words)
                        /\ \A n \in 1 .. 10 + Len(payload.words) :
                              V(sum)[n] = IF n <= 6 THEN P[n] ELSE W(sum)[n - 6]
      OBVIOUS
    <2> DEFINE w == W(sum)
               k == Len(payload.words)
    <2>1. w \in Seq(Word) /\ Len(w) = 4 + k /\ k \in Nat
      BY <1>1, <1>9
    <2> HIDE DEF w, k
    <2>2. /\ P \o w \in Seq(Word) /\ Len(P \o w) = Len(P) + Len(w)
          /\ \A i \in 1 .. Len(P) + Len(w) :
                (P \o w)[i] = IF i <= Len(P) THEN P[i] ELSE w[i - Len(P)]
      BY <1>7, <2>1, ConcatProperties
    <2>3. Len(P) + Len(w) = 10 + k /\ Len(P) = 6
      BY <1>7, <2>1
    <2> QED
      BY <2>2, <2>3 DEF w, k
  <1>11. c = CheckSum(V(0), 0)
    OBVIOUS
  <1> HIDE DEF V, c
  <1>12. V(0) \in Seq(Word) /\ V(0) \in Seq(Nat) /\ 10 \in 1 .. Len(V(0)) /\ V(0)[10] = 0
    <2>1. V(0) \in Seq(Word) /\ Len(V(0)) = 10 + Len(payload.words)
      BY <1>6, <1>10
    <2>2. 10 \in 1 .. 10 + Len(payload.words)
      BY <1>1
    <2>3. V(0)[10] = W(0)[10 - 6]
      BY <1>6, <1>10, <2>2
    <2>4. 10 - 6 = 4 /\ 4 \in 1 .. 4
      OBVIOUS
    <2>5. W(0)[4] = H(0)[4] /\ H(0)[4] = 0
      BY <1>6, <1>8, <1>9, <2>4
    <2> QED
      BY <2>1, <2>2, <2>3, <2>4, <2>5, WordsAreNat
  <1>13. c \in Word /\ IsZero(Sum([V(0) EXCEPT ![10] = c], 0))
    BY <1>11, <1>12, CheckSumIsWord, WrittenIsZero
  <1>14. [V(0) EXCEPT ![10] = c] = V(c)
    <2> DEFINE v == [V(0) EXCEPT ![10] = c]
               k == Len(payload.words)
    <2>1. /\ v \in Seq(Word) /\ Len(v) = Len(V(0))
          /\ \A j \in 1 .. Len(V(0)) : v[j] = IF j = 10 THEN c ELSE V(0)[j]
      BY <1>12, <1>13, ExceptSeq
    <2>2. k \in Nat
      BY <1>1
    <2>3. Len(V(0)) = 10 + k /\ Len(V(c)) = 10 + k /\ V(c) \in Seq(Word)
      BY <1>6, <1>10, <1>13
    <2> HIDE DEF v
    <2>4. ASSUME NEW n \in 1 .. Len(v) PROVE v[n] = V(c)[n]
      <3>1. n \in 1 .. 10 + k
        BY <2>1, <2>3
      <3>2. v[n] = IF n = 10 THEN c ELSE V(0)[n]
        BY <2>1, <2>3, <3>1
      <3>3. CASE n <= 6
        BY <1>6, <1>10, <1>13, <3>1, <3>2, <3>3
      <3>4. CASE n > 6
        <4>1. V(0)[n] = W(0)[n - 6] /\ V(c)[n] = W(c)[n - 6]
          BY <1>6, <1>10, <1>13, <3>1, <3>4
        <4>2. n - 6 \in 1 .. 4 + k
          BY <2>2, <3>1, <3>4
        <4>3. W(0)[n - 6] = (IF n - 6 <= 4 THEN H(0)[n - 6] ELSE payload.words[n - 6 - 4])
              /\ W(c)[n - 6] = (IF n - 6 <= 4 THEN H(c)[n - 6] ELSE payload.words[n - 6 - 4])
          BY <1>6, <1>9, <1>13, <4>2
        <4>4. H(0)[1] = H(c)[1] /\ H(0)[2] = H(c)[2] /\ H(0)[3] = H(c)[3] /\ H(c)[4] = c
          BY <1>6, <1>8, <1>13
        <4>5. CASE n - 6 <= 4
          <5>1. n = 7 \/ n = 8 \/ n = 9 \/ n = 10
            BY <3>1, <3>4, <4>5
          <5> QED
            BY <3>2, <4>1, <4>3, <4>4, <4>5, <5>1
        <4>6. CASE ~(n - 6 <= 4)
          <5>1. n # 10
            BY <4>6
          <5> QED
            BY <3>2, <4>1, <4>3, <4>6, <5>1
        <4> QED
          BY <4>5, <4>6
      <3> QED
        BY <2>2, <3>1, <3>3, <3>4
    <2> QED
      BY <2>1, <2>3, <2>4, SeqEqual DEF v
  <1>15. IsZero(Sum(V(c), 0))
    BY <1>13, <1>14
  <1>16. m.words = W(c) /\ m.zeros = payload.zeros /\ m \in Message
    <2>1. W(c) \in Seq(Word)
      BY <1>9, <1>13
    <2> QED
      BY <1>2, <2>1 DEF Message
  <1> HIDE DEF m
  <1>17. Size(m) = 8 + Size(payload)
    <2>1. Size(m) = 2 * Len(W(c)) + payload.zeros
      BY <1>16 DEF Size
    <2>2. Len(W(c)) = 4 + Len(payload.words)
      BY <1>9, <1>13
    <2> QED
      BY <1>1, <2>1, <2>2
  <1>18. ASSUME Size(m) \in Word PROVE Datagrammed(m, src, dst)
    <2>1. len = Size(m)
      BY <1>4, <1>17, <1>18
    <2>5. m.words = W(c) /\ Len(W(c)) = 4 + Len(payload.words)
          /\ \A n \in 1 .. 4 : W(c)[n] = H(c)[n]
      BY <1>9, <1>13, <1>16
    <2>2. Len(m.words) >= 4
      BY <1>1, <2>5
    <2>3. m.words[3] = Size(m)
      <3>1. W(c)[3] = H(c)[3]
        BY <2>5
      <3>2. H(c)[3] = len
        BY <1>8, <1>13
      <3> QED
        BY <2>1, <2>5, <3>1, <3>2
    <2>4. U!PseudoHeader(src, dst, Size(m)) \o m.words = V(c)
      BY <1>16, <2>1 DEF V, P
    <2> QED
      BY <1>15, <2>2, <2>3, <2>4 DEF Datagrammed
  <1> QED
    BY <1>16, <1>17, <1>18 DEF m

\* What a peer sends as a datagram.
LEMMA PeerIsDatagram ==
    ASSUME NEW msg \in Message, NEW src \in Word, NEW dst \in Word,
           IsDatagram(msg, src, dst), Size(msg) \in Word
    PROVE  Datagrammed(msg, src, dst)
  <1> DEFINE pw == SubSeq(msg.words, 5, Len(msg.words))
             payload == [msg EXCEPT !.words = pw]
  <1>1. msg.words \in Seq(Word) /\ Len(msg.words) \in Nat /\ Len(msg.words) >= 4
    BY MessageParts DEF IsDatagram
  <1>2. msg.words[1] \in Word /\ msg.words[2] \in Word
    <2>1. 1 \in 1 .. Len(msg.words) /\ 2 \in 1 .. Len(msg.words)
      BY <1>1
    <2> QED
      BY <1>1, <2>1, ElementOfSeq
  <1>3. pw \in Seq(Word)
    <2>1. \A i \in 5 .. Len(msg.words) : msg.words[i] \in Word
      BY <1>1
    <2> QED
      BY <1>1, <2>1, SubSeqProperties
  <1>4. payload \in Message
    BY <1>3 DEF Message
  <1>5. msg = U!header2data(msg.words[1], msg.words[2], payload, src, dst)
    BY DEF IsDatagram
  <1> HIDE DEF payload
  <1> QED
    BY <1>2, <1>4, <1>5, DatagramIsBuilt

\* What ICMP makes of its header and a payload is a message.
LEMMA EchoIsMessage ==
    ASSUME NEW values \in Seq(Word), Len(values) = 2, NEW payload \in Message
    PROVE  IcmpMessage(EchoReply, values, payload) \in Message
  <1> DEFINE m == IcmpMessage(EchoReply, values, payload)
             pw == payload.words
             H(sum) == <<EchoReply * 256, sum>> \o values
             c == CheckSum(H(0), 0)
  <1>1. pw \in Seq(Word) /\ payload.zeros \in Nat /\ Len(pw) \in Nat
    BY MessageParts
  <1>2. m = [payload EXCEPT !.words = H(c) \o pw]
    BY DEF IcmpMessage
  <1>3. EchoReply * 256 = 0 /\ 0 \in Word
    BY WordIs DEF EchoReply
  <1>4. \A sum \in Word : /\ H(sum) \in Seq(Word) /\ Len(H(sum)) = 4
                          /\ H(sum)[1] = 0 /\ H(sum)[2] = sum
                          /\ H(sum)[3] = values[1] /\ H(sum)[4] = values[2]
    <2> SUFFICES ASSUME NEW sum \in Word
                 PROVE  /\ H(sum) \in Seq(Word) /\ Len(H(sum)) = 4
                        /\ H(sum)[1] = 0 /\ H(sum)[2] = sum
                        /\ H(sum)[3] = values[1] /\ H(sum)[4] = values[2]
      OBVIOUS
    <2> DEFINE h == <<EchoReply * 256, sum>>
    <2>1. h \in Seq(Word) /\ Len(h) = 2 /\ h[1] = 0 /\ h[2] = sum
      BY <1>3
    <2>2. H(sum) = h \o values
      OBVIOUS
    <2> HIDE DEF h, H
    <2>3. /\ h \o values \in Seq(Word) /\ Len(h \o values) = Len(h) + Len(values)
          /\ \A i \in 1 .. Len(h) + Len(values) :
                (h \o values)[i] = IF i <= Len(h) THEN h[i] ELSE values[i - Len(h)]
      BY <2>1, ConcatProperties
    <2> QED
      BY <2>1, <2>2, <2>3
  <1> HIDE DEF H
  <1>5. c \in Word
    <2>1. H(0) \in Seq(Nat)
      BY <1>3, <1>4, WordsAreNat
    <2> QED
      BY <2>1, CheckSumIsWord
  <1> HIDE DEF c
  <1> DEFINE h == H(c)
  <1>6. h \in Seq(Word)
    BY <1>4, <1>5
  <1>7. m = [payload EXCEPT !.words = h \o pw]
    BY <1>2
  <1> HIDE DEF h, m
  <1> HIDE DEF pw
  <1>8. h \o pw \in Seq(Word)
    BY <1>1, <1>6
  <1> QED
    BY <1>7, <1>8 DEF Message, m
-----------------------------------------------------------------------------

(***************************************************************************)
(* What is sent and received.                                              *)
(***************************************************************************)

\* A route that is found is one of the table.
LEMMA LookupIsRoute ==
    ASSUME Tabled, NEW dst, NEW r \in LookupTable(dst)
    PROVE  r \in Route /\ r.iface.dev \in Device /\ r.iface.unicast \in Addr
  <1>1. Matching(dst) # {} /\ r = routes[Len(routes)]
    BY DEF LookupTable
  <1>2. routes \in Seq(Route) /\ Len(routes) \in Nat
    BY DEF Tabled
  <1>3. \E n \in 1 .. Len(routes) : TRUE
    BY <1>1, <1>2 DEF Matching
  <1>4. Len(routes) \in 1 .. Len(routes)
    BY <1>2, <1>3
  <1>5. r \in Route
    BY <1>1, <1>2, <1>4, ElementOfSeq
  <1> QED
    BY <1>5 DEF Route, Iface

\* The MTU is a word.
LEMMA FitsIsShort ==
    ASSUME NEW dev \in Device, NEW msg \in Message,
           Mtu[dev] >= HeaderSizeMin + Size(msg)
    PROVE  Short(msg)
  <1>1. Mtu[dev] \in Word
    BY DeviceAssumption
  <1>2. Mtu[dev] \in Nat /\ Mtu[dev] <= 65535
    BY <1>1, WordIs
  <1>3. Size(msg) \in Nat
    BY MessageParts
  <1> QED
    BY <1>2, <1>3 DEF Short, HeaderSizeMin

\* TxHandler of IP, up to the device.
LEMMA TransmittedIsSound ==
    ASSUME Tabled, id \in Word, NEW proto \in Byte, NEW msg \in Message,
           NEW src, NEW dst \in IpAddr,
           proto = U!UDP => src # AddrAny /\ Datagrammed(msg, src, dst),
           NEW t \in Transmitted(proto, msg, src, dst)
    PROVE  Sound(t.id, t.wire)
  <1> DEFINE failed == [id |-> id, wire |-> {}]
             sendable == {r \in LookupTable(dst) :
                             /\ src # AddrAny \/ dst # AddrBroadcast
                             /\ src \in {AddrAny, r.iface.unicast}
                             /\ Fits(r, msg)}
             way(r) == IF r.iface.dev \in Forgetful THEN "in" ELSE "out"
             packet(r) == Packet(way(r), r.iface.dev, NextId, proto, msg,
                                 r.iface.unicast, dst)
  <1>1. NextId \in Word
    <2>1. id \in Nat
      BY WordIs
    <2>2. NextId \in Nat /\ NextId <= 65535
      BY <2>1 DEF NextId
    <2> QED
      BY <2>2, WordIs
  <1>2. ASSUME NEW r \in sendable PROVE Built(packet(r)) /\ Damaged(packet(r))
    <2>1. r.iface.dev \in Device /\ r.iface.unicast \in Addr
      BY LookupIsRoute
    <2>2. Short(msg)
      BY <2>1, FitsIsShort DEF Fits
    <2>3. r.iface.unicast \in IpAddr
      BY <2>1, AddrFits
    <2>4. proto = U!UDP => Datagrammed(msg, r.iface.unicast, dst)
      OBVIOUS
    <2>5. way(r) \in {"in", "out"}
      OBVIOUS
    <2> HIDE DEF sendable, way
    <2> QED
      BY <1>1, <2>1, <2>2, <2>3, <2>4, <2>5, PacketIsBuilt
  <1>3. t = failed \/ (t.id = NextId /\ (t.wire = {} \/ \E r \in sendable : t.wire = {packet(r)}))
    <2>1. Transmitted(proto, msg, src, dst) =
             IF sendable = {} THEN {failed}
             ELSE [id : {NextId}, wire : {{packet(r)} : r \in sendable}]
                  \cup [id : {NextId}, wire : {{} : r \in {q \in sendable : Asks(q, dst)}}]
      BY Zenon DEF Transmitted
    <2> HIDE DEF sendable, packet, failed
    <2> QED
      BY <2>1
  <1> HIDE DEF sendable, packet
  <1>4. CASE t = failed
    BY <1>4 DEF Sound
  <1>5. CASE t.id = NextId /\ t.wire = {}
    BY <1>1, <1>5 DEF Sound
  <1>6. CASE t.id = NextId /\ \E r \in sendable : t.wire = {packet(r)}
    BY <1>1, <1>2, <1>6 DEF Sound
  <1> QED
    BY <1>3, <1>4, <1>5, <1>6

\* What data2header makes of a packet, damaged or not.
LEMMA ReceivedIs ==
    ASSUME NEW data \in Message, Len(data.words) >= 10, NEW hdr \in data2header(data)
    PROVE  hdr.payload \in Message /\ hdr.src \in IpAddr
  <1> DEFINE w == data.words
             len == Size(data)
             hlen == ((w[1] \div 256) % 16) * 4
             rest == [words |-> SubSeq(w, hlen \div 2 + 1, Len(w)),
                      zeros |-> len - Larger(hlen, 2 * Len(w))]
             zero == [proto |-> 0, flags |-> 0, tol |-> 0, src |-> 0, dst |-> 0,
                      payload |-> [words |-> <<>>, zeros |-> 0]]
  <1>1. /\ w \in Seq(Word) /\ Len(w) \in Nat /\ data.zeros \in Nat
        /\ len \in Nat /\ len = 2 * Len(w) + data.zeros
    BY MessageParts
  <1>2. w[1] \in Word /\ w[7] \in Word /\ w[8] \in Word
    <2>1. 1 \in 1 .. Len(w) /\ 7 \in 1 .. Len(w) /\ 8 \in 1 .. Len(w)
      BY <1>1
    <2> QED
      BY <1>1, <2>1, ElementOfSeq
  <1>3. hlen \in Nat /\ hlen \div 2 + 1 \in Nat /\ hlen \div 2 + 1 >= 1
    <2>1. w[1] \in Nat
      BY <1>2, WordIs
    <2>2. hlen \in Nat
      BY <2>1
    <2> HIDE DEF hlen
    <2> QED
      BY <2>2
  <1>4. CASE hdr = zero
    <2>1. zero.payload \in Message
      BY DEF Message
    <2>2. 0 \in IpAddr
      <3>1. 0 \div 65536 = 0 /\ 0 \in Word
        BY WordIs
      <3> QED
        BY <3>1 DEF IpAddr
    <2> QED
      BY <1>4, <2>1, <2>2
  <1>5. CASE ~TooShort(len, hlen) /\ hdr.payload = rest /\ hdr.src = w[7] * 65536 + w[8]
    <2>1. len >= hlen
      <3> HIDE DEF hlen, len
      <3>1. len % 256 >= hlen
        BY <1>1, <1>3, <1>5 DEF TooShort
      <3> QED
        BY <1>1, <1>3, <3>1
    <2>2. len - Larger(hlen, 2 * Len(w)) \in Nat
      <3> DEFINE k == 2 * Len(w)
      <3> HIDE DEF hlen, len
      <3>1. k \in Nat /\ len >= k
        BY <1>1
      <3> HIDE DEF k
      <3>2. Larger(hlen, k) = hlen \/ Larger(hlen, k) = k
        BY DEF Larger
      <3>3. len - hlen \in Nat /\ len - k \in Nat
        BY <1>1, <1>3, <2>1, <3>1
      <3>4. len - Larger(hlen, k) \in Nat
        BY <3>2, <3>3
      <3> QED
        BY <3>4 DEF k
    <2>3. SubSeq(w, hlen \div 2 + 1, Len(w)) \in Seq(Word)
      <3> DEFINE m == hlen \div 2 + 1
      <3>1. m \in Nat /\ m >= 1
        BY <1>3
      <3> HIDE DEF m
      <3>2. \A i \in m .. Len(w) : w[i] \in Word
        BY <1>1, <3>1
      <3> QED
        BY <1>1, <3>1, <3>2, SubSeqProperties DEF m
    <2>4. rest \in Message
      BY <2>2, <2>3 DEF Message
    <2>5. w[7] * 65536 + w[8] \in IpAddr
      BY <1>2, WordsAreAddr
    <2> QED
      BY <1>5, <2>4, <2>5
  <1> DEFINE taken == [proto |-> w[5] % 256, flags |-> w[4], tol |-> w[2],
                       src |-> w[7] * 65536 + w[8], dst |-> w[9] * 65536 + w[10],
                       payload |-> rest]
             other == w[1] \div 4096 # 4
             refused == \/ TooShort(len, hlen)
                        \/ len % 65536 < w[2]
                        \/ ~Verifies(SubSeq(w, 1, hlen \div 2))
  <1>6. data2header(data) =
           IF other THEN {zero} ELSE IF refused THEN {} ELSE {taken}
    BY DEF data2header
  <1>7. taken.payload = rest /\ taken.src = w[7] * 65536 + w[8]
    OBVIOUS
  <1>8. ~refused => ~TooShort(len, hlen)
    OBVIOUS
  <1> HIDE DEF len, hlen, rest, zero, taken, other, refused
  <1>9. hdr = zero \/ (~refused /\ hdr = taken)
    BY <1>6
  <1> QED
    BY <1>4, <1>5, <1>7, <1>8, <1>9

\* ICMP's answer.
LEMMA IcmpIsSound ==
    ASSUME Tabled, id \in Word, NEW msg \in Message, NEW src \in IpAddr, NEW iface,
           NEW t \in IcmpRxHandler(msg, src, iface)
    PROVE  Sound(t.id, t.wire)
  <1>1. CASE IsEcho(msg)
    <2> DEFINE payload == [msg EXCEPT !.words = SubSeq(@, 5, Len(@))]
               values == SubSeq(msg.words, 3, 4)
               m == IcmpMessage(EchoReply, values, payload)
    <2>1. msg.words \in Seq(Word) /\ Len(msg.words) \in Nat /\ Len(msg.words) >= 4
      BY <1>1, MessageParts DEF IsEcho
    <2>2. values \in Seq(Word) /\ Len(values) = 2
      <3>1. \A i \in 3 .. 4 : msg.words[i] \in Word
        BY <2>1
      <3>2. 3 <= 4 /\ 4 - 3 + 1 = 2
        OBVIOUS
      <3> QED
        BY <3>1, <3>2, SubSeqProperties
    <2>3. payload \in Message
      <3>1. \A i \in 5 .. Len(msg.words) : msg.words[i] \in Word
        BY <2>1
      <3>2. SubSeq(msg.words, 5, Len(msg.words)) \in Seq(Word)
        BY <2>1, <3>1, SubSeqProperties
      <3> QED
        BY <3>2 DEF Message
    <2>4. m \in Message
      <3> HIDE DEF values, payload
      <3> QED
        BY <2>2, <2>3, EchoIsMessage
    <2>5. t \in Transmitted(ICMP, m, iface.unicast, src)
      BY <1>1, Zenon DEF IcmpRxHandler, IcmpTxHandler
    <2> HIDE DEF m
    <2>6. ICMP \in Byte /\ ICMP # U!UDP
      BY ByteIs DEF ICMP, U!UDP
    <2> QED
      BY <2>4, <2>5, <2>6, TransmittedIsSound
  <1>2. CASE ~IsEcho(msg)
    BY <1>2 DEF IcmpRxHandler, Sound
  <1> QED
    BY <1>1, <1>2
-----------------------------------------------------------------------------
(***************************************************************************)
(* The actions.                                                            *)
(***************************************************************************)
LEMMA RegisterIface ==
    ASSUME Tabled, NEW dev \in Device, NEW unicast \in Addr, NEW mask \in MaskLen,
           IfaceRegister([dev |-> dev, unicast |-> unicast, mask |-> mask])
    PROVE  Tabled' /\ UNCHANGED <<protos, id, wire, up>>
  <1> DEFINE i == [dev |-> dev, unicast |-> unicast, mask |-> mask]
             r == [network |-> Network(unicast, mask), mask |-> mask,
                   nexthop |-> AddrAny, iface |-> i]
  <1>1. i \in Iface
    BY DEF Iface
  <1>2. r \in Route
    <2>1. AddrAny \in Addr
      BY AddrIs DEF AddrAny
    <2> QED
      BY <1>1, <2>1, NetworkIsAddr DEF Route
  <1>3. /\ ifaces' = (IF dev \in Forgetful THEN ifaces
                      ELSE [ifaces EXCEPT ![dev] = Append(@, i)])
        /\ routes' = Append(routes, r) /\ UNCHANGED <<protos, id, wire, up>>
    BY DEF IfaceRegister, NetIfaceRegister, routeAdd
  <1> HIDE DEF i, r
  <1>4. ifaces \in [Device -> Seq(Iface)] /\ routes \in Seq(Route)
    BY DEF Tabled
  <1>5. Append(routes, r) \in Seq(Route)
    BY <1>2, <1>4
  <1>6. Append(ifaces[dev], i) \in Seq(Iface)
    BY <1>1, <1>4
  <1> QED
    BY <1>3, <1>4, <1>5, <1>6 DEF Tabled

LEMMA SetGateway ==
    ASSUME Tabled, NEW i \in Iface, NEW gw \in Addr, SetDefaultGateway(i, gw)
    PROVE  Tabled' /\ UNCHANGED <<protos, id, wire, up>>
  <1> DEFINE r == [network |-> AddrAny, mask |-> 0, nexthop |-> gw, iface |-> i]
  <1>1. r \in Route
    <2>1. AddrAny \in Addr /\ 0 \in MaskLen
      BY AddrIs, BitsAssumption DEF AddrAny, MaskLen
    <2> QED
      BY <2>1 DEF Route
  <1>2. /\ routes' = Append(routes, r) /\ UNCHANGED ifaces
        /\ UNCHANGED <<protos, id, wire, up>>
    BY DEF SetDefaultGateway, routeAdd
  <1> HIDE DEF r
  <1>3. ifaces \in [Device -> Seq(Iface)] /\ routes \in Seq(Route)
    BY DEF Tabled
  <1>4. Append(routes, r) \in Seq(Route)
    BY <1>1, <1>3
  <1> QED
    BY <1>2, <1>3, <1>4 DEF Tabled

LEMMA SendUdp ==
    ASSUME Tabled, Sound(id, wire), NEW sport \in Port, NEW dport \in Port, NEW a \in UdpArg,
           UdpTxHandler(sport, dport, a[1], a[2], a[3])
    PROVE  Sound(id', wire')
  <1> DEFINE payload == a[1]
             src == a[2]
             dst == a[3]
             m == U!header2data(sport, dport, payload, src, dst)
  <1>1. payload \in Message /\ src \in Addr /\ src # AddrAny /\ dst \in Addr
        /\ sport \in Word /\ dport \in Word
    BY ArgAssumption
  <1>2. Size(payload) + U!HeaderSize <= U!PayloadSizeMax
    BY DEF UdpTxHandler
  <1>3. PICK t \in Transmitted(U!UDP, m, src, dst) : id' = t.id /\ wire' = t.wire
    BY Zenon DEF UdpTxHandler, TxHandler
  <1> HIDE DEF payload, src, dst
  <1>4. m \in Message /\ Size(m) = 8 + Size(payload)
        /\ (Size(m) \in Word => Datagrammed(m, src, dst))
    BY <1>1, AddrFits, DatagramIsBuilt
  <1>5. Size(m) \in Word
    <2>1. Size(payload) \in Nat
      BY <1>1, MessageParts
    <2>2. Size(payload) + 8 <= 65535 - 20
      BY <1>2 DEF U!HeaderSize, U!PayloadSizeMax
    <2>3. 8 + Size(payload) \in Nat /\ 8 + Size(payload) <= 65535
      BY <2>1, <2>2
    <2> QED
      BY <1>4, <2>3, WordIs
  <1>6. U!UDP \in Byte /\ U!UDP # ICMP
    BY ByteIs DEF U!UDP, ICMP
  <1>7. dst \in IpAddr /\ id \in Word
    BY <1>1, AddrFits DEF Sound
  <1> HIDE DEF m
  <1>8. Sound(t.id, t.wire)
    BY <1>1, <1>3, <1>4, <1>5, <1>6, <1>7, TransmittedIsSound
  <1> QED
    BY <1>3, <1>8

LEMMA PeerIsSound ==
    ASSUME Sound(id, wire), NEW dev \in Device, NEW a \in PeerArg,
           PeerSends(dev, a[1], a[2], a[3], a[4])
    PROVE  Sound(id', wire')
  <1> DEFINE proto == a[1]
             msg == a[2]
             src == a[3]
             dst == a[4]
             p == Packet("in", dev, 1, proto, msg, src, dst)
  <1>1. /\ proto \in Byte /\ msg \in Message /\ src \in Addr /\ dst \in Addr
        /\ proto = U!UDP => IsDatagram(msg, src, dst)
    BY ArgAssumption
  <1>2. /\ HeaderSizeMin + Size(msg) <= Mtu[dev]
        /\ wire' = {p} /\ id' = id
    BY DEF PeerSends
  <1> HIDE DEF proto, msg, src, dst
  <1>3. Short(msg)
    <2>1. Mtu[dev] \in Word /\ Size(msg) \in Nat
      BY <1>1, DeviceAssumption, MessageParts
    <2>2. Mtu[dev] \in Nat /\ HeaderSizeMin + Size(msg) \in Nat
      BY <2>1, WordIs DEF HeaderSizeMin
    <2>3. Mtu[dev] >= HeaderSizeMin + Size(msg)
      BY <1>2, <2>2
    <2> QED
      BY <1>1, <2>3, FitsIsShort
  <1>4. proto = U!UDP => Datagrammed(msg, src, dst)
    <2>1. Size(msg) \in Nat
      BY <1>1, MessageParts
    <2>2. Size(msg) <= 65535
      BY <1>3, <2>1 DEF Short, HeaderSizeMin
    <2>3. Size(msg) \in Word
      BY <2>1, <2>2, WordIs
    <2> QED
      BY <1>1, <2>3, AddrFits, PeerIsDatagram
  <1>5. 1 \in Word
    BY WordIs
  <1>6. Built(p) /\ Damaged(p)
    BY <1>1, <1>3, <1>4, <1>5, AddrFits, PacketIsBuilt
  <1> HIDE DEF p
  <1> QED
    BY <1>2, <1>6 DEF Sound

LEMMA ReceiveIsSound ==
    ASSUME Tabled, Sound(id, wire), RxHandler
    PROVE  Sound(id', wire')
  <1>0. PICK p \in wire : \E hdr \in Taken(p) :
           \E t \in IF hdr.proto = ICMP /\ {n \in DOMAIN protos : protos[n] = hdr.proto} # {}
                    THEN IcmpRxHandler(hdr.payload, hdr.src, IfaceFor(p.dev, hdr.dst))
                    ELSE {[id |-> id, wire |-> {}]} :
              id' = t.id /\ wire' = t.wire
    BY Zenon DEF RxHandler
  <1>1. PICK hdr \in Taken(p) :
           \E t \in IF hdr.proto = ICMP /\ {n \in DOMAIN protos : protos[n] = hdr.proto} # {}
                    THEN IcmpRxHandler(hdr.payload, hdr.src, IfaceFor(p.dev, hdr.dst))
                    ELSE {[id |-> id, wire |-> {}]} :
              id' = t.id /\ wire' = t.wire
    BY <1>0
  <1>2. id \in Word /\ Built(p)
    BY DEF Sound
  <1>3. p.data \in Message /\ Len(p.data.words) >= 10
    <2>1. p \in Parcel /\ Len(p.data.words) = 10 + Len(p.msg.words)
      BY <1>2, Zenon DEF Built
    <2>2. p.data \in Message /\ p.msg \in Message
      BY <2>1 DEF Parcel
    <2> QED
      BY <2>1, <2>2, MessageParts
  <1>4. hdr.payload \in Message /\ hdr.src \in IpAddr
    BY <1>3, ReceivedIs DEF Taken
  <1>5. CASE \E t \in IcmpRxHandler(hdr.payload, hdr.src, IfaceFor(p.dev, hdr.dst)) :
                id' = t.id /\ wire' = t.wire
    <2>1. PICK t \in IcmpRxHandler(hdr.payload, hdr.src, IfaceFor(p.dev, hdr.dst)) :
             id' = t.id /\ wire' = t.wire
      BY <1>5
    <2>2. Sound(t.id, t.wire)
      BY <1>2, <1>4, IcmpIsSound
    <2> QED
      BY <2>1, <2>2
  <1>6. CASE id' = id /\ wire' = {}
    BY <1>2, <1>6 DEF Sound
  <1>7. \/ \E t \in IcmpRxHandler(hdr.payload, hdr.src, IfaceFor(p.dev, hdr.dst)) :
              id' = t.id /\ wire' = t.wire
        \/ id' = id /\ wire' = {}
    BY <1>1
  <1> QED
    BY <1>5, <1>6, <1>7

\* The damage is remembered, so what was sent is still known.
LEMMA DamageIsSound ==
    ASSUME Sound(id, wire), NEW n \in Nat, NEW v \in Word, Damage(n, v)
    PROVE  Sound(id', wire')
  <1>1. PICK p \in wire :
           /\ p.damage = <<>> /\ n \in DOMAIN p.data.words /\ p.data.words[n] # v
           /\ wire' = {[p EXCEPT !.data.words[n] = v, !.damage = <<n, p.data.words[n]>>]}
    BY Zenon DEF Damage
  <1> DEFINE w == p.data.words
             q == [p EXCEPT !.data.words[n] = v, !.damage = <<n, p.data.words[n]>>]
  <1>2. id \in Word /\ Built(p) /\ id' = id
    BY DEF Sound, Damage
  <1>3. p \in Parcel /\ p.data \in Message /\ p.msg \in Message
    BY <1>2 DEF Built, Parcel
  <1>4. w \in Seq(Word) /\ Len(w) \in Nat /\ n \in 1 .. Len(w) /\ w[n] \in Word
    <2>1. w \in Seq(Word) /\ Len(w) \in Nat
      BY <1>3, MessageParts
    <2> QED
      BY <1>1, <2>1
  <1> DEFINE x == w[n]
             u == [w EXCEPT ![n] = v]
  <1>5. q.data = [p.data EXCEPT !.words = u] /\ q.damage = <<n, x>>
        /\ q.msg = p.msg /\ q.way = p.way /\ q.dev = p.dev
        /\ q = [way |-> p.way, dev |-> p.dev, data |-> q.data, msg |-> p.msg,
                damage |-> <<n, x>>]
    <2> DEFINE d == [p.data EXCEPT !.words = u]
               g == <<n, x>>
    <2>1. p = [way |-> p.way, dev |-> p.dev, data |-> p.data, msg |-> p.msg,
               damage |-> p.damage]
      BY <1>3 DEF Parcel
    <2>2. q = [[p EXCEPT !.data = d] EXCEPT !.damage = g]
      <3>1. [p.data EXCEPT !.words = [@ EXCEPT ![n] = v]] = d
        BY Zenon
      <3> QED
        BY <3>1, Zenon
    <2> HIDE DEF d, g, q
    <2>3. q = [way |-> p.way, dev |-> p.dev, data |-> d, msg |-> p.msg, damage |-> g]
      BY <2>1, <2>2
    <2> QED
      BY <2>3 DEF d, g
  <1>6. u \in Seq(Word) /\ Len(u) = Len(w) /\ u[n] = v /\ [u EXCEPT ![n] = x] = w
    <2>1. /\ u \in Seq(Word) /\ Len(u) = Len(w)
          /\ \A j \in 1 .. Len(w) : u[j] = IF j = n THEN v ELSE w[j]
      BY <1>4, ExceptSeq
    <2> DEFINE y == [u EXCEPT ![n] = x]
    <2> HIDE DEF u, x
    <2>2. /\ y \in Seq(Word) /\ Len(y) = Len(u)
          /\ \A j \in 1 .. Len(u) : y[j] = IF j = n THEN x ELSE u[j]
      BY <1>4, <2>1, ExceptSeq DEF x
    <2> HIDE DEF y
    <2>3. \A j \in 1 .. Len(y) : y[j] = w[j]
      BY <2>1, <2>2 DEF x
    <2>4. y = w
      BY <1>4, <2>1, <2>2, <2>3, SeqEqual
    <2> QED
      BY <1>4, <2>1, <2>4 DEF y
  <1>7. x \in Word /\ x # v
    BY <1>1, <1>4
  <1>8. Original(p) = w
    BY <1>1 DEF Original
  <1> HIDE DEF x, u, q
  <1>9. q.data \in Message /\ q.data.words = u /\ q.data.zeros = p.data.zeros
    BY <1>3, <1>5, <1>6 DEF Message
  <1>10. q \in Parcel
    <2>1. p.way \in {"in", "out"} /\ p.dev \in Device /\ n \in Nat
      BY <1>3 DEF Parcel
    <2>2. <<n, x>> \in Nat \X Word
      BY <1>7, <2>1
    <2> QED
      BY <1>3, <1>5, <1>9, <2>1, <2>2 DEF Parcel
  <1>11. Original(q) = w
    <2>1. q.damage # <<>> /\ q.damage[1] = n /\ q.damage[2] = x
      BY <1>5
    <2> QED
      BY <1>6, <1>9, <2>1 DEF Original
  <1>12. Size(q.data) = Size(p.data)
    BY <1>6, <1>9 DEF Size
  <1>13. Built(q)
    <2> HIDE DEF w
    <2>1. /\ p.data.zeros = p.msg.zeros
          /\ w \in Seq(Word) /\ Len(w) = Len(p.data.words)
          /\ SubSeq(w, 11, Len(w)) = p.msg.words
          /\ Len(w) = 10 + Len(p.msg.words)
          /\ Plain(w[1]) /\ w[2] = Size(p.data) /\ w[4] = 0
          /\ IsZero(Sum(SubSeq(w, 1, 10), 0))
          /\ Proto(w[5]) = U!UDP =>
                Datagrammed(p.msg, Address(w[7], w[8]), Address(w[9], w[10]))
      BY <1>2, <1>8, Zenon DEF Built
    <2>2. Len(w) = Len(q.data.words)
      BY <1>6, <1>9
    <2> QED
      BY <1>5, <1>9, <1>10, <1>11, <1>12, <2>1, <2>2, Zenon DEF Built
  <1>14. Damaged(q)
    BY <1>4, <1>5, <1>6, <1>7, <1>9 DEF Damaged
  <1>15. wire' = {q}
    BY <1>1 DEF q
  <1> QED
    BY <1>2, <1>13, <1>14, <1>15 DEF Sound
-----------------------------------------------------------------------------

\* The entries for one type are at most one.
LEMMA OneEntry ==
    ASSUME Distinct, NEW proto
    PROVE  Cardinality({n \in DOMAIN protos : protos[n] = proto}) <= 1
  <1> DEFINE handed == {n \in DOMAIN protos : protos[n] = proto}
  <1>1. CASE handed = {}
    BY <1>1, FS_EmptySet
  <1>2. CASE handed # {}
    <2>1. PICK k : k \in handed
      BY <1>2
    <2>2. handed = {k}
      BY <2>1 DEF Distinct
    <2> QED
      BY <2>2, FS_Singleton
  <1> QED
    BY <1>1, <1>2

\* ProtoRegister appends a type the list does not have.
LEMMA RegisterKeeps ==
    ASSUME Distinct, NEW proto \in ProtoType, ProtoRegister(proto)
    PROVE  Distinct'
  <1>1. /\ protos \in Seq(ProtoType) /\ protos' = Append(protos, proto)
        /\ \A n \in 1 .. Len(protos) : protos[n] # proto
    BY DEF Distinct, ProtoRegister, Contains
  <1>2. protos' \in Seq(ProtoType) /\ Len(protos') = Len(protos) + 1
        /\ Len(protos) \in Nat
    BY <1>1
  <1>3. ASSUME NEW m \in 1 .. Len(protos'), NEW n \in 1 .. Len(protos'),
               protos'[m] = protos'[n]
        PROVE  m = n
    <2>1. \A k \in 1 .. Len(protos) : protos'[k] = protos[k]
      BY <1>1
    <2>2. protos'[Len(protos) + 1] = proto
      BY <1>1
    <2>3. \A k \in 1 .. Len(protos') : k \in 1 .. Len(protos) \/ k = Len(protos) + 1
      BY <1>2
    <2> QED
      BY <1>1, <1>3, <2>1, <2>2, <2>3 DEF Distinct
  <1> QED
    BY <1>2, <1>3 DEF Distinct

\* The invariant, step by step.
THEOREM IpInductive == Spec => []IInv
  <1>1. Init => IInv
    <2> SUFFICES ASSUME Init PROVE IInv
      OBVIOUS
    <2>1. Tabled
      BY DEF Init, Tabled
    <2>2. Sound(id, wire)
      <3>1. 0 \in Word /\ 65535 \in Word
        BY WordIs
      <3> QED
        BY <3>1 DEF Init, Sound
    <2>3. Distinct
      BY DEF Init, Distinct
    <2>4. HandledOnce
      BY FS_EmptySet DEF Init, HandledOnce
    <2> QED
      BY <2>1, <2>2, <2>3, <2>4 DEF IInv
  <1>2. ASSUME IInv, [Next]_vars PROVE IInv'
    <2>0. Tabled /\ Sound(id, wire) /\ Distinct /\ HandledOnce /\ id \in Word
      BY <1>2 DEF IInv, Sound
    <2>1. ASSUME UNCHANGED <<ifaces, routes>> PROVE Tabled'
      BY <2>0, <2>1 DEF Tabled
    <2>2. ASSUME UNCHANGED <<protos, up>>, Tabled', Sound(id', wire') PROVE IInv'
      BY <2>0, <2>2 DEF IInv, Distinct, HandledOnce
    <2>3. ASSUME id' = id, wire' = {} PROVE Sound(id', wire')
      BY <2>0, <2>3 DEF Sound
    <2>4. CASE \E c \in IfaceArg :
                   IfaceRegister([dev |-> c[1], unicast |-> c[2], mask |-> c[3]])
      <3>1. PICK c \in IfaceArg :
                   IfaceRegister([dev |-> c[1], unicast |-> c[2], mask |-> c[3]])
        BY <2>4
      <3>2. c[1] \in Device /\ c[2] \in Addr /\ c[3] \in MaskLen
        BY ArgAssumption
      <3>3. Tabled' /\ UNCHANGED <<protos, id, wire, up>>
        BY <2>0, <3>1, <3>2, RegisterIface
      <3> QED
        BY <2>0, <2>2, <3>3
    <2>5. CASE \E r \in ToSet(routes), gw \in Gateway : SetDefaultGateway(r.iface, gw)
      <3>1. PICK r \in ToSet(routes), gw \in Gateway : SetDefaultGateway(r.iface, gw)
        BY <2>5
      <3>2. r \in Route
        BY <2>0, <3>1 DEF Tabled, ToSet
      <3>3. r.iface \in Iface /\ gw \in Addr
        BY <3>2, ArgAssumption DEF Route
      <3>4. Tabled' /\ UNCHANGED <<protos, id, wire, up>>
        BY <2>0, <3>1, <3>3, SetGateway
      <3> QED
        BY <2>0, <2>2, <3>4
    <2>6. CASE \E proto \in ProtoType : ProtoRegister(proto)
      <3>1. PICK proto \in ProtoType : ProtoRegister(proto)
        BY <2>6
      <3>2. Distinct' /\ UNCHANGED <<ifaces, routes, id, wire, up>>
        BY <2>0, <3>1, RegisterKeeps DEF ProtoRegister
      <3> QED
        BY <2>0, <2>1, <3>2 DEF IInv, HandledOnce
    <2>7. CASE \E sport, dport \in Port, c \in UdpArg :
                   UdpTxHandler(sport, dport, c[1], c[2], c[3])
      <3>1. PICK sport \in Port, dport \in Port, c \in UdpArg :
                   UdpTxHandler(sport, dport, c[1], c[2], c[3])
        BY <2>7
      <3>2. UNCHANGED <<ifaces, routes, protos, up>>
        BY <3>1, Zenon DEF UdpTxHandler, TxHandler
      <3>3. Sound(id', wire')
        BY <2>0, <3>1, SendUdp
      <3> QED
        BY <2>1, <2>2, <3>2, <3>3
    <2>8. CASE \E dev \in Device, c \in PeerArg : PeerSends(dev, c[1], c[2], c[3], c[4])
      <3>1. PICK dev \in Device, c \in PeerArg : PeerSends(dev, c[1], c[2], c[3], c[4])
        BY <2>8
      <3>2. UNCHANGED <<ifaces, routes, protos, up>>
        BY <3>1, Zenon DEF PeerSends
      <3>3. Sound(id', wire')
        BY <2>0, <3>1, PeerIsSound
      <3> QED
        BY <2>1, <2>2, <3>2, <3>3
    <2>9. CASE \E c \in Changes : Damage(c[1], c[2])
      <3>0. ASSUME NEW m, NEW x, Damage(m, x) PROVE UNCHANGED <<ifaces, routes, protos, up>>
        BY <3>0, Zenon DEF Damage
      <3>1. PICK c \in Changes : Damage(c[1], c[2])
        BY <2>9
      <3>2. c[1] \in Nat /\ c[2] \in Word
        BY ArgAssumption
      <3>3. UNCHANGED <<ifaces, routes, protos, up>>
        BY <3>0, <3>1
      <3>4. Sound(id', wire')
        BY <2>0, <3>1, <3>2, DamageIsSound
      <3> QED
        BY <2>1, <2>2, <3>3, <3>4
    <2>10. CASE RxHandler
      <3>1. UNCHANGED <<ifaces, routes, protos>>
        BY <2>10 DEF RxHandler
      <3>2. \E proto : up' = {n \in DOMAIN protos : protos[n] = proto}
        BY <2>10, Zenon DEF RxHandler
      <3>3. HandledOnce'
        BY <2>0, <3>2, OneEntry DEF HandledOnce
      <3>4. Sound(id', wire')
        BY <2>0, <2>10, ReceiveIsSound
      <3> QED
        BY <2>0, <2>1, <3>1, <3>3, <3>4 DEF IInv, Distinct
    <2>11. CASE RxDrop
      <3>1. UNCHANGED <<ifaces, routes, protos, id>> /\ up' = {} /\ wire' = {}
        BY <2>11, Zenon DEF RxDrop
      <3>2. HandledOnce'
        BY <3>1, FS_EmptySet DEF HandledOnce
      <3> QED
        BY <2>0, <2>1, <2>3, <3>1, <3>2 DEF IInv, Distinct
    <2>12. CASE Leave
      <3>1. UNCHANGED <<ifaces, routes, protos, id, up>> /\ wire' = {}
        BY <2>12, Zenon DEF Leave
      <3> QED
        BY <2>1, <2>2, <2>3, <3>1
    <2>13. CASE UNCHANGED vars
      <3>1. UNCHANGED <<ifaces, routes, protos, id, wire, up>>
        BY <2>13 DEF vars
      <3> QED
        BY <2>0, <2>1, <2>2, <3>1
    <2>14. Next \/ UNCHANGED vars
      BY <1>2
    <2>15. CASE Next
      BY <2>4, <2>5, <2>6, <2>7, <2>8, <2>9, <2>10, <2>11, <2>12, <2>15 DEF Next
    <2> QED
      BY <2>13, <2>14, <2>15
  <1> QED
    BY <1>1, <1>2, PTL DEF Spec

-----------------------------------------------------------------------------
(***************************************************************************)
(* What is read.                                                           *)
(***************************************************************************)

\* A packet with a header of ten words that is not taken.
Refused(data) ==
    \/ TooShort(Size(data), HeaderSizeMin)
    \/ Size(data) % 65536 < data.words[2]
    \/ ~Verifies(SubSeq(data.words, 1, 10))

\* What is read in one that is.
Content(data) ==
    LET w == data.words IN
    [proto |-> Proto(w[5]), flags |-> w[4], tol |-> w[2],
     src |-> Address(w[7], w[8]), dst |-> Address(w[9], w[10]),
     payload |-> [words |-> SubSeq(w, 11, Len(w)), zeros |-> data.zeros]]

\* What data2header makes of a packet that begins with the first word of ours.
LEMMA ReadIs ==
    ASSUME NEW data \in Message, Len(data.words) >= 10, Plain(data.words[1])
    PROVE  data2header(data) = IF Refused(data) THEN {} ELSE {Content(data)}
  <1> DEFINE w == data.words
             len == Size(data)
             hlen == ((w[1] \div 256) % 16) * 4
             rest == len - Larger(hlen, 2 * Len(w))
             other == w[1] \div 4096 # 4
             zero == [proto |-> 0, flags |-> 0, tol |-> 0, src |-> 0, dst |-> 0,
                      payload |-> [words |-> <<>>, zeros |-> 0]]
             refused(h, k) == \/ TooShort(len, h)
                              \/ len % 65536 < w[2]
                              \/ ~Verifies(SubSeq(w, 1, k))
             taken(k, z) == [proto |-> w[5] % 256, flags |-> w[4], tol |-> w[2],
                             src |-> w[7] * 65536 + w[8], dst |-> w[9] * 65536 + w[10],
                             payload |-> [words |-> SubSeq(w, k, Len(w)), zeros |-> z]]
  <1>1. Len(w) \in Nat /\ data.zeros \in Nat /\ len = 2 * Len(w) + data.zeros
    BY MessageParts
  <1>2. hlen = 20 /\ ~other
    BY DEF Plain
  <1>3. hlen \div 2 = 10 /\ hlen \div 2 + 1 = 11
    <2> HIDE DEF hlen
    <2> QED
      BY <1>2
  <1>4. rest = data.zeros
    <2> HIDE DEF hlen, len, w
    <2>1. Larger(hlen, 2 * Len(w)) = 2 * Len(w)
      BY <1>1, <1>2 DEF Larger, w
    <2> QED
      BY <1>1, <2>1
  <1>5. data2header(data) =
           IF other THEN {zero}
           ELSE IF refused(hlen, hlen \div 2) THEN {} ELSE {taken(hlen \div 2 + 1, rest)}
    BY DEF data2header
  <1>6. data2header(data) = IF refused(20, 10) THEN {} ELSE {taken(11, data.zeros)}
    <2> HIDE DEF hlen, rest, other, zero, refused, taken
    <2> QED
      BY <1>2, <1>3, <1>4, <1>5
  <1>7. taken(11, data.zeros) = Content(data)
    BY DEF Content, Proto, Address
  <1>8. refused(20, 10) <=> Refused(data)
    BY DEF Refused, HeaderSizeMin
  <1> HIDE DEF taken, refused
  <1> QED
    BY <1>6, <1>7, <1>8

\* What UDP's data2header reads in a message.
LEMMA DatagramIs ==
    ASSUME NEW msg \in Message, Len(msg.words) >= 4, NEW src \in Nat, NEW dst \in Nat
    PROVE  LET w == msg.words IN
           U!data2header(msg, src, dst) =
              IF \/ w[3] # Size(msg)
                 \/ w[4] # 0 /\ ~IsZero(Sum(U!PseudoHeader(src, dst, w[3]) \o w, 0))
              THEN {}
              ELSE {[src |-> w[1], dst |-> w[2],
                     payload |-> [msg EXCEPT !.words = SubSeq(@, 5, Len(@))]]}
  <1> DEFINE w == msg.words
             P == U!PseudoHeader(src, dst, w[3])
             base == 65535 - CheckSum(P, 0)
  <1>1. /\ w \in Seq(Nat) /\ Len(w) \in Nat /\ Len(w) >= 4 /\ w[3] \in Nat
        /\ Size(msg) \in Nat /\ Size(msg) >= 8
    <2>1. /\ w \in Seq(Word) /\ Len(w) \in Nat /\ msg.zeros \in Nat
          /\ Size(msg) \in Nat /\ Size(msg) = 2 * Len(w) + msg.zeros
      BY MessageParts
    <2>2. w \in Seq(Nat)
      BY <2>1, WordsAreNat
    <2>3. 3 \in 1 .. Len(w)
      BY <2>1
    <2>4. w[3] \in Nat
      BY <2>2, <2>3, ElementOfSeq
    <2>5. Len(w) >= 4
      OBVIOUS
    <2> HIDE DEF w
    <2>6. Size(msg) >= 8
      BY <2>1, <2>5
    <2> QED
      BY <2>1, <2>2, <2>4, <2>5, <2>6
  <1>2. P \in Seq(Nat) /\ 0 \in Nat
    <2> DEFINE l == w[3]
    <2>1. P = <<0, src, 0, dst, 17, l>> /\ l \in Nat
      BY <1>1 DEF U!PseudoHeader, U!UDP
    <2> HIDE DEF P, l
    <2> QED
      BY <2>1
  <1> HIDE DEF P
  <1> DEFINE s == Sum(P, 0)
             c == Carried[s]
             t == Sum(w, 0)
  <1>3. s \in Nat /\ t \in Nat
    BY <1>1, <1>2, SumIsNat
  <1>4. base = c /\ c \in Nat
    <2>1. CheckSum(P, 0) = 65535 - c
      BY DEF CheckSum
    <2>2. c \in Word
      <3> HIDE DEF s
      <3> QED
        BY <1>3, CarriedIsWord
    <2>3. c \in Nat
      BY <2>2, WordIs
    <2> HIDE DEF c
    <2> QED
      BY <2>1, <2>3
  <1>5. IsZero(c + t) <=> IsZero(s + t)
    <2> HIDE DEF s, t
    <2> QED
      BY <1>3, CarriedIsZero
  <1> HIDE DEF base, w
  <1>6. Accepted(CheckSum(w, base)) <=> IsZero(Sum(w, base))
    BY <1>1, <1>4, ZeroVerifies
  <1>7. Sum(w, base) = base + t /\ Sum(w, s) = s + t /\ Sum(P \o w, 0) = Sum(w, s)
    <2>1. Sum(w, base) = base + t
      BY <1>1, <1>4, SumFrom
    <2>2. Sum(w, s) = s + t
      <3> HIDE DEF s
      <3> QED
        BY <1>1, <1>3, SumFrom
    <2>3. Sum(P \o w, 0) = Sum(w, s)
      BY <1>1, <1>2, SumConcat
    <2> QED
      BY <2>1, <2>2, <2>3
  <1> HIDE DEF s, c, t
  <1>8. Accepted(CheckSum(w, base)) <=> IsZero(Sum(P \o w, 0))
    BY <1>4, <1>5, <1>6, <1>7
  <1> DEFINE d == [src |-> w[1], dst |-> w[2],
                   payload |-> [msg EXCEPT !.words = SubSeq(w, 5, Len(w))]]
  <1>9. U!data2header(msg, src, dst) =
           IF \/ Size(msg) < 8
              \/ w[3] # Size(msg)
              \/ w[4] # 0 /\ ~Accepted(CheckSum(w, base))
           THEN {} ELSE {d}
    BY SameCheckSum, SameSize DEF U!data2header, Accepted, U!HeaderSize, w, base, P
  <1>10. d = [src |-> w[1], dst |-> w[2],
              payload |-> [msg EXCEPT !.words = SubSeq(@, 5, Len(@))]]
    BY DEF w
  <1> HIDE DEF d
  <1>11. ~(Size(msg) < 8)
    BY <1>1
  <1>12. U!data2header(msg, src, dst) =
            IF \/ w[3] # Size(msg)
               \/ w[4] # 0 /\ ~IsZero(Sum(P \o w, 0))
            THEN {} ELSE {d}
    BY <1>8, <1>9, <1>11
  <1> QED
    BY <1>10, <1>12 DEF w, P

\* A part of the words of which one has changed.
LEMMA PartChanged ==
    ASSUME NEW w \in Seq(Word), NEW n \in 1 .. Len(w), NEW x \in Word,
           NEW a \in Nat, NEW b \in Nat, 1 <= a, a <= b, b <= Len(w)
    PROVE  LET s == SubSeq(w, a, b)
               t == SubSeq([w EXCEPT ![n] = x], a, b)
           IN  /\ s \in Seq(Word) /\ Len(s) = b - a + 1
               /\ \A i \in 1 .. b - a + 1 : s[i] = w[a + i - 1]
               /\ n < a \/ b < n => t = s
               /\ a <= n /\ n <= b => t = [s EXCEPT ![n - a + 1] = x]
  <1> DEFINE v == [w EXCEPT ![n] = x]
             s == SubSeq(w, a, b)
             t == SubSeq(v, a, b)
  <1>1. /\ v \in Seq(Word) /\ Len(v) = Len(w)
        /\ \A j \in 1 .. Len(w) : v[j] = IF j = n THEN x ELSE w[j]
    BY ExceptSeq
  <1>2. Len(w) \in Nat /\ n \in Nat /\ b - a + 1 \in Nat
    OBVIOUS
  <1> HIDE DEF v
  <1>3. s \in Seq(Word) /\ Len(s) = b - a + 1
        /\ \A i \in 1 .. b - a + 1 : s[i] = w[a + i - 1]
    <2>1. \A i \in a .. b : w[i] \in Word
      OBVIOUS
    <2> QED
      BY <2>1, SubSeqProperties
  <1>4. t \in Seq(Word) /\ Len(t) = b - a + 1
        /\ \A i \in 1 .. b - a + 1 : t[i] = v[a + i - 1]
    <2>1. \A i \in a .. b : v[i] \in Word
      BY <1>1
    <2> QED
      BY <2>1, SubSeqProperties
  <1> HIDE DEF s, t
  <1>5. \A i \in 1 .. b - a + 1 : a + i - 1 \in 1 .. Len(w)
    BY <1>2
  <1>6. \A i \in 1 .. b - a + 1 : t[i] = IF a + i - 1 = n THEN x ELSE s[i]
    BY <1>1, <1>3, <1>4, <1>5
  <1>7. ASSUME n < a \/ b < n PROVE t = s
    <2>1. \A i \in 1 .. b - a + 1 : a + i - 1 # n
      BY <1>2, <1>7
    <2>2. \A i \in 1 .. Len(t) : t[i] = s[i]
      BY <1>4, <1>6, <2>1
    <2> QED
      BY <1>3, <1>4, <2>2, SeqEqual
  <1>8. ASSUME a <= n, n <= b PROVE t = [s EXCEPT ![n - a + 1] = x]
    <2> DEFINE k == n - a + 1
               r == [s EXCEPT ![k] = x]
    <2>1. k \in 1 .. b - a + 1 /\ \A i \in 1 .. b - a + 1 : i = k <=> a + i - 1 = n
      BY <1>2, <1>8
    <2> HIDE DEF k
    <2>2. /\ r \in Seq(Word) /\ Len(r) = Len(s)
          /\ \A j \in 1 .. Len(s) : r[j] = IF j = k THEN x ELSE s[j]
      BY <1>3, <2>1, ExceptSeq
    <2> HIDE DEF r
    <2>3. \A i \in 1 .. Len(t) : t[i] = r[i]
      BY <1>3, <1>4, <1>6, <2>1, <2>2
    <2>4. t = r
      BY <1>3, <1>4, <2>2, <2>3, SeqEqual
    <2> QED
      BY <2>4 DEF r, k
  <1> QED
    BY <1>3, <1>7, <1>8 DEF s, t, v

\* m is msg with another word, not its negative zero, at k.
Change(msg, m, k, x) ==
    /\ k \in 1 .. Len(msg.words) /\ x \in Word
    /\ msg.words[k] # x /\ ~Opposite(msg.words[k], x)
    /\ m.words = [msg.words EXCEPT ![k] = x] /\ m.zeros = msg.zeros

\* A datagram in which one word has changed, but for its checksum to 0.
LEMMA DatagramChange ==
    ASSUME NEW msg \in Message, NEW src \in Nat, NEW dst \in Nat,
           Datagrammed(msg, src, dst),
           NEW m \in Message, NEW k, NEW x, Change(msg, m, k, x), m.words[4] # 0
    PROVE  U!data2header(m, src, dst) = {}
  <1>0. /\ k \in 1 .. Len(msg.words) /\ x \in Word
        /\ msg.words[k] # x /\ ~Opposite(msg.words[k], x)
        /\ m.words = [msg.words EXCEPT ![k] = x] /\ m.zeros = msg.zeros
    BY DEF Change
  <1> DEFINE w == msg.words
             v == m.words
             P == U!PseudoHeader(src, dst, Size(msg))
  <1>1. w \in Seq(Word) /\ Len(w) \in Nat /\ Len(w) >= 4 /\ w[3] = Size(msg)
        /\ Size(msg) = 2 * Len(w) + msg.zeros /\ IsZero(Sum(P \o w, 0))
        /\ Size(msg) \in Nat
    BY MessageParts DEF Datagrammed
  <1>2. /\ v \in Seq(Word) /\ Len(v) = Len(w) /\ v = [w EXCEPT ![k] = x]
        /\ \A j \in 1 .. Len(w) : v[j] = IF j = k THEN x ELSE w[j]
    BY <1>0, <1>1, ExceptSeq
  <1>3. P \in Seq(Nat) /\ 0 \in Nat
    <2> DEFINE l == Size(msg)
    <2>1. P = <<0, src, 0, dst, 17, l>> /\ l \in Nat
      BY <1>1 DEF U!PseudoHeader, U!UDP
    <2> HIDE DEF P, l
    <2> QED
      BY <2>1
  <1>4. Size(m) = Size(msg)
    <2>1. Size(m) = 2 * Len(v) + m.zeros
      BY MessageParts
    <2> QED
      BY <1>0, <1>1, <1>2, <2>1
  <1>5. U!data2header(m, src, dst) =
           IF \/ v[3] # Size(m)
              \/ v[4] # 0 /\ ~IsZero(Sum(U!PseudoHeader(src, dst, v[3]) \o v, 0))
           THEN {}
           ELSE {[src |-> v[1], dst |-> v[2],
                  payload |-> [m EXCEPT !.words = SubSeq(@, 5, Len(@))]]}
    <2>1. Len(m.words) >= 4
      BY <1>1, <1>2
    <2> QED
      BY <2>1, DatagramIs
  <1>6. CASE k = 3
    <2>1. v[3] = x /\ w[3] # x
      BY <1>0, <1>1, <1>2, <1>6
    <2>2. v[3] # Size(m)
      BY <1>1, <1>4, <2>1
    <2> HIDE DEF v
    <2> QED
      BY <1>5, <2>2
  <1>7. CASE k # 3
    <2>1. v[3] = Size(m)
      BY <1>1, <1>2, <1>4, <1>7
    <2>2. U!PseudoHeader(src, dst, v[3]) = P /\ v[4] # 0
      BY <1>4, <2>1
    <2> HIDE DEF P, v
    <2> DEFINE b == Sum(P, 0)
    <2>3. b \in Nat /\ w \in Seq(Nat) /\ v \in Seq(Nat)
      BY <1>1, <1>2, <1>3, SumIsNat, WordsAreNat
    <2>4. Sum(P \o w, 0) = Sum(w, b) /\ Sum(P \o v, 0) = Sum(v, b)
      BY <1>3, <2>3, SumConcat
    <2> HIDE DEF b
    <2>5. ~IsZero(Sum(v, b))
      <3> SUFFICES ASSUME IsZero(Sum(v, b)) PROVE FALSE
        OBVIOUS
      <3>1. IsZero(Sum(w, b))
        BY <1>1, <2>4
      <3>2. IsZero(Sum([w EXCEPT ![k] = x], b))
        BY <1>2
      <3>3. Opposite(w[k], x)
        BY <1>0, <1>1, <2>3, <3>1, <3>2, ChangeIsSeen
      <3> QED
        BY <1>0, <3>3
    <2> QED
      BY <1>5, <2>2, <2>4, <2>5
  <1> QED
    BY <1>6, <1>7

\* What the original of a packet and the packet have in common.
LEMMA BuiltParts ==
    ASSUME NEW p, Built(p)
    PROVE  LET w == Original(p) IN
           /\ p.data \in Message /\ p.msg \in Message /\ p.data.zeros = p.msg.zeros
           /\ w \in Seq(Word) /\ p.data.words \in Seq(Word)
           /\ Len(w) = Len(p.data.words) /\ Len(w) = 10 + Len(p.msg.words)
           /\ Len(p.msg.words) \in Nat /\ Len(w) \in Nat /\ Len(w) >= 10
           /\ SubSeq(w, 11, Len(w)) = p.msg.words
           /\ Plain(w[1]) /\ w[2] = Size(p.data)
           /\ IsZero(Sum(SubSeq(w, 1, 10), 0))
           /\ Address(w[7], w[8]) \in Nat /\ Address(w[9], w[10]) \in Nat
           /\ Proto(w[5]) = U!UDP =>
                 Datagrammed(p.msg, Address(w[7], w[8]), Address(w[9], w[10]))
  <1> DEFINE w == Original(p)
  <1>1. /\ p \in Parcel /\ p.data.zeros = p.msg.zeros
        /\ w \in Seq(Word) /\ Len(w) = Len(p.data.words)
        /\ SubSeq(w, 11, Len(w)) = p.msg.words
        /\ Len(w) = 10 + Len(p.msg.words)
        /\ Plain(w[1]) /\ w[2] = Size(p.data)
        /\ IsZero(Sum(SubSeq(w, 1, 10), 0))
        /\ Proto(w[5]) = U!UDP =>
              Datagrammed(p.msg, Address(w[7], w[8]), Address(w[9], w[10]))
    BY Zenon DEF Built
  <1>2. p.data \in Message /\ p.msg \in Message
    BY <1>1 DEF Parcel
  <1>3. p.data.words \in Seq(Word) /\ Len(p.msg.words) \in Nat
    BY <1>2, MessageParts
  <1> HIDE DEF w
  <1>4. Len(w) \in Nat /\ Len(w) >= 10
    BY <1>1, <1>3
  <1>5. w[7] \in Word /\ w[8] \in Word /\ w[9] \in Word /\ w[10] \in Word
    <2>1. 7 \in 1 .. Len(w) /\ 8 \in 1 .. Len(w) /\ 9 \in 1 .. Len(w) /\ 10 \in 1 .. Len(w)
      BY <1>4
    <2> QED
      BY <1>1, <2>1, ElementOfSeq
  <1>6. Address(w[7], w[8]) \in Nat /\ Address(w[9], w[10]) \in Nat
    BY <1>5, WordsAreAddr DEF Address, IpAddr
  <1> QED
    BY <1>1, <1>2, <1>3, <1>4, <1>6, Zenon DEF w

\* What was sent is read as it was sent.
LEMMA SentIsRead ==
    ASSUME NEW p, Built(p), p.damage = <<>>
    PROVE  LET hdr == Content(p.data) IN
           /\ data2header(p.data) =
                 IF Size(p.data) % 256 < HeaderSizeMin THEN {} ELSE {hdr}
           /\ hdr.payload = p.msg /\ hdr.tol = Size(p.data)
           /\ hdr.proto = U!UDP =>
                 \E d \in Datagram(hdr) : <<d.src, d.dst>> = SubSeq(p.msg.words, 1, 2)
  <1> DEFINE w == p.data.words
             s == SubSeq(w, 1, 10)
             hdr == Content(p.data)
             len == Size(p.data)
             src == Address(w[7], w[8])
             dst == Address(w[9], w[10])
             mw == p.msg.words
  <1>0. Original(p) = w
    BY DEF Original
  <1>1. /\ p.data \in Message /\ p.msg \in Message /\ p.data.zeros = p.msg.zeros
        /\ w \in Seq(Word) /\ Len(w) \in Nat /\ Len(w) >= 10
        /\ SubSeq(w, 11, Len(w)) = mw
        /\ Plain(w[1]) /\ w[2] = len /\ IsZero(Sum(s, 0))
        /\ src \in Nat /\ dst \in Nat
        /\ Proto(w[5]) = U!UDP => Datagrammed(p.msg, src, dst)
    BY <1>0, BuiltParts
  <1>2. len \in Nat /\ len % 65536 = len
    <2>1. 2 \in 1 .. Len(w)
      BY <1>1
    <2>2. len \in Word
      BY <1>1, <2>1, ElementOfSeq
    <2>3. len \in Nat /\ len <= 65535
      BY <2>2, WordIs
    <2> HIDE DEF len
    <2> QED
      BY <2>3
  <1>3. s \in Seq(Nat)
    <2>0. w \in Seq(Word) /\ Len(w) \in Nat /\ Len(w) >= 10
      BY <1>1
    <2>1. \A i \in 1 .. 10 : w[i] \in Word
      <3> HIDE DEF w
      <3> QED
        BY <2>0
    <2>2. s \in Seq(Word)
      BY <2>1, SubSeqProperties
    <2> QED
      BY <2>2, WordsAreNat
  <1>4. Verifies(s)
    <2>1. 0 \in Nat
      OBVIOUS
    <2>2. Accepted(CheckSum(s, 0)) <=> IsZero(Sum(s, 0))
      <3> HIDE DEF s
      <3> QED
        BY <1>3, <2>1, ZeroVerifies
    <2> HIDE DEF s
    <2> QED
      BY <1>1, <2>2, VerifiesIs
  <1>5. Refused(p.data) <=> len % 256 < HeaderSizeMin
    <2>1. ~(len % 65536 < w[2])
      BY <1>1, <1>2
    <2> QED
      BY <1>4, <2>1 DEF Refused, TooShort
  <1>6. data2header(p.data) = IF Refused(p.data) THEN {} ELSE {hdr}
    BY <1>1, ReadIs
  <1>7. /\ hdr.tol = len /\ hdr.proto = Proto(w[5]) /\ hdr.src = src /\ hdr.dst = dst
        /\ hdr.payload = [words |-> mw, zeros |-> p.msg.zeros]
    BY <1>1 DEF Content
  <1>8. hdr.payload = p.msg
    <2>1. p.msg = [words |-> mw, zeros |-> p.msg.zeros]
      BY <1>1 DEF Message
    <2> HIDE DEF hdr, mw
    <2> QED
      BY <1>7, <2>1
  <1> HIDE DEF hdr, src, dst
  <1>9. ASSUME hdr.proto = U!UDP
        PROVE  \E d \in Datagram(hdr) : <<d.src, d.dst>> = SubSeq(mw, 1, 2)
    <2>1. Datagrammed(p.msg, src, dst)
      BY <1>1, <1>7, <1>9
    <2>2. Len(mw) >= 4 /\ mw[3] = Size(p.msg)
          /\ IsZero(Sum(U!PseudoHeader(src, dst, Size(p.msg)) \o mw, 0))
          /\ mw \in Seq(Word) /\ Len(mw) \in Nat
      BY <1>1, <2>1, MessageParts DEF Datagrammed
    <2> DEFINE d == [src |-> mw[1], dst |-> mw[2],
                     payload |-> [p.msg EXCEPT !.words = SubSeq(@, 5, Len(@))]]
    <2>3. U!data2header(p.msg, src, dst) =
             IF \/ mw[3] # Size(p.msg)
                \/ mw[4] # 0 /\ ~IsZero(Sum(U!PseudoHeader(src, dst, mw[3]) \o mw, 0))
             THEN {} ELSE {d}
      BY <1>1, <2>2, DatagramIs
    <2>4. d.src = mw[1] /\ d.dst = mw[2]
      OBVIOUS
    <2>5. SubSeq(mw, 1, 2) = <<mw[1], mw[2]>>
      <3>1. \A i \in 1 .. 2 : mw[i] \in Word
        BY <2>2
      <3>2. SubSeq(mw, 1, 2) \in Seq(Word) /\ Len(SubSeq(mw, 1, 2)) = 2
            /\ \A i \in 1 .. 2 : SubSeq(mw, 1, 2)[i] = mw[i]
        BY <3>1, SubSeqProperties
      <3> DEFINE a == mw[1]
                 b == mw[2]
                 t == SubSeq(mw, 1, 2)
                 r == <<a, b>>
      <3>3. a \in Word /\ b \in Word
        BY <3>1
      <3>4. t[1] = a /\ t[2] = b
        BY <3>2
      <3> HIDE DEF a, b, t
      <3>5. r \in Seq(Word) /\ Len(r) = 2 /\ r[1] = a /\ r[2] = b
        BY <3>3
      <3> HIDE DEF r
      <3>6. t \in Seq(Word) /\ Len(t) = 2
        BY <3>2 DEF t
      <3>7. \A i \in 1 .. Len(t) : t[i] = r[i]
        BY <3>4, <3>5, <3>6
      <3>8. t = r
        BY <3>5, <3>6, <3>7, SeqEqual
      <3> QED
        BY <3>8 DEF a, b, t, r
    <2> HIDE DEF d, mw
    <2>6. U!data2header(p.msg, src, dst) = {d}
      BY <2>2, <2>3
    <2>7. Datagram(hdr) = {d}
      BY <1>7, <1>8, <2>6 DEF Datagram
    <2> QED
      BY <2>4, <2>5, <2>7
  <1> HIDE DEF w, len, s
  <1>10. data2header(p.data) = IF len % 256 < HeaderSizeMin THEN {} ELSE {hdr}
    BY <1>5, <1>6
  <1> QED
    BY <1>7, <1>8, <1>9, <1>10 DEF hdr, len, mw

\* A packet in which one word has changed is refused.
LEMMA DamagedIsRefused ==
    ASSUME NEW p, Built(p), Damaged(p), p.damage # <<>>, p.damage[1] # 1,
           ~Opposite(p.damage[2], p.data.words[p.damage[1]]),
           NEW hdr \in data2header(p.data)
    PROVE  /\ p.damage[1] > 10
           /\ hdr.proto = U!UDP /\ p.data.words[14] # 0 => Datagram(hdr) = {}
  <1> DEFINE u == p.data.words
             w == Original(p)
             n == p.damage[1]
             x == u[n]
             src == Address(w[7], w[8])
             dst == Address(w[9], w[10])
             mw == p.msg.words
  <1>1. /\ p.data \in Message /\ p.msg \in Message /\ p.data.zeros = p.msg.zeros
        /\ w \in Seq(Word) /\ u \in Seq(Word) /\ Len(w) = Len(u)
        /\ Len(w) = 10 + Len(mw) /\ Len(mw) \in Nat /\ Len(w) \in Nat /\ Len(w) >= 10
        /\ SubSeq(w, 11, Len(w)) = mw
        /\ Plain(w[1]) /\ IsZero(Sum(SubSeq(w, 1, 10), 0))
        /\ src \in Nat /\ dst \in Nat
        /\ Proto(w[5]) = U!UDP => Datagrammed(p.msg, src, dst)
    BY BuiltParts
  <1>2. n \in 1 .. Len(w) /\ p.damage[2] \in Word /\ p.damage[2] # x
        /\ w = [u EXCEPT ![n] = p.damage[2]]
    BY <1>1 DEF Damaged, Original
  <1>3. x \in Word
    BY <1>1, <1>2, ElementOfSeq
  <1> HIDE DEF u, w, n, src, dst, mw
  <1>0. Len(u) \in Nat /\ Len(w) \in Nat /\ Len(u) >= 10 /\ Len(w) >= 10 /\ Len(u) = Len(w)
        /\ u \in Seq(Word) /\ w \in Seq(Word)
    BY <1>1
  <1>4. w[n] = p.damage[2] /\ w[n] # x /\ ~Opposite(w[n], x)
        /\ \A j \in 1 .. Len(u) : w[j] = IF j = n THEN p.damage[2] ELSE u[j]
    <2>1. n \in 1 .. Len(u)
      BY <1>1, <1>2
    <2>2. \A j \in 1 .. Len(u) : w[j] = IF j = n THEN p.damage[2] ELSE u[j]
      BY <1>1, <1>2, <2>1, ExceptSeq
    <2>3. ~Opposite(p.damage[2], x)
      BY DEF u, n
    <2> QED
      BY <1>2, <2>1, <2>2, <2>3
  <1>5. u = [w EXCEPT ![n] = x]
    <2> DEFINE v == [w EXCEPT ![n] = x]
    <2>1. /\ v \in Seq(Word) /\ Len(v) = Len(w)
          /\ \A j \in 1 .. Len(w) : v[j] = IF j = n THEN x ELSE w[j]
      BY <1>1, <1>2, <1>3, ExceptSeq
    <2> HIDE DEF v
    <2>2. \A j \in 1 .. Len(v) : v[j] = u[j]
      BY <1>1, <1>4, <2>1
    <2>3. v = u
      BY <1>1, <2>1, <2>2, SeqEqual
    <2> QED
      BY <2>3 DEF v
  <1> HIDE DEF x
  <1>6. n # 1 /\ n \in Nat
    BY <1>1, <1>2 DEF n
  <1>7. u[1] = w[1] /\ Len(u) >= 10
    <2>1. 1 \in 1 .. Len(u)
      BY <1>0
    <2> QED
      BY <1>0, <1>4, <1>6, <2>1
  <1>8. hdr = Content(p.data) /\ ~Refused(p.data)
    <2>1. Plain(p.data.words[1]) /\ Len(p.data.words) >= 10
      BY <1>1, <1>7 DEF u
    <2>2. data2header(p.data) = IF Refused(p.data) THEN {} ELSE {Content(p.data)}
      BY <1>1, <2>1, ReadIs
    <2> QED
      BY <2>2
  <1> DEFINE s == SubSeq(w, 1, 10)
             t == SubSeq(u, 1, 10)
  <1>9. /\ s \in Seq(Word) /\ Len(s) = 10
        /\ \A i \in 1 .. 10 : s[i] = w[i]
        /\ 10 < n => t = s
        /\ n <= 10 => t = [s EXCEPT ![n] = x]
    <2>1. LET a == SubSeq(w, 1, 10)
              b == SubSeq([w EXCEPT ![n] = x], 1, 10)
          IN  /\ a \in Seq(Word) /\ Len(a) = 10 - 1 + 1
              /\ \A i \in 1 .. 10 - 1 + 1 : a[i] = w[1 + i - 1]
              /\ n < 1 \/ 10 < n => b = a
              /\ 1 <= n /\ n <= 10 => b = [a EXCEPT ![n - 1 + 1] = x]
      <3> DEFINE f == 1
                 l == 10
      <3>1. f \in Nat /\ l \in Nat /\ 1 <= f /\ f <= l /\ l <= Len(w)
        BY <1>0
      <3> HIDE DEF f, l
      <3>2. LET a == SubSeq(w, f, l)
                b == SubSeq([w EXCEPT ![n] = x], f, l)
            IN  /\ a \in Seq(Word) /\ Len(a) = l - f + 1
                /\ \A i \in 1 .. l - f + 1 : a[i] = w[f + i - 1]
                /\ n < f \/ l < n => b = a
                /\ f <= n /\ n <= l => b = [a EXCEPT ![n - f + 1] = x]
        <4>1. w \in Seq(Word) /\ n \in 1 .. Len(w) /\ x \in Word
          BY <1>0, <1>2, <1>3
        <4> QED
          BY <3>1, <4>1, PartChanged
      <3> QED
        BY <3>2, Zenon DEF f, l
    <2>2. 1 <= n /\ n - 1 + 1 = n
      BY <1>1, <1>2
    <2>3. \A i \in 1 .. 10 : 1 + i - 1 = i
      OBVIOUS
    <2> HIDE DEF s, t
    <2>4. t = SubSeq([w EXCEPT ![n] = x], 1, 10)
      BY <1>5, Zenon DEF t
    <2> QED
      BY <2>1, <2>2, <2>3, <2>4 DEF s
  <1> HIDE DEF s, t
  <1>10. t \in Seq(Word) /\ IsZero(Sum(t, 0))
    <2>1. \A i \in 1 .. 10 : u[i] \in Word
      BY <1>0
    <2>2. t \in Seq(Word)
      BY <2>1, SubSeqProperties DEF t
    <2>3. t \in Seq(Nat) /\ 0 \in Nat
      BY <2>2, WordsAreNat
    <2>4. Verifies(t)
      BY <1>8 DEF Refused, t, u
    <2> QED
      BY <2>2, <2>3, <2>4, VerifiesIs, ZeroVerifies
  <1>11. IsZero(Sum(s, 0))
    BY <1>1 DEF s
  <1>12. n > 10
    <2> SUFFICES ASSUME n <= 10 PROVE FALSE
      BY <1>6
    <2>1. n \in 1 .. Len(s) /\ s[n] = w[n] /\ t = [s EXCEPT ![n] = x] /\ 0 \in Nat
      BY <1>2, <1>6, <1>9
    <2>2. Opposite(s[n], x)
      BY <1>3, <1>4, <1>9, <1>10, <1>11, <2>1, ChangeIsSeen
    <2> QED
      BY <1>4, <2>1, <2>2
  <1>13. ASSUME hdr.proto = U!UDP, u[14] # 0 PROVE Datagram(hdr) = {}
    <2> DEFINE m == hdr.payload
               k == n - 10
    <2>1. u[5] = w[5] /\ u[7] = w[7] /\ u[8] = w[8] /\ u[9] = w[9] /\ u[10] = w[10]
      <3>1. 5 \in 1 .. Len(u) /\ 7 \in 1 .. Len(u) /\ 8 \in 1 .. Len(u)
            /\ 9 \in 1 .. Len(u) /\ 10 \in 1 .. Len(u)
        BY <1>0
      <3>2. n # 5 /\ n # 7 /\ n # 8 /\ n # 9 /\ n # 10
        BY <1>12
      <3> QED
        BY <1>4, <3>1, <3>2
    <2>2. /\ hdr.proto = Proto(u[5]) /\ hdr.src = src /\ hdr.dst = dst
          /\ m = [words |-> SubSeq(u, 11, Len(u)), zeros |-> p.data.zeros]
      <3>1. /\ hdr.proto = Proto(u[5]) /\ hdr.src = Address(u[7], u[8])
            /\ hdr.dst = Address(u[9], u[10])
            /\ m = [words |-> SubSeq(u, 11, Len(u)), zeros |-> p.data.zeros]
        BY <1>8 DEF Content, u
      <3> QED
        BY <2>1, <3>1 DEF src, dst
    <2>3. Datagrammed(p.msg, src, dst)
      BY <1>1, <1>13, <2>1, <2>2
    <2>4. /\ SubSeq(u, 11, Len(u)) \in Seq(Word)
          /\ SubSeq(u, 11, Len(u)) = [mw EXCEPT ![k] = x]
          /\ \A i \in 1 .. Len(mw) : mw[i] = w[10 + i]
          /\ \A i \in 1 .. Len(mw) : SubSeq(u, 11, Len(u))[i] = u[10 + i]
      <3> DEFINE l == Len(w)
                 b == SubSeq([w EXCEPT ![n] = x], 11, l)
      <3>1. 11 \in Nat /\ l \in Nat /\ 1 <= 11 /\ 11 <= l /\ l <= l /\ 11 <= n /\ n <= l
            /\ n - 11 + 1 = k /\ l - 11 + 1 = Len(mw)
            /\ \A i \in 1 .. Len(mw) : 11 + i - 1 = 10 + i
        BY <1>1, <1>2, <1>6, <1>12
      <3>2. LET a == SubSeq(w, 11, l)
            IN  /\ a \in Seq(Word) /\ Len(a) = l - 11 + 1
                /\ \A i \in 1 .. l - 11 + 1 : a[i] = w[11 + i - 1]
                /\ n < 11 \/ l < n => b = a
                /\ 11 <= n /\ n <= l => b = [a EXCEPT ![n - 11 + 1] = x]
        <4>0. w \in Seq(Word) /\ n \in 1 .. Len(w) /\ x \in Word
          BY <1>1, <1>2, <1>3
        <4> DEFINE f == 11
        <4>1. f \in Nat /\ l \in Nat /\ 1 <= f /\ f <= l /\ l <= Len(w)
          BY <3>1
        <4> HIDE DEF f, l
        <4>2. LET a == SubSeq(w, f, l)
                  c == SubSeq([w EXCEPT ![n] = x], f, l)
              IN  /\ a \in Seq(Word) /\ Len(a) = l - f + 1
                  /\ \A i \in 1 .. l - f + 1 : a[i] = w[f + i - 1]
                  /\ n < f \/ l < n => c = a
                  /\ f <= n /\ n <= l => c = [a EXCEPT ![n - f + 1] = x]
          BY <4>0, <4>1, PartChanged
        <4> QED
          BY <4>2, Zenon DEF f
      <3>3. b = SubSeq(u, 11, Len(u))
        BY <1>1, <1>5, Zenon
      <3>4. \A i \in 11 .. Len(u) : u[i] \in Word
        BY <1>0
      <3>5. /\ SubSeq(u, 11, Len(u)) \in Seq(Word)
            /\ \A i \in 1 .. Len(u) - 11 + 1 : SubSeq(u, 11, Len(u))[i] = u[11 + i - 1]
        <4> DEFINE e == Len(u)
        <4>1. 11 \in Int /\ e \in Int
          BY <1>0
        <4>2. \A i \in 11 .. e : u[i] \in Word
          BY <3>4
        <4> HIDE DEF e
        <4>3. /\ SubSeq(u, 11, e) \in Seq(Word)
              /\ \A i \in 1 .. e - 11 + 1 : SubSeq(u, 11, e)[i] = u[11 + i - 1]
          BY <4>1, <4>2, SubSeqProperties
        <4> QED
          BY <4>3 DEF e
      <3> HIDE DEF l, b, k, mw
      <3>6. SubSeq(w, 11, l) = mw /\ l = Len(u)
        BY <1>1 DEF l
      <3>7. SubSeq(u, 11, Len(u)) = [mw EXCEPT ![k] = x]
        <4>1. b = [SubSeq(w, 11, l) EXCEPT ![n - 11 + 1] = x]
          BY <3>1, <3>2
        <4> QED
          BY <3>1, <3>3, <3>6, <4>1
      <3>8. ASSUME NEW i \in 1 .. Len(mw)
            PROVE  mw[i] = w[10 + i] /\ SubSeq(u, 11, Len(u))[i] = u[10 + i]
        <4>1. 11 + i - 1 = 10 + i /\ i \in 1 .. l - 11 + 1 /\ i \in 1 .. Len(u) - 11 + 1
          BY <3>1, <3>6
        <4>2. SubSeq(w, 11, l)[i] = w[11 + i - 1]
          BY <3>2, <4>1
        <4>3. SubSeq(u, 11, Len(u))[i] = u[11 + i - 1]
          BY <3>5, <4>1
        <4> QED
          BY <3>6, <4>1, <4>2, <4>3
      <3> QED
        BY <3>5, <3>7, <3>8
    <2>5. m \in Message /\ m.words = [mw EXCEPT ![k] = x] /\ m.zeros = p.msg.zeros
      <3>1. m.words = SubSeq(u, 11, Len(u)) /\ m.zeros = p.data.zeros
        BY <2>2
      <3>2. p.data.zeros \in Nat
        BY <1>1, MessageParts
      <3> QED
        BY <1>1, <2>2, <2>4, <3>1, <3>2 DEF Message
    <2>6. k \in 1 .. Len(mw) /\ mw[k] = w[n] /\ 4 \in 1 .. Len(mw)
      <3>1. k \in 1 .. Len(mw) /\ 10 + k = n
        BY <1>1, <1>2, <1>6, <1>12
      <3>2. 4 \in 1 .. Len(mw)
        BY <1>1, <2>3 DEF Datagrammed, mw
      <3> HIDE DEF k, mw
      <3> QED
        BY <2>4, <3>1, <3>2
    <2>7. m.words[4] # 0
      <3>1. SubSeq(u, 11, Len(u))[4] = u[10 + 4]
        BY <2>4, <2>6
      <3>2. 10 + 4 = 14
        OBVIOUS
      <3>3. m.words = SubSeq(u, 11, Len(u))
        BY <2>2
      <3> HIDE DEF m
      <3> QED
        BY <1>13, <3>1, <3>2, <3>3
    <2> HIDE DEF m, k
    <2>8. mw[k] # x /\ ~Opposite(mw[k], x)
      BY <1>4, <2>6
    <2>9. U!data2header(m, src, dst) = {}
      <3>1. src \in Nat /\ dst \in Nat /\ p.msg \in Message
        BY <1>1
      <3>2. Datagrammed(p.msg, src, dst) /\ m \in Message /\ m.zeros = p.msg.zeros
        BY <2>3, <2>5
      <3>3. k \in 1 .. Len(p.msg.words) /\ p.msg.words[k] # x
            /\ ~Opposite(p.msg.words[k], x) /\ m.words = [p.msg.words EXCEPT ![k] = x]
        BY <2>5, <2>6, <2>8 DEF mw
      <3> QED
        <4>1. Change(p.msg, m, k, x)
          BY <1>3, <3>2, <3>3 DEF Change
        <4> QED
          BY <2>7, <3>1, <3>2, <4>1, DatagramChange
    <2> QED
      BY <2>2, <2>9 DEF Datagram, m
  <1> QED
    BY <1>12, <1>13 DEF u, n
-----------------------------------------------------------------------------
(***************************************************************************)
(* The properties.                                                         *)
(***************************************************************************)

\* The state has its type: the identifier and every word of a packet are 16
\* bits, and the device holds one packet at most.
THEOREM TypeCorrect == Spec => []TypeOK
  <1>1. IInv => TypeOK
    <2> SUFFICES ASSUME IInv PROVE TypeOK
      OBVIOUS
    <2>1. Tabled /\ Sound(id, wire) /\ Distinct
      BY DEF IInv
    <2>2. \A dev \in Device : \A n \in DOMAIN ifaces[dev] : ifaces[dev][n] \in Iface
      BY <2>1 DEF Tabled
    <2>3. \A n \in DOMAIN routes : routes[n] \in Route
      BY <2>1 DEF Tabled
    <2>4. ToSet(protos) \subseteq ProtoType
      BY <2>1 DEF Distinct, ToSet
    <2>5. id \in Word /\ \A p, q \in wire : p = q
      BY <2>1 DEF Sound
    <2>6. ASSUME NEW p \in wire PROVE \A n \in DOMAIN p.data.words : p.data.words[n] \in Word
      <3>1. Built(p)
        BY <2>1 DEF Sound
      <3>2. p.data.words \in Seq(Word)
        BY <3>1, BuiltParts
      <3> QED
        BY <3>2
    <2> QED
      BY <2>2, <2>3, <2>4, <2>5, <2>6, Zenon DEF TypeOK
  <1> QED
    BY <1>1, IpInductive, PTL

\* What TxHandler lets out is what RxHandler at the other end takes, with the
\* length, the payload and the ports it was sent with, unless the length of
\* the packet is less than 20 modulo 256.
THEOREM PacketsRoundTrip == Spec => []RoundTrip
  <1>1. IInv => RoundTrip
    <2> SUFFICES ASSUME IInv, NEW p \in wire, p.damage = <<>>
                 PROVE  IF Size(p.data) % 256 < HeaderSizeMin THEN data2header(p.data) = {}
                        ELSE \E hdr \in data2header(p.data) :
                                /\ hdr.payload = p.msg /\ hdr.tol = Size(p.data)
                                /\ hdr.proto = U!UDP =>
                                      \E d \in Datagram(hdr) :
                                         <<d.src, d.dst>> = SubSeq(p.msg.words, 1, 2)
      BY Zenon DEF RoundTrip
    <2>1. Built(p)
      BY DEF IInv, Sound
    <2> DEFINE h == Content(p.data)
    <2>2. /\ data2header(p.data) =
                 IF Size(p.data) % 256 < HeaderSizeMin THEN {} ELSE {h}
          /\ h.payload = p.msg /\ h.tol = Size(p.data)
          /\ h.proto = U!UDP =>
                \E d \in Datagram(h) : <<d.src, d.dst>> = SubSeq(p.msg.words, 1, 2)
      BY <2>1, SentIsRead
    <2> HIDE DEF h
    <2>3. CASE Size(p.data) % 256 < HeaderSizeMin
      BY <2>2, <2>3
    <2>4. CASE ~(Size(p.data) % 256 < HeaderSizeMin)
      <3>1. h \in data2header(p.data)
        BY <2>2, <2>4
      <3> QED
        BY <2>2, <2>4, <3>1, Zenon
    <2> QED
      BY <2>3, <2>4
  <1> QED
    BY <1>1, IpInductive, PTL

\* The sum of a header that header2data wrote is 0 in one's complement.
THEOREM HeadersSumToZero == Spec => []SumIsOnesComplement
  <1>1. IInv => SumIsOnesComplement
    <2> SUFFICES ASSUME IInv, NEW p \in wire, p.damage = <<>>
                 PROVE  Sum(SubSeq(p.data.words, 1, 10), 0) % 65535 = 0
      BY DEF SumIsOnesComplement
    <2>1. Built(p) /\ Original(p) = p.data.words
      BY DEF IInv, Sound, Original
    <2>2. IsZero(Sum(SubSeq(p.data.words, 1, 10), 0))
      BY <2>1, BuiltParts
    <2> QED
      BY <2>2 DEF IsZero
  <1> QED
    BY <1>1, IpInductive, PTL

\* One changed word is seen, by IP in its header and by UDP behind it.
THEOREM DamageIsAlwaysSeen == Spec => []DamageIsSeen
  <1>1. IInv => DamageIsSeen
    <2> SUFFICES ASSUME IInv, NEW p \in wire, p.damage # <<>>, p.damage[1] # 1,
                        ~Opposite(p.damage[2], p.data.words[p.damage[1]]),
                        NEW hdr \in data2header(p.data)
                 PROVE  /\ p.damage[1] > 10
                        /\ (hdr.proto = U!UDP /\ p.data.words[14] # 0) => Datagram(hdr) = {}
      BY Zenon DEF DamageIsSeen
    <2>1. Built(p) /\ Damaged(p)
      BY DEF IInv, Sound
    <2> QED
      BY <2>1, DamagedIsRefused
  <1> QED
    BY <1>1, IpInductive, PTL

\* No packet reaches two handlers, or one twice.
THEOREM PacketsAreHandledOnce == Spec => []HandledOnce
  <1>1. IInv => HandledOnce
    BY DEF IInv
  <1> QED
    BY <1>1, IpInductive, PTL
=============================================================================
