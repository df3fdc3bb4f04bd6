--------------------------- MODULE SequenceLemmas ---------------------------
(***************************************************************************)
(* Induction over the naturals and what the recursive operators on         *)
(* sequences compute.  The library states induction for a predicate; here  *)
(* it is stated for a set, the numbers for which something holds, so that  *)
(* it can be cited.  FlattenSeq and FoldLeft are recursive functions,      *)
(* defined by CHOOSE: for each there is a function that meets the equation *)
(* (shown by induction), so that the one that is chosen meets it too.      *)
(***************************************************************************)
EXTENDS Integers, Sequences, FiniteSets, SequencesExt, Functions, Selection,
        WellFoundedInduction, SequenceTheorems, FiniteSetTheorems, TLAPS

(***************************************************************************)
(* Induction.                                                              *)
(***************************************************************************)
Less == {p \in Nat \X Nat : p[1] < p[2]}

(* A set of naturals that is not empty has a least element.                *)
LEMMA LeastNatural ==
  ASSUME NEW T, T \subseteq Nat, T # {}
  PROVE  \E x \in T : \A y \in T : x <= y
PROOF
  <1>1. IsWellFoundedOn(Less, Nat)
    BY NatLessThanWellFounded DEF OpToRel, Less
  <1>2. PICK x \in T : \A y \in T : ~ (<<y, x>> \in Less)
    BY <1>1, WFMin
  <1>3. \A y \in T : <<y, x>> \in Nat \X Nat /\ <<y, x>>[1] = y /\ <<y, x>>[2] = x
    OBVIOUS
  <1>4. \A y \in T : y < x => <<y, x>> \in Less
    BY <1>3 DEF Less
  <1>5. ASSUME NEW y \in T PROVE x <= y
    <2>1. ~ (y < x)
      BY <1>2, <1>4, Zenon
    <2>2. x \in Nat /\ y \in Nat
      OBVIOUS
    <2>3. QED BY <2>1, <2>2
  <1>6. QED BY <1>5

(* What holds for 0, and for n + 1 if for n, holds for all up to a bound.  *)
LEMMA Induction ==
  ASSUME NEW N \in Nat, NEW S, 0 \in S,
         \A n \in Nat : n < N /\ n \in S => n + 1 \in S
  PROVE  \A n \in 0..N : n \in S
PROOF
  <1> DEFINE T == {n \in 0..N : n \notin S}
  <1>1. SUFFICES ASSUME T # {} PROVE FALSE
    OBVIOUS
  <1>2. T \subseteq Nat
    OBVIOUS
  <1>3. PICK x \in T : \A y \in T : x <= y
    <2> HIDE DEF T
    <2>1. QED BY <1>1, <1>2, LeastNatural
  <1>4. x - 1 \in Nat /\ x - 1 < N /\ x - 1 \notin T
    BY <1>3
  <1>5. x - 1 \in S
    BY <1>4
  <1>6. QED BY <1>3, <1>4, <1>5

(* A set of numbers up to a bound that is not empty has a greatest element, *)
(* which is the Max of the library.                                        *)
LEMMA MaxUpTo ==
  ASSUME NEW n \in Nat, NEW t \in SUBSET (1..n), t # {}
  PROVE  Max(t) \in t /\ \A y \in t : y <= Max(t)
PROOF
  <1> DEFINE T == {u \in Nat : \A y \in t : y <= u}
  <1>1. n \in T /\ T \subseteq Nat
    OBVIOUS
  <1>2. PICK x \in T : \A u \in T : x <= u
    <2> HIDE DEF T
    <2>1. QED BY <1>1, LeastNatural
  <1>3. x \in t
    <2>1. SUFFICES ASSUME x \notin t PROVE FALSE
      OBVIOUS
    <2>2. PICK y \in t : TRUE
      OBVIOUS
    <2>3. x >= y /\ y >= 1
      BY <1>2
    <2>4. x - 1 \in T
      BY <1>2, <2>1, <2>3
    <2>5. QED BY <1>2, <2>4
  <1>4. \A y \in t : x >= y
    BY <1>2
  <1>5. QED BY <1>3, <1>4 DEF Max

LEMMA MinUpTo ==
  ASSUME NEW n \in Nat, NEW t \in SUBSET (1..n), t # {}
  PROVE  Min(t) \in t /\ \A y \in t : Min(t) <= y
PROOF
  <1>1. t \subseteq Nat
    OBVIOUS
  <1>2. PICK x \in t : \A y \in t : x <= y
    BY <1>1, LeastNatural
  <1>3. QED BY <1>2 DEF Min

(***************************************************************************)
(* Recursion up to a bound.                                                *)
(***************************************************************************)
IsTable(f, n, base, step) == f[0] = base /\ \A i \in 1..n : f[i] = step[i][f[i - 1]]

(* A step from one value to the next has a table of its values.            *)
LEMMA Table ==
  ASSUME NEW n \in Nat, NEW V, NEW base \in V, NEW step \in [1..n -> [V -> V]]
  PROVE  \E f \in [0..n -> V] : IsTable(f, n, base, step)
PROOF
  <1> DEFINE Is(k, f) == f[0] = base /\ \A i \in 1..k : f[i] = step[i][f[i - 1]]
             Has(k) == \E f \in [0..k -> V] : Is(k, f)
             S == {k \in 0..n : Has(k)}
  <1>1. Has(0)
    <2>1. [i \in 0..0 |-> base] \in [0..0 -> V] /\ Is(0, [i \in 0..0 |-> base])
      OBVIOUS
    <2> HIDE DEF Is
    <2>2. QED BY <2>1
  <1>2. ASSUME NEW k \in Nat, k < n, Has(k) PROVE Has(k + 1)
    <2>1. PICK f \in [0..k -> V] : Is(k, f)
      BY <1>2
    <2> DEFINE last == step[k + 1][f[k]]
               g == [i \in 0..(k + 1) |-> IF i <= k THEN f[i] ELSE last]
    <2>2. f[k] \in V /\ k + 1 \in 1..n
      BY <1>2
    <2>3. last \in V
      BY <2>2
    <2>4. ASSUME NEW i \in 1..(k + 1) PROVE g[i] = step[i][g[i - 1]]
      <3>1. CASE i = k + 1
        <4>1. g[i] = last /\ g[i - 1] = f[k]
          BY <3>1
        <4>2. QED BY <4>1, <3>1
      <3>2. CASE i \in 1..k
        <4> HIDE DEF last
        <4>1. g[i] = f[i] /\ g[i - 1] = f[i - 1]
          BY <3>2
        <4>2. QED BY <4>1, <3>2, <2>1
      <3>3. QED BY <3>1, <3>2
    <2>5. g \in [0..(k + 1) -> V] /\ g[0] = base
      <3> HIDE DEF last
      <3>1. QED BY <2>1, <2>3
    <2> HIDE DEF g, last
    <2>6. QED BY <2>4, <2>5
  <1> HIDE DEF Has
  <1>3. \A k \in 0..n : k \in S
    <2>1. 0 \in S /\ \A k \in Nat : k < n /\ k \in S => k + 1 \in S
      BY <1>1, <1>2
    <2> HIDE DEF S
    <2>2. QED BY <2>1, Induction
  <1>4. Has(n)
    BY <1>3
  <1>5. QED BY <1>4 DEF Has, IsTable

(* So has a step over the sets of numbers that takes away the greatest: a  *)
(* fold from the left is one.                                              *)
IsSetTable(g, n, base, step) ==
  \A t \in SUBSET (1..n) :
    g[t] = IF t = {} THEN base ELSE step[Max(t)][g[t \ {Max(t)}]]

LEMMA SetTable ==
  ASSUME NEW n \in Nat, NEW V, NEW base \in V, NEW step \in [1..n -> [V -> V]]
  PROVE  \E g \in [SUBSET (1..n) -> V] : IsSetTable(g, n, base, step)
PROOF
  <1> DEFINE Is(k, g) == \A t \in SUBSET (1..k) :
                           g[t] = IF t = {} THEN base ELSE step[Max(t)][g[t \ {Max(t)}]]
             Has(k) == \E g \in [SUBSET (1..k) -> V] : Is(k, g)
             S == {k \in 0..n : Has(k)}
  <1>1. Has(0)
    <2>1. \A t \in SUBSET (1..0) : t = {}
      OBVIOUS
    <2>2. [t \in SUBSET (1..0) |-> base] \in [SUBSET (1..0) -> V]
          /\ Is(0, [t \in SUBSET (1..0) |-> base])
      BY <2>1
    <2> HIDE DEF Is
    <2>3. QED BY <2>2
  <1>2. ASSUME NEW k \in Nat, k < n, Has(k) PROVE Has(k + 1)
    <2>1. PICK g \in [SUBSET (1..k) -> V] : Is(k, g)
      BY <1>2
    <2> DEFINE over(t) == step[k + 1][g[t \ {k + 1}]]
               h == [t \in SUBSET (1..(k + 1)) |-> IF k + 1 \in t THEN over(t) ELSE g[t]]
    <2>2. \A t \in SUBSET (1..(k + 1)) : t \ {k + 1} \in SUBSET (1..k)
      OBVIOUS
    <2>3. \A t \in SUBSET (1..(k + 1)) : k + 1 \notin t => t \in SUBSET (1..k)
      OBVIOUS
    <2>4. k + 1 \in 1..n
      BY SMTT(40), <1>2
    <2>5. \A t \in SUBSET (1..(k + 1)) : over(t) \in V
      BY SMTT(40), <2>2, <2>4
    <2>6. ASSUME NEW t \in SUBSET (1..(k + 1))
          PROVE  h[t] = IF t = {} THEN base ELSE step[Max(t)][h[t \ {Max(t)}]]
      <3>1. CASE k + 1 \in t
        <4>1. Max(t) = k + 1
          <5>1. k + 1 \in Nat /\ t # {}
            BY <3>1
          <5>2. Max(t) \in t /\ \A y \in t : y <= Max(t)
            BY <5>1, MaxUpTo
          <5>3. Max(t) \in 1..(k + 1) /\ k + 1 <= Max(t)
            BY <5>2, <3>1
          <5>4. QED BY <5>3
        <4>2. h[t \ {k + 1}] = g[t \ {k + 1}] /\ t # {}
          BY <2>2, <3>1
        <4>3. h[t] = over(t)
          BY <3>1
        <4>4. QED BY <4>1, <4>2, <4>3
      <3>2. CASE k + 1 \notin t /\ t # {}
        <4>1. t \in SUBSET (1..k) /\ Max(t) \in t
          BY <2>3, <3>2, MaxUpTo
        <4>2. t \ {Max(t)} \in SUBSET (1..k) /\ k + 1 \notin t \ {Max(t)}
          BY <4>1, <3>2
        <4>3. h[t] = g[t] /\ h[t \ {Max(t)}] = g[t \ {Max(t)}]
          BY <3>2, <4>1, <4>2
        <4>4. g[t] = step[Max(t)][g[t \ {Max(t)}]]
          BY <2>1, <3>2, <4>1
        <4>5. QED BY <3>2, <4>3, <4>4
      <3>3. CASE t = {}
        <4>1. h[{}] = g[{}] /\ {} \in SUBSET (1..k)
          OBVIOUS
        <4>2. g[{}] = base
          BY <2>1, <4>1
        <4>3. QED BY <3>3, <4>1, <4>2
      <3>4. QED BY <3>1, <3>2, <3>3
    <2>7. h \in [SUBSET (1..(k + 1)) -> V]
      <3> HIDE DEF over
      <3>1. QED BY <2>3, <2>5
    <2>8. Is(k + 1, h)
      BY <2>6
    <2> HIDE DEF h, Is
    <2>9. QED BY <2>7, <2>8
  <1> HIDE DEF Has
  <1>3. \A k \in 0..n : k \in S
    <2>1. 0 \in S /\ \A k \in Nat : k < n /\ k \in S => k + 1 \in S
      BY <1>1, <1>2
    <2> HIDE DEF S
    <2>2. QED BY <2>1, Induction
  <1>4. Has(n)
    BY <1>3
  <1>5. QED BY <1>4 DEF Has, IsSetTable

(* A fold takes the first places one after the other, so that it is the   *)
(* table of its steps.                                                     *)
IsFold(fold, n, V, base, step) ==
  /\ fold[{}] = base
  /\ \A k \in 1..n : fold[1..(k - 1)] \in V => fold[1..k] = step[k][fold[1..(k - 1)]]

LEMMA FoldTable ==
  ASSUME NEW n \in Nat, NEW V, NEW base \in V, NEW step \in [1..n -> [V -> V]], NEW fold,
         IsFold(fold, n, V, base, step)
  PROVE  \E f \in [0..n -> V] : IsTable(f, n, base, step) /\ fold[1..n] = f[n]
PROOF
  <1>0. /\ fold[{}] = base
        /\ \A k \in 1..n : fold[1..(k - 1)] \in V => fold[1..k] = step[k][fold[1..(k - 1)]]
    BY DEF IsFold
  <1>1. PICK f \in [0..n -> V] : IsTable(f, n, base, step)
    BY Table
  <1> DEFINE Same(k) == fold[1..k] = f[k]
             N == {k \in 0..n : Same(k)}
  <1>2. Same(0)
    <2>1. 1..0 = {}
      OBVIOUS
    <2>2. QED BY <1>0, <1>1, <2>1 DEF IsTable
  <1>3. ASSUME NEW k \in Nat, k < n, Same(k) PROVE Same(k + 1)
    <2> DEFINE i == k + 1
    <2>1. i \in 1..n /\ i - 1 = k /\ f[k] \in V
      BY <1>3
    <2> HIDE DEF i
    <2>2. fold[1..i] = step[i][fold[1..k]]
      BY <1>0, <1>3, <2>1
    <2>3. f[i] = step[i][f[k]]
      BY <1>1, <2>1 DEF IsTable
    <2>4. fold[1..i] = f[i]
      BY <1>3, <2>2, <2>3
    <2>5. QED BY <2>4 DEF i
  <1> HIDE DEF Same
  <1>4. \A k \in 0..n : k \in N
    <2>1. 0 \in N /\ \A k \in Nat : k < n /\ k \in N => k + 1 \in N
      BY <1>2, <1>3
    <2> HIDE DEF N
    <2>2. QED BY <2>1, Induction
  <1>5. Same(n)
    BY <1>4
  <1>6. QED BY <1>1, <1>5 DEF Same

LEMMA FirstPlaces ==
  ASSUME NEW n \in Nat, NEW k \in 1..n
  PROVE  /\ 1..k \in SUBSET (1..n) /\ 1..k # {}
         /\ Max(1..k) = k /\ (1..k) \ {k} = 1..(k - 1)
PROOF
  <1>1. k \in Nat /\ k \in 1..k /\ k <= n
    OBVIOUS
  <1>2. 1..k \in SUBSET (1..k) /\ 1..k # {}
    BY <1>1
  <1>3. Max(1..k) \in 1..k /\ \A y \in 1..k : y <= Max(1..k)
    BY <1>1, <1>2, MaxUpTo
  <1>4. Max(1..k) = k
    BY <1>1, <1>3
  <1>5. \A i \in 1..k : i \in 1..n
    BY <1>1
  <1>6. (1..k) \ {k} = 1..(k - 1)
    BY <1>1
  <1>7. QED BY <1>2, <1>4, <1>5, <1>6

(***************************************************************************)
(* Sequences, one element at a time.                                       *)
(***************************************************************************)
LEMMA AppendedIs ==
  ASSUME NEW S, NEW s \in Seq(S), NEW e \in S
  PROVE  /\ Append(s, e) \in Seq(S) /\ Len(Append(s, e)) = Len(s) + 1
         /\ DOMAIN Append(s, e) = 1..(Len(s) + 1) /\ DOMAIN s = 1..Len(s)
         /\ \A i \in 1..Len(s) : Append(s, e)[i] = s[i]
         /\ Append(s, e)[Len(s) + 1] = e
         /\ Append(s, e) = s \o <<e>>
PROOF OBVIOUS

LEMMA SplitLast ==
  ASSUME NEW S, NEW s \in Seq(S), s # <<>>
  PROVE  /\ SubSeq(s, 1, Len(s) - 1) \in Seq(S) /\ s[Len(s)] \in S /\ Len(s) \in Nat \ {0}
         /\ Len(SubSeq(s, 1, Len(s) - 1)) = Len(s) - 1
         /\ s = Append(SubSeq(s, 1, Len(s) - 1), s[Len(s)])
PROOF
  <1>1. Len(s) \in Nat /\ Len(s) # 0
    OBVIOUS
  <1>2. SubSeq(s, 1, Len(s) - 1) \in Seq(S) /\ Len(SubSeq(s, 1, Len(s) - 1)) = Len(s) - 1
        /\ \A i \in 1..(Len(s) - 1) : SubSeq(s, 1, Len(s) - 1)[i] = s[i]
    <2> DEFINE n == Len(s) - 1
    <2>1. n \in Nat /\ \A i \in 1..n : s[i] \in S
      BY <1>1
    <2> HIDE DEF n
    <2>2. SubSeq(s, 1, n) \in Seq(S) /\ Len(SubSeq(s, 1, n)) = n
          /\ \A i \in 1..n : SubSeq(s, 1, n)[i] = s[i]
      BY <2>1
    <2>3. QED BY <2>2 DEF n
  <1>3. s[Len(s)] \in S
    BY <1>1
  <1> DEFINE t == Append(SubSeq(s, 1, Len(s) - 1), s[Len(s)])
  <1>4. t \in Seq(S) /\ Len(t) = Len(s) /\ \A i \in 1..Len(s) : t[i] = s[i]
    BY <1>1, <1>2, <1>3
  <1> HIDE DEF t
  <1>5. s = t
    BY <1>4, SeqEqual
  <1>6. QED BY <1>1, <1>2, <1>3, <1>5 DEF t

(* What holds for the empty sequence, and for s with one element more if   *)
(* for s, holds for all sequences.                                         *)
LEMMA SeqInduction ==
  ASSUME NEW S, NEW T, <<>> \in T,
         \A s \in Seq(S), e \in S : s \in T => Append(s, e) \in T
  PROVE  \A s \in Seq(S) : s \in T
PROOF
  <1> SUFFICES ASSUME NEW s \in Seq(S) PROVE s \in T
    OBVIOUS
  <1> DEFINE Through(k) == SubSeq(s, 1, k) \in T
             N == {k \in 0..Len(s) : Through(k)}
  <1>1. Through(0)
    <2>1. SubSeq(s, 1, 0) = <<>>
      BY SubSeqEmpty
    <2>2. QED BY <2>1
  <1>2. ASSUME NEW k \in Nat, k < Len(s), Through(k) PROVE Through(k + 1)
    <2> DEFINE p == SubSeq(s, 1, k)
               q == SubSeq(s, 1, k + 1)
    <2>1. k \in 0..Len(s) /\ k + 1 \in 1..Len(s) /\ Len(s) \in Nat
      BY <1>2
    <2>2. p \in Seq(S) /\ Len(p) = k /\ (\A i \in 1..k : p[i] = s[i]) /\ s[k + 1] \in S
      BY <2>1
    <2>3. q \in Seq(S) /\ Len(q) = k + 1 /\ \A i \in 1..(k + 1) : q[i] = s[i]
      BY <2>1
    <2> HIDE DEF p, q
    <2>4. q = Append(p, s[k + 1])
      <3>1. Append(p, s[k + 1]) \in Seq(S) /\ Len(Append(p, s[k + 1])) = k + 1
            /\ \A i \in 1..(k + 1) : Append(p, s[k + 1])[i] = s[i]
        BY <2>1, <2>2
      <3>2. QED BY <2>3, <3>1, SeqEqual
    <2>5. p \in T
      BY <1>2 DEF p
    <2>6. QED BY <2>2, <2>4, <2>5 DEF q
  <1> HIDE DEF Through
  <1>3. \A k \in 0..Len(s) : k \in N
    <2>1. 0 \in N /\ \A k \in Nat : k < Len(s) /\ k \in N => k + 1 \in N
      BY <1>1, <1>2
    <2>2. Len(s) \in Nat
      OBVIOUS
    <2> HIDE DEF N
    <2>3. QED BY <2>1, <2>2, Induction
  <1>4. Through(Len(s)) /\ SubSeq(s, 1, Len(s)) = s
    <2>1. Len(s) \in 0..Len(s)
      OBVIOUS
    <2>2. QED BY <1>3, <2>1
  <1>5. QED BY <1>4 DEF Through

(***************************************************************************)
(* FlattenSeq.                                                             *)
(***************************************************************************)
(* In terms of a set of sequences that is closed under concatenation.      *)
LEMMA FlattenTableIn ==
  ASSUME NEW V, <<>> \in V, \A u, v \in V : u \o v \in V, \A v \in V : <<>> \o v = v,
         NEW s \in Seq(V)
  PROVE  \E f \in [0..Len(s) -> V] :
           /\ f[0] = <<>>
           /\ \A i \in 1..Len(s) : f[i] = f[i - 1] \o s[i]
           /\ FlattenSeq(s) = f[Len(s)]
PROOF
  <1>0. Len(s) \in Nat /\ \A i \in 1..Len(s) : s[i] \in V
    OBVIOUS
  <1> DEFINE step == [i \in 1..Len(s) |-> [v \in V |-> v \o s[i]]]
             Is(g) == g = [i \in 1..Len(s) |-> IF i = 1 THEN s[i] ELSE g[i - 1] \o s[i]]
             flatten == CHOOSE g : Is(g)
  <1>1. step \in [1..Len(s) -> [V -> V]]
    BY <1>0
  <1>2. PICK f \in [0..Len(s) -> V] :
               f[0] = <<>> /\ \A i \in 1..Len(s) : f[i] = step[i][f[i - 1]]
    <2> DEFINE base == <<>>
    <2>0. base \in V
      OBVIOUS
    <2> HIDE DEF step, base
    <2>1. \E f \in [0..Len(s) -> V] : IsTable(f, Len(s), base, step)
      BY <1>0, <1>1, <2>0, Table
    <2>2. QED BY <2>1 DEF base, IsTable
  <1>3. \A i \in 1..Len(s) : f[i] = f[i - 1] \o s[i]
    <2>1. \A i \in 1..Len(s) : i - 1 \in 0..Len(s)
      BY <1>0
    <2>2. QED BY <1>2, <2>1
  <1> HIDE DEF step
  <1>4. Is(flatten)
    <2> DEFINE g == [i \in 1..Len(s) |-> f[i]]
    <2>1. ASSUME NEW i \in 1..Len(s)
          PROVE  g[i] = IF i = 1 THEN s[i] ELSE g[i - 1] \o s[i]
      <3>1. CASE i = 1
        <4>1. f[i] = f[i - 1] \o s[i] /\ s[i] \in V /\ i - 1 = 0
          BY SMTT(40), <1>0, <1>3, <3>1
        <4>2. f[i] = <<>> \o s[i]
          BY <1>2, <4>1
        <4>3. QED BY <3>1, <4>1, <4>2
      <3>2. CASE i # 1
        <4>1. i - 1 \in 1..Len(s)
          BY <1>0, <3>2
        <4>2. QED BY <1>3, <3>2, <4>1
      <3>3. QED BY <3>1, <3>2
    <2>2. Is(g)
      BY <2>1
    <2> HIDE DEF g, Is
    <2>3. QED BY <2>2
  <1>5. CASE Len(s) = 0
    <2>1. s = <<>>
      BY <1>5
    <2>2. FlattenSeq(s) = s
      BY <1>5 DEF FlattenSeq
    <2>3. QED BY <1>2, <1>3, <1>5, <2>1, <2>2
  <1>6. CASE Len(s) # 0
    <2>1. FlattenSeq(s) = flatten[Len(s)]
      BY SMTT(40), <1>6 DEF FlattenSeq
    <2>2. \A i \in 1..Len(s) : flatten[i] = IF i = 1 THEN s[i] ELSE flatten[i - 1] \o s[i]
      <3> DEFINE F(i) == IF i = 1 THEN s[i] ELSE flatten[i - 1] \o s[i]
      <3>1. flatten = [i \in 1..Len(s) |-> F(i)]
        BY <1>4
      <3> HIDE DEF flatten, F
      <3>2. \A i \in 1..Len(s) : flatten[i] = F(i)
        BY <3>1
      <3>3. QED BY SMTT(40), <3>2 DEF F
    <2> HIDE DEF flatten
    <2> DEFINE Same(k) == k > 0 => flatten[k] = f[k]
               N == {k \in 0..Len(s) : Same(k)}
    <2>3. Same(0)
      OBVIOUS
    <2>4. ASSUME NEW k \in Nat, k < Len(s), Same(k) PROVE Same(k + 1)
      <3> DEFINE i == k + 1
      <3>1. i \in 1..Len(s) /\ i - 1 = k /\ k + 1 = i
        BY <1>0, <2>4
      <3> HIDE DEF i
      <3>2. f[i] = f[k] \o s[i] /\ s[i] \in V
        BY <1>0, <1>3, <3>1
      <3>3. CASE k = 0
        <4>1. f[i] = s[i]
          BY <1>2, <3>2, <3>3
        <4>2. flatten[i] = s[i]
          BY <2>2, <3>1, <3>3
        <4>3. QED BY <3>1, <4>1, <4>2
      <3>4. CASE k > 0
        <4>1. flatten[k] = f[k] /\ i # 1
          BY <2>4, <3>4, <3>1
        <4>2. flatten[i] = f[k] \o s[i]
          BY <2>2, <3>1, <4>1
        <4>3. QED BY <3>1, <3>2, <4>2
      <3>5. QED BY <3>3, <3>4
    <2> HIDE DEF Same
    <2>5. \A k \in 0..Len(s) : k \in N
      <3>1. 0 \in N /\ \A k \in Nat : k < Len(s) /\ k \in N => k + 1 \in N
        BY <1>0, <2>3, <2>4
      <3> HIDE DEF N
      <3>2. QED BY <1>0, <3>1, Induction
    <2>6. flatten[Len(s)] = f[Len(s)]
      <3>1. Len(s) \in 0..Len(s) /\ Len(s) > 0
        BY <1>0, <1>6
      <3>2. QED BY <2>5, <3>1 DEF Same
    <2>7. QED BY <1>2, <1>3, <2>1, <2>6
  <1>7. QED BY <1>5, <1>6

LEMMA FlattenEmpty == FlattenSeq(<<>>) = <<>>
PROOF BY DEF FlattenSeq

(* One more sequence goes to the end.                                      *)
LEMMA FlattenAppendIn ==
  ASSUME NEW V, <<>> \in V, \A u, v \in V : u \o v \in V, \A v \in V : <<>> \o v = v,
         NEW s \in Seq(V), NEW t \in V
  PROVE  /\ FlattenSeq(s) \in V
         /\ FlattenSeq(Append(s, t)) = FlattenSeq(s) \o t
PROOF
  <1> DEFINE a == Append(s, t)
  <1>0. /\ a \in Seq(V) /\ Len(a) = Len(s) + 1 /\ Len(s) \in Nat
        /\ (\A i \in 1..Len(s) : a[i] = s[i]) /\ a[Len(s) + 1] = t
    OBVIOUS
  <1> HIDE DEF a
  <1>1. PICK f \in [0..Len(s) -> V] :
               /\ f[0] = <<>>
               /\ \A i \in 1..Len(s) : f[i] = f[i - 1] \o s[i]
               /\ FlattenSeq(s) = f[Len(s)]
    BY FlattenTableIn
  <1>2. PICK g \in [0..Len(a) -> V] :
               /\ g[0] = <<>>
               /\ \A i \in 1..Len(a) : g[i] = g[i - 1] \o a[i]
               /\ FlattenSeq(a) = g[Len(a)]
    BY <1>0, FlattenTableIn
  <1> DEFINE Same(k) == f[k] = g[k]
             N == {k \in 0..Len(s) : Same(k)}
  <1>3. \A k \in 0..Len(s) : k \in N
    <2>1. Same(0)
      BY <1>1, <1>2
    <2>2. ASSUME NEW k \in Nat, k < Len(s), Same(k) PROVE Same(k + 1)
      <3> DEFINE i == k + 1
      <3>1. i \in 1..Len(s) /\ i \in 1..Len(a) /\ i - 1 = k /\ k + 1 = i /\ f[k] = g[k]
        BY <1>0, <2>2
      <3> HIDE DEF i
      <3>2. f[i] = f[k] \o s[i] /\ g[i] = g[k] \o a[i]
        BY <1>1, <1>2, <3>1
      <3>3. QED BY <1>0, <3>1, <3>2
    <2> HIDE DEF Same
    <2>3. 0 \in N /\ \A k \in Nat : k < Len(s) /\ k \in N => k + 1 \in N
      BY <1>0, <2>1, <2>2
    <2> HIDE DEF N
    <2>4. QED BY <1>0, <2>3, Induction
  <1>4. g[Len(s)] = f[Len(s)] /\ f[Len(s)] \in V
    <2>1. Len(s) \in 0..Len(s)
      BY <1>0
    <2>2. QED BY <1>3, <2>1
  <1>5. g[Len(a)] = g[Len(s)] \o t
    <2>1. Len(a) \in 1..Len(a) /\ Len(a) - 1 = Len(s) /\ a[Len(a)] = t
      BY <1>0
    <2>2. QED BY <1>2, <2>1
  <1>6. QED BY <1>0, <1>1, <1>2, <1>4, <1>5 DEF a

LEMMA FlattenAppend ==
  ASSUME NEW S, NEW s \in Seq(Seq(S)), NEW t \in Seq(S)
  PROVE  /\ FlattenSeq(s) \in Seq(S)
         /\ FlattenSeq(Append(s, t)) = FlattenSeq(s) \o t
PROOF
  <1> DEFINE V == Seq(S)
  <1>1. /\ <<>> \in V
        /\ \A u, v \in V : u \o v \in V
        /\ \A v \in V : <<>> \o v = v
    OBVIOUS
  <1>2. s \in Seq(V) /\ t \in V
    OBVIOUS
  <1> HIDE DEF V
  <1>3. FlattenSeq(s) \in V /\ FlattenSeq(Append(s, t)) = FlattenSeq(s) \o t
    BY <1>1, <1>2, FlattenAppendIn
  <1>4. QED BY <1>3 DEF V

LEMMA FlattenConcatIn ==
  ASSUME NEW V, <<>> \in V, \A u, v \in V : u \o v \in V, \A v \in V : <<>> \o v = v,
         \A v \in V : v \o <<>> = v,
         \A u, v, w \in V : (u \o v) \o w = u \o (v \o w),
         NEW s \in Seq(V), NEW t \in Seq(V)
  PROVE  FlattenSeq(s \o t) = FlattenSeq(s) \o FlattenSeq(t)
PROOF
  <1> DEFINE Joins(u) == FlattenSeq(s \o u) = FlattenSeq(s) \o FlattenSeq(u)
             T == {u \in Seq(V) : Joins(u)}
  <1>1. Joins(<<>>)
    <2>1. s \o <<>> = s /\ FlattenSeq(s) \in V
      BY FlattenAppendIn
    <2>2. QED BY <2>1, FlattenEmpty
  <1>2. ASSUME NEW u \in Seq(V), NEW e \in V, Joins(u) PROVE Joins(Append(u, e))
    <2>1. s \o Append(u, e) = Append(s \o u, e) /\ s \o u \in Seq(V)
      BY SMTT(40)
    <2>2. FlattenSeq(Append(s \o u, e)) = FlattenSeq(s \o u) \o e
      BY ZenonT(60), <2>1, FlattenAppendIn
    <2>3. /\ FlattenSeq(Append(u, e)) = FlattenSeq(u) \o e
          /\ FlattenSeq(u) \in V /\ FlattenSeq(s) \in V
      BY ZenonT(60), FlattenAppendIn
    <2>4. (FlattenSeq(s) \o FlattenSeq(u)) \o e = FlattenSeq(s) \o (FlattenSeq(u) \o e)
      BY SMTT(40), <2>3
    <2>5. QED BY <1>2, <2>1, <2>2, <2>3, <2>4
  <1> HIDE DEF Joins
  <1>3. <<>> \in T /\ \A u \in Seq(V), e \in V : u \in T => Append(u, e) \in T
    <2>1. \A u \in Seq(V), e \in V : Append(u, e) \in Seq(V)
      OBVIOUS
    <2>2. QED BY <1>1, <1>2, <2>1
  <1>4. \A u \in Seq(V) : u \in T
    <2> HIDE DEF T
    <2>1. QED BY <1>3, SeqInduction
  <1>5. QED BY <1>4 DEF Joins

LEMMA FlattenConcat ==
  ASSUME NEW S, NEW s \in Seq(Seq(S)), NEW t \in Seq(Seq(S))
  PROVE  FlattenSeq(s \o t) = FlattenSeq(s) \o FlattenSeq(t)
PROOF
  <1> DEFINE V == Seq(S)
  <1>1. /\ <<>> \in V
        /\ \A u, v \in V : u \o v \in V
        /\ \A v \in V : <<>> \o v = v
        /\ \A v \in V : v \o <<>> = v
    OBVIOUS
  <1>2. \A u, v, w \in V : (u \o v) \o w = u \o (v \o w)
    BY ConcatAssociative
  <1>3. s \in Seq(V) /\ t \in Seq(V)
    OBVIOUS
  <1> HIDE DEF V
  <1>4. QED BY ZenonT(60), <1>1, <1>2, <1>3, FlattenConcatIn

(***************************************************************************)
(* Selected, in terms of the set of elements that pass.                    *)
(***************************************************************************)
Among(s, T) == Selected(s, LAMBDA x : x \in T)

LEMMA AmongEmpty == ASSUME NEW T PROVE Among(<<>>, T) = <<>>
PROOF
  <1> DEFINE picks == [i \in DOMAIN <<>> |-> IF <<>>[i] \in T THEN <<<<>>[i]>> ELSE <<>>]
  <1>1. picks = <<>>
    OBVIOUS
  <1>2. Among(<<>>, T) = FlattenSeq(picks)
    BY DEF Among, Selected
  <1> HIDE DEF picks
  <1>3. QED BY <1>1, <1>2, FlattenEmpty

(* An element that passes comes last, one that does not changes nothing.   *)
LEMMA AmongAppend ==
  ASSUME NEW S, NEW T, NEW s \in Seq(S), NEW e \in S
  PROVE  /\ Among(s, T) \in Seq(S)
         /\ e \in T => Among(Append(s, e), T) = Append(Among(s, T), e)
         /\ e \notin T => Among(Append(s, e), T) = Among(s, T)
PROOF
  <1> DEFINE Pick(x) == IF x \in T THEN <<x>> ELSE <<>>
             V == Seq(S)
             picks == [i \in DOMAIN s |-> Pick(s[i])]
             a == Append(s, e)
             more == [i \in DOMAIN a |-> Pick(a[i])]
  <1>1. Among(s, T) = FlattenSeq(picks) /\ Among(a, T) = FlattenSeq(more)
    BY DEF Among, Selected
  <1>2. \A x \in S : Pick(x) \in V
    OBVIOUS
  <1>3. /\ Len(s) \in Nat /\ DOMAIN s = 1..Len(s) /\ DOMAIN a = 1..(Len(s) + 1)
        /\ \A i \in 1..Len(s) : s[i] \in S /\ a[i] = s[i]
        /\ a[Len(s) + 1] = e
    OBVIOUS
  <1>4. picks \in Seq(Seq(S)) /\ more = Append(picks, Pick(e)) /\ Pick(e) \in Seq(S)
    <2> HIDE DEF Pick, V, a
    <2>1. picks \in Seq(V) /\ Len(picks) = Len(s) /\ \A i \in 1..Len(s) : picks[i] = Pick(s[i])
      BY <1>2, <1>3
    <2>2. more \in Seq(V) /\ Len(more) = Len(s) + 1 /\ \A i \in 1..(Len(s) + 1) : more[i] = Pick(a[i])
      BY <1>2, <1>3
    <2> HIDE DEF picks, more
    <2>3. Append(picks, Pick(e)) \in Seq(V) /\ Len(Append(picks, Pick(e))) = Len(s) + 1
          /\ (\A i \in 1..Len(s) : Append(picks, Pick(e))[i] = Pick(s[i]))
          /\ Append(picks, Pick(e))[Len(s) + 1] = Pick(e)
      BY <1>2, <2>1
    <2>4. \A i \in 1..Len(more) : more[i] = Append(picks, Pick(e))[i]
      BY <1>3, <2>2, <2>3
    <2>5. more = Append(picks, Pick(e))
      BY <2>2, <2>3, <2>4, SeqEqual
    <2>6. QED BY <1>2, <2>1, <2>5 DEF V
  <1> HIDE DEF picks, more, a, Pick
  <1>5. FlattenSeq(picks) \in Seq(S) /\ FlattenSeq(more) = FlattenSeq(picks) \o Pick(e)
    BY <1>4, FlattenAppend
  <1>6. QED BY <1>1, <1>5 DEF a, Pick

LEMMA AmongTyped ==
  ASSUME NEW S, NEW T, NEW s \in Seq(S)
  PROVE  Among(s, T) \in Seq(S)
PROOF
  <1>1. CASE S = {}
    <2>1. s = <<>>
      BY <1>1
    <2>2. QED BY <2>1, AmongEmpty
  <1>2. CASE S # {}
    BY <1>2, AmongAppend
  <1>3. QED BY <1>1, <1>2

LEMMA AmongConcat ==
  ASSUME NEW S, NEW T, NEW s \in Seq(S), NEW t \in Seq(S)
  PROVE  Among(s \o t, T) = Among(s, T) \o Among(t, T)
PROOF
  <1> DEFINE Joins(u) == Among(s \o u, T) = Among(s, T) \o Among(u, T)
             U == {u \in Seq(S) : Joins(u)}
  <1>0. \A u \in Seq(S) : Among(u, T) \in Seq(S)
    BY AmongTyped
  <1>1. Joins(<<>>)
    <2>1. s \o <<>> = s /\ Among(s, T) \in Seq(S)
      BY <1>0
    <2>2. QED BY <2>1, AmongEmpty
  <1>2. ASSUME NEW u \in Seq(S), NEW e \in S, Joins(u) PROVE Joins(Append(u, e))
    <2>1. s \o Append(u, e) = Append(s \o u, e) /\ s \o u \in Seq(S)
      OBVIOUS
    <2>2. Among(s, T) \in Seq(S) /\ Among(u, T) \in Seq(S)
      BY <1>0
    <2>3. Among(s, T) \o Append(Among(u, T), e) = Append(Among(s, T) \o Among(u, T), e)
      BY <2>2
    <2>a. /\ e \in T => Among(Append(s \o u, e), T) = Append(Among(s \o u, T), e)
          /\ e \notin T => Among(Append(s \o u, e), T) = Among(s \o u, T)
      <3> DEFINE w == s \o u
      <3>1. w \in Seq(S)
        BY <2>1
      <3> HIDE DEF w
      <3>2. /\ e \in T => Among(Append(w, e), T) = Append(Among(w, T), e)
            /\ e \notin T => Among(Append(w, e), T) = Among(w, T)
        BY <3>1, AmongAppend
      <3>3. QED BY <3>2 DEF w
    <2>b. /\ e \in T => Among(Append(u, e), T) = Append(Among(u, T), e)
          /\ e \notin T => Among(Append(u, e), T) = Among(u, T)
      BY AmongAppend
    <2>4. CASE e \in T
      <3>1. Among(Append(s \o u, e), T) = Append(Among(s \o u, T), e)
            /\ Among(Append(u, e), T) = Append(Among(u, T), e)
        BY <2>a, <2>b, <2>4
      <3>2. QED BY <1>2, <2>1, <2>3, <3>1
    <2>5. CASE e \notin T
      <3>1. Among(Append(s \o u, e), T) = Among(s \o u, T)
            /\ Among(Append(u, e), T) = Among(u, T)
        BY <2>a, <2>b, <2>5
      <3>2. QED BY <1>2, <2>1, <3>1
    <2>6. QED BY <2>4, <2>5
  <1> HIDE DEF Joins
  <1>3. <<>> \in U /\ \A u \in Seq(S), e \in S : u \in U => Append(u, e) \in U
    <2>1. \A u \in Seq(S), e \in S : Append(u, e) \in Seq(S)
      OBVIOUS
    <2>2. QED BY <1>1, <1>2, <2>1
  <1>4. \A u \in Seq(S) : u \in U
    <2> HIDE DEF U
    <2>1. QED BY <1>3, SeqInduction
  <1>5. QED BY <1>4 DEF Joins

(* The first element of a sequence, if it passes, is the first that does.  *)
LEMMA AmongHead ==
  ASSUME NEW S, NEW T, NEW s \in Seq(S), s # <<>>
  PROVE  /\ Head(s) \in T => Among(s, T) = <<Head(s)>> \o Among(Tail(s), T)
         /\ Head(s) \notin T => Among(s, T) = Among(Tail(s), T)
PROOF
  <1> DEFINE e == Head(s)
             u == Tail(s)
             none == <<>>
             h == Append(none, e)
  <1>1. e \in S /\ u \in Seq(S) /\ none \in Seq(S) /\ h \in Seq(S) /\ s = h \o u /\ h = <<e>>
    OBVIOUS
  <1> HIDE DEF e, u, h, none
  <1>2. /\ e \in T => Among(Append(none, e), T) = Append(Among(none, T), e)
        /\ e \notin T => Among(Append(none, e), T) = Among(none, T)
    BY <1>1, AmongAppend
  <1>3. Among(none, T) = none /\ none = <<>>
    BY AmongEmpty DEF none
  <1>4. Among(h \o u, T) = Among(h, T) \o Among(u, T)
    BY <1>1, AmongConcat
  <1>5. Among(u, T) \in Seq(S)
    BY <1>1, AmongTyped
  <1>6. /\ e \in T => Among(s, T) = h \o Among(u, T)
        /\ e \notin T => Among(s, T) = none \o Among(u, T)
    BY <1>1, <1>2, <1>3, <1>4 DEF h
  <1>7. none \o Among(u, T) = Among(u, T)
    BY <1>3, <1>5
  <1>8. QED BY <1>1, <1>6, <1>7 DEF e, u

(* What passes is what is in both.                                         *)
LEMMA RangeAppend ==
  ASSUME NEW S, NEW s \in Seq(S), NEW e \in S
  PROVE  Range(Append(s, e)) = Range(s) \cup {e} /\ Range(<<>>) = {} /\ Range(s) \subseteq S
PROOF
  <1>1. /\ DOMAIN Append(s, e) = 1..(Len(s) + 1) /\ DOMAIN s = 1..Len(s) /\ Len(s) \in Nat
        /\ \A i \in 1..Len(s) : Append(s, e)[i] = s[i] /\ s[i] \in S
        /\ Append(s, e)[Len(s) + 1] = e
    OBVIOUS
  <1>2. Range(Append(s, e)) \subseteq Range(s) \cup {e}
    BY <1>1 DEF Range
  <1>3. Range(s) \cup {e} \subseteq Range(Append(s, e))
    BY <1>1 DEF Range
  <1>4. QED BY <1>1, <1>2, <1>3 DEF Range

LEMMA AmongRange ==
  ASSUME NEW S, NEW T, NEW s \in Seq(S)
  PROVE  Range(Among(s, T)) = Range(s) \cap T
PROOF
  <1> DEFINE Right(u) == Range(Among(u, T)) = Range(u) \cap T
             U == {u \in Seq(S) : Right(u)}
  <1>1. Right(<<>>)
    BY AmongEmpty DEF Range
  <1>2. ASSUME NEW u \in Seq(S), NEW e \in S, Right(u) PROVE Right(Append(u, e))
    <2>1. Range(Append(u, e)) = Range(u) \cup {e}
      BY RangeAppend
    <2>2. Among(u, T) \in Seq(S)
      BY AmongTyped
    <2>3. CASE e \in T
      <3>1. Among(Append(u, e), T) = Append(Among(u, T), e)
        BY <2>3, AmongAppend
      <3>2. Range(Append(Among(u, T), e)) = Range(Among(u, T)) \cup {e}
        BY <2>2, RangeAppend
      <3>3. QED BY <1>2, <2>1, <2>3, <3>1, <3>2
    <2>4. CASE e \notin T
      <3>1. Among(Append(u, e), T) = Among(u, T)
        BY <2>4, AmongAppend
      <3>2. QED BY <1>2, <2>1, <2>4, <3>1
    <2>5. QED BY <2>3, <2>4
  <1> HIDE DEF Right
  <1>3. <<>> \in U /\ \A u \in Seq(S), e \in S : u \in U => Append(u, e) \in U
    <2>1. \A u \in Seq(S), e \in S : Append(u, e) \in Seq(S)
      OBVIOUS
    <2>2. QED BY <1>1, <1>2, <2>1
  <1>4. \A u \in Seq(S) : u \in U
    <2> HIDE DEF U
    <2>1. QED BY <1>3, SeqInduction
  <1>5. QED BY <1>4 DEF Right

(* All pass, or none.                                                      *)
LEMMA AmongAll ==
  ASSUME NEW S, NEW T, NEW s \in Seq(S), Range(s) \subseteq T
  PROVE  Among(s, T) = s
PROOF
  <1> DEFINE Right(u) == Range(u) \subseteq T => Among(u, T) = u
             U == {u \in Seq(S) : Right(u)}
  <1>1. Right(<<>>)
    BY AmongEmpty
  <1>2. ASSUME NEW u \in Seq(S), NEW e \in S, Right(u) PROVE Right(Append(u, e))
    <2>1. Range(Append(u, e)) = Range(u) \cup {e}
      BY RangeAppend
    <2>2. e \in T => Among(Append(u, e), T) = Append(Among(u, T), e)
      BY AmongAppend
    <2>3. QED BY <1>2, <2>1, <2>2
  <1> HIDE DEF Right
  <1>3. <<>> \in U /\ \A u \in Seq(S), e \in S : u \in U => Append(u, e) \in U
    <2>1. \A u \in Seq(S), e \in S : Append(u, e) \in Seq(S)
      OBVIOUS
    <2>2. QED BY <1>1, <1>2, <2>1
  <1>4. \A u \in Seq(S) : u \in U
    <2> HIDE DEF U
    <2>1. QED BY <1>3, SeqInduction
  <1>5. QED BY <1>4 DEF Right

LEMMA AmongNone ==
  ASSUME NEW S, NEW T, NEW s \in Seq(S), Range(s) \cap T = {}
  PROVE  Among(s, T) = <<>>
PROOF
  <1>1. Among(s, T) \in Seq(S) /\ Range(Among(s, T)) = {}
    BY AmongTyped, AmongRange
  <1>2. \A u \in Seq(S) : Range(u) = {} => u = <<>>
    BY DEF Range
  <1>3. QED BY <1>1, <1>2

(***************************************************************************)
(* Injective sequences: no element twice.                                  *)
(***************************************************************************)
LEMMA InjectiveAppend ==
  ASSUME NEW S, NEW s \in Seq(S), NEW e \in S, IsInjective(s), e \notin Range(s)
  PROVE  IsInjective(Append(s, e))
PROOF
  <1>1. /\ DOMAIN Append(s, e) = 1..(Len(s) + 1) /\ DOMAIN s = 1..Len(s) /\ Len(s) \in Nat
        /\ \A i \in 1..Len(s) : Append(s, e)[i] = s[i]
        /\ Append(s, e)[Len(s) + 1] = e
    OBVIOUS
  <1>2. QED BY <1>1 DEF IsInjective, Range

LEMMA RangeTail ==
  ASSUME NEW S, NEW s \in Seq(S), s # <<>>
  PROVE  Range(s) = Range(Tail(s)) \cup {Head(s)}
PROOF
  <1>1. /\ Len(s) \in Nat \ {0} /\ DOMAIN s = 1..Len(s) /\ DOMAIN Tail(s) = 1..(Len(s) - 1)
        /\ \A i \in 1..(Len(s) - 1) : Tail(s)[i] = s[i + 1]
        /\ Head(s) = s[1]
    OBVIOUS
  <1>2. Range(s) = Range(Tail(s)) \cup {Head(s)}
    <2>1. \A i \in 1..Len(s) : i = 1 \/ (i - 1 \in 1..(Len(s) - 1) /\ Tail(s)[i - 1] = s[i])
      BY <1>1
    <2>2. Range(s) \subseteq Range(Tail(s)) \cup {Head(s)}
      <3>1. SUFFICES ASSUME NEW x \in Range(s) PROVE x \in Range(Tail(s)) \cup {Head(s)}
        OBVIOUS
      <3>2. PICK i \in 1..Len(s) : x = s[i]
        BY <1>1 DEF Range
      <3>3. CASE i = 1
        BY <1>1, <3>2, <3>3
      <3>4. CASE i # 1
        <4>1. i - 1 \in DOMAIN Tail(s) /\ x = Tail(s)[i - 1]
          BY <1>1, <2>1, <3>2, <3>4
        <4>2. QED BY <4>1 DEF Range
      <3>5. QED BY <3>3, <3>4
    <2>3. Range(Tail(s)) \cup {Head(s)} \subseteq Range(s)
      <3>1. Head(s) \in Range(s)
        BY <1>1 DEF Range
      <3>2. \A i \in 1..(Len(s) - 1) : i + 1 \in 1..Len(s)
        BY <1>1
      <3>3. Range(Tail(s)) \subseteq Range(s)
        BY <1>1, <3>2 DEF Range
      <3>4. QED BY <3>1, <3>3
    <2>4. QED BY <2>2, <2>3
  <1>3. QED BY <1>2

LEMMA InjectiveTail ==
  ASSUME NEW S, NEW s \in Seq(S), s # <<>>, IsInjective(s)
  PROVE  IsInjective(Tail(s)) /\ Head(s) \notin Range(Tail(s))
         /\ Range(s) = Range(Tail(s)) \cup {Head(s)}
PROOF
  <1>1. /\ Len(s) \in Nat \ {0} /\ DOMAIN s = 1..Len(s) /\ DOMAIN Tail(s) = 1..(Len(s) - 1)
        /\ \A i \in 1..(Len(s) - 1) : Tail(s)[i] = s[i + 1]
        /\ Head(s) = s[1]
    OBVIOUS
  <1>2. IsInjective(Tail(s))
    BY <1>1 DEF IsInjective
  <1>3. Head(s) \notin Range(Tail(s))
    BY <1>1 DEF IsInjective, Range
  <1>4. QED BY <1>2, <1>3, RangeTail

LEMMA AmongInjective ==
  ASSUME NEW S, NEW T, NEW s \in Seq(S), IsInjective(s)
  PROVE  IsInjective(Among(s, T))
PROOF
  <1> DEFINE Right(u) == IsInjective(u) => IsInjective(Among(u, T))
             U == {u \in Seq(S) : Right(u)}
  <1>1. Right(<<>>)
    BY AmongEmpty
  <1>2. ASSUME NEW u \in Seq(S), NEW e \in S, Right(u) PROVE Right(Append(u, e))
    <2> SUFFICES ASSUME IsInjective(Append(u, e)) PROVE IsInjective(Among(Append(u, e), T))
      OBVIOUS
    <2>1. IsInjective(u) /\ e \notin Range(u)
      <3>1. /\ DOMAIN Append(u, e) = 1..(Len(u) + 1) /\ DOMAIN u = 1..Len(u) /\ Len(u) \in Nat
            /\ \A i \in 1..Len(u) : Append(u, e)[i] = u[i]
            /\ Append(u, e)[Len(u) + 1] = e
        OBVIOUS
      <3>2. QED BY <3>1 DEF IsInjective, Range
    <2>2. Among(u, T) \in Seq(S) /\ IsInjective(Among(u, T)) /\ e \notin Range(Among(u, T))
      BY <1>2, <2>1, AmongTyped, AmongRange
    <2>3. IsInjective(Append(Among(u, T), e))
      BY <2>2, InjectiveAppend
    <2>4. Among(Append(u, e), T) \in {Append(Among(u, T), e), Among(u, T)}
      BY AmongAppend
    <2>5. QED BY <2>2, <2>3, <2>4
  <1> HIDE DEF Right
  <1>3. <<>> \in U /\ \A u \in Seq(S), e \in S : u \in U => Append(u, e) \in U
    <2>1. \A u \in Seq(S), e \in S : Append(u, e) \in Seq(S)
      OBVIOUS
    <2>2. QED BY <1>1, <1>2, <2>1
  <1>4. \A u \in Seq(S) : u \in U
    <2> HIDE DEF U
    <2>1. QED BY <1>3, SeqInduction
  <1>5. QED BY <1>4 DEF Right

(***************************************************************************)
(* What is in a sequence, and where the first that passes a test is.       *)
(***************************************************************************)
LEMMA RangeOf ==
  ASSUME NEW S, NEW s \in Seq(S)
  PROVE  /\ Len(s) \in Nat /\ DOMAIN s = 1..Len(s) /\ s \in Seq(Range(s))
         /\ Range(s) = {s[i] : i \in 1..Len(s)}
         /\ \A i \in 1..Len(s) : s[i] \in S /\ s[i] \in Range(s)
         /\ \A e \in Range(s) : e \in S /\ \E i \in 1..Len(s) : e = s[i]
PROOF
  <1>1. DOMAIN s = 1..Len(s) /\ Len(s) \in Nat /\ \A i \in 1..Len(s) : s[i] \in S
    OBVIOUS
  <1>2. Range(s) = {s[i] : i \in 1..Len(s)}
    BY <1>1 DEF Range
  <1>3. s = [i \in 1..Len(s) |-> s[i]]
    OBVIOUS
  <1>4. QED BY <1>1, <1>2, <1>3

(* What SelectInSeq finds, in terms of the set of elements that pass.      *)
FirstIn(s, T) == SelectInSeq(s, LAMBDA x : x \in T)

LEMMA FirstInIs ==
  ASSUME NEW S, NEW s \in Seq(S), NEW T
  PROVE  /\ FirstIn(s, T) \in 0..Len(s)
         /\ FirstIn(s, T) # 0 =>
              s[FirstIn(s, T)] \in T /\ \A i \in 1..(FirstIn(s, T) - 1) : s[i] \notin T
         /\ FirstIn(s, T) = 0 => \A i \in 1..Len(s) : s[i] \notin T
PROOF
  <1> DEFINE I == {i \in 1..Len(s) : s[i] \in T}
             n == FirstIn(s, T)
  <1>1. n = IF I # {} THEN Min(I) ELSE 0
    BY DEF FirstIn, SelectInSeq
  <1>2. /\ I \in SUBSET (1..Len(s)) /\ Len(s) \in Nat
        /\ \A i \in 1..Len(s) : i \in I <=> s[i] \in T
    OBVIOUS
  <1> HIDE DEF I, n
  <1>3. CASE I = {}
    <2>1. n = 0
      BY <1>1, <1>3
    <2>2. QED BY <1>2, <1>3, <2>1 DEF n
  <1>4. CASE I # {}
    <2>1. Min(I) \in I /\ \A y \in I : Min(I) <= y
      BY <1>2, <1>4, MinUpTo
    <2>2. n = Min(I)
      BY <1>1, <1>4
    <2>3. n \in 1..Len(s) /\ s[n] \in T
      BY <1>2, <2>1, <2>2
    <2>4. ASSUME NEW i \in 1..(n - 1) PROVE s[i] \notin T
      <3>1. i \in 1..Len(s) /\ ~(n <= i)
        BY <2>3
      <3>2. QED BY <1>2, <2>1, <2>2, <3>1
    <2>5. QED BY <2>3, <2>4 DEF n
  <1>5. QED BY <1>3, <1>4

(* The last element, and what stands before it.                            *)
LEMMA LastAppended ==
  ASSUME NEW S, NEW s \in Seq(S), NEW e \in S
  PROVE  Last(Append(s, e)) = e /\ Append(s, e) # <<>>
PROOF
  <1>1. /\ Len(Append(s, e)) = Len(s) + 1 /\ Append(s, e)[Len(s) + 1] = e
        /\ Len(s) \in Nat
    BY AppendedIs
  <1>2. QED BY <1>1 DEF Last

LEMMA LastPart ==
  ASSUME NEW S, NEW parts \in Seq(S), parts # <<>>, NEW p \in S
  PROVE  /\ Len(parts) \in Nat \ {0} /\ Last(parts) \in S
         /\ SubSeq(parts, 1, Len(parts) - 1) \in Seq(S)
         /\ parts = Append(SubSeq(parts, 1, Len(parts) - 1), Last(parts))
         /\ [parts EXCEPT ![Len(parts)] = p] = Append(SubSeq(parts, 1, Len(parts) - 1), p)
PROOF
  <1> DEFINE front == SubSeq(parts, 1, Len(parts) - 1)
             l == Len(parts)
  <1>1. /\ front \in Seq(S) /\ parts[l] \in S /\ l \in Nat \ {0}
        /\ Len(front) = l - 1
        /\ parts = Append(front, parts[l])
    BY SplitLast
  <1>2. \A i \in 1..(l - 1) : parts[i] = front[i]
    <2> HIDE DEF front, l
    <2>1. \A q : \A i \in 1..Len(front) : Append(front, q)[i] = front[i]
      BY <1>1
    <2>2. Len(front) = l - 1
      BY SMTT(40), <1>1
    <2>3. QED BY <1>1, <2>1, <2>2
  <1> HIDE DEF front
  <1>3. [parts EXCEPT ![l] = p] = Append(front, p)
    <2>1. /\ [parts EXCEPT ![l] = p] \in Seq(S) /\ Len([parts EXCEPT ![l] = p]) = l
          /\ \A i \in 1..(l - 1) : [parts EXCEPT ![l] = p][i] = parts[i]
          /\ [parts EXCEPT ![l] = p][l] = p
      BY SMTT(40), <1>1
    <2>2. /\ Append(front, p) \in Seq(S) /\ Len(Append(front, p)) = l
          /\ \A i \in 1..(l - 1) : Append(front, p)[i] = front[i]
          /\ Append(front, p)[l] = p
      BY SMTT(40), <1>1
    <2>3. \A i \in 1..l : [parts EXCEPT ![l] = p][i] = Append(front, p)[i]
      <3>1. \A i \in 1..l : i \in 1..(l - 1) \/ i = l
        BY <1>1
      <3>2. QED BY <1>2, <2>1, <2>2, <3>1
    <2>4. QED BY ZenonT(60), <2>1, <2>2, <2>3, SeqEqual
  <1>4. Last(parts) = parts[l]
    BY DEF Last
  <1>5. QED BY <1>1, <1>3, <1>4 DEF front

LEMMA RangeConcat ==
  ASSUME NEW S, NEW s \in Seq(S), NEW t \in Seq(S)
  PROVE  s \o t \in Seq(S) /\ Range(s \o t) = Range(s) \cup Range(t)
PROOF
  <1> DEFINE u == s \o t
  <1>1. /\ DOMAIN u = 1..(Len(s) + Len(t)) /\ DOMAIN s = 1..Len(s) /\ DOMAIN t = 1..Len(t)
        /\ Len(s) \in Nat /\ Len(t) \in Nat
        /\ \A i \in 1..Len(s) : u[i] = s[i]
        /\ \A i \in 1..Len(t) : u[Len(s) + i] = t[i]
    OBVIOUS
  <1> HIDE DEF u
  <1>2. \A i \in 1..(Len(s) + Len(t)) :
          i \in 1..Len(s) \/ (i - Len(s) \in 1..Len(t) /\ Len(s) + (i - Len(s)) = i)
    BY <1>1
  <1>3. Range(u) \subseteq Range(s) \cup Range(t)
    <2>1. SUFFICES ASSUME NEW i \in 1..(Len(s) + Len(t)) PROVE u[i] \in Range(s) \cup Range(t)
      BY <1>1 DEF Range
    <2>2. CASE i \in 1..Len(s)
      BY <1>1, <2>2 DEF Range
    <2>3. CASE i \notin 1..Len(s)
      <3>1. PICK j \in 1..Len(t) : Len(s) + j = i
        BY <1>2, <2>3
      <3>2. u[i] = t[j]
        BY <1>1, <3>1
      <3>3. QED BY <1>1, <3>2 DEF Range
    <2>4. QED BY <2>2, <2>3
  <1>4. \A i \in 1..Len(s) : i \in DOMAIN u /\ u[i] = s[i]
    BY <1>1
  <1>5. \A i \in 1..Len(t) : Len(s) + i \in DOMAIN u /\ u[Len(s) + i] = t[i]
    BY <1>1
  <1>6. Range(s) \subseteq Range(u) /\ Range(t) \subseteq Range(u)
    BY ZenonT(60), <1>1, <1>4, <1>5 DEF Range
  <1>7. u \in Seq(S)
    BY DEF u
  <1>8. QED BY <1>3, <1>6, <1>7 DEF u

LEMMA SeqWithin ==
  ASSUME NEW S, NEW T, NEW s \in Seq(S), Range(s) \subseteq T
  PROVE  s \in Seq(T)
PROOF
  <1>1. s \in Seq(Range(s))
    BY RangeOf
  <1> DEFINE R == Range(s)
  <1>2. s \in Seq(R) /\ R \subseteq T
    BY <1>1
  <1> HIDE DEF R
  <1>3. QED BY <1>2

(* A finite set as a sequence.                                             *)
LEMMA SetToSeqIs ==
  ASSUME NEW S, NEW T, T \subseteq S, IsFiniteSet(T)
  PROVE  SetToSeq(T) \in Seq(S) /\ Len(SetToSeq(T)) = Cardinality(T)
PROOF
  <1>1. Cardinality(T) \in Nat /\ ExistsBijection(1..Cardinality(T), T)
    BY FS_CardinalityType
  <1>2. \E f \in [1..Cardinality(T) -> T] : IsInjective(f)
    BY <1>1 DEF ExistsBijection, Bijection, Injection, IsInjective
  <1>3. SetToSeq(T) \in [1..Cardinality(T) -> T]
    BY <1>2 DEF SetToSeq
  <1> HIDE DEF SetToSeq
  <1>4. QED BY <1>1, <1>3

(* The parts of the parts.                                                 *)
LEMMA FlattenIn ==
  ASSUME NEW S, NEW s \in Seq(Seq(S))
  PROVE  FlattenSeq(s) \in Seq(S)
PROOF
  <1>1. <<>> \in Seq(S)
    OBVIOUS
  <1>2. QED BY <1>1, FlattenAppend

LEMMA FlattenOne ==
  ASSUME NEW S, NEW x \in Seq(S)
  PROVE  FlattenSeq(<<x>>) = x
PROOF
  <1> DEFINE none == <<>>
  <1>1. none \in Seq(Seq(S)) /\ Append(none, x) = <<x>>
    OBVIOUS
  <1>2. FlattenSeq(none) = <<>> /\ <<>> \o x = x
    BY FlattenEmpty
  <1> HIDE DEF none
  <1>3. QED BY <1>1, <1>2, FlattenAppend

LEMMA FlattenTwice ==
  ASSUME NEW S, NEW xs \in Seq(Seq(Seq(S)))
  PROVE  FlattenSeq(FlattenSeq(xs)) = FlattenSeq([i \in DOMAIN xs |-> FlattenSeq(xs[i])])
PROOF
  <1> DEFINE V == Seq(Seq(S))
             Each(u) == [i \in DOMAIN u |-> FlattenSeq(u[i])]
             Right(u) == FlattenSeq(FlattenSeq(u)) = FlattenSeq(Each(u))
             U == {u \in Seq(V) : Right(u)}
  <1>1. Right(<<>>)
    <2>1. Each(<<>>) = <<>>
      OBVIOUS
    <2>2. QED BY <2>1, FlattenEmpty
  <1>2. \A x \in V : FlattenSeq(x) \in Seq(S)
    BY FlattenAppend
  <1>3. \A u \in Seq(V) : Each(u) \in Seq(Seq(S))
    <2> SUFFICES ASSUME NEW u \in Seq(V) PROVE Each(u) \in Seq(Seq(S))
      OBVIOUS
    <2> DEFINE W == Seq(S)
    <2>1. Len(u) \in Nat /\ DOMAIN u = 1..Len(u) /\ \A i \in 1..Len(u) : u[i] \in V
      OBVIOUS
    <2> HIDE DEF V
    <2>2. \A i \in 1..Len(u) : FlattenSeq(u[i]) \in W
      BY <1>2, <2>1
    <2> HIDE DEF W
    <2>3. [i \in 1..Len(u) |-> FlattenSeq(u[i])] \in Seq(W)
      BY <2>1, <2>2
    <2>4. QED BY <2>1, <2>3 DEF W
  <1>4. ASSUME NEW u \in Seq(V), NEW x \in V, Right(u) PROVE Right(Append(u, x))
    <2>1. FlattenSeq(u) \in V /\ FlattenSeq(Append(u, x)) = FlattenSeq(u) \o x
      BY FlattenAppend
    <2>2. FlattenSeq(FlattenSeq(u) \o x) = FlattenSeq(FlattenSeq(u)) \o FlattenSeq(x)
      BY <2>1, FlattenConcat
    <2>3. Each(Append(u, x)) = Append(Each(u), FlattenSeq(x))
      <3> DEFINE a == Append(u, x)
      <3>1. /\ DOMAIN a = 1..(Len(u) + 1) /\ DOMAIN u = 1..Len(u) /\ Len(u) \in Nat
            /\ a \in Seq(V) /\ (\A i \in 1..Len(u) : a[i] = u[i]) /\ a[Len(u) + 1] = x
        BY AppendedIs
      <3> HIDE DEF a, V
      <3>2. Each(a) \in Seq(Seq(S)) /\ Each(u) \in Seq(Seq(S)) /\ FlattenSeq(x) \in Seq(S)
        BY <1>2, <1>3, <3>1
      <3>3. Len(Each(a)) = Len(u) + 1 /\ Len(Each(u)) = Len(u)
        BY <3>1, <3>2
      <3>4. /\ \A i \in 1..Len(u) : Each(a)[i] = Each(u)[i]
            /\ Each(a)[Len(u) + 1] = FlattenSeq(x)
        BY <3>1
      <3> HIDE DEF Each
      <3>5. Append(Each(u), FlattenSeq(x)) \in Seq(Seq(S))
            /\ Len(Append(Each(u), FlattenSeq(x))) = Len(u) + 1
            /\ \A i \in 1..(Len(u) + 1) : Append(Each(u), FlattenSeq(x))[i] = Each(a)[i]
        BY <3>1, <3>2, <3>3, <3>4
      <3>6. Each(a) = Append(Each(u), FlattenSeq(x))
        BY <3>2, <3>3, <3>5, SeqEqual
      <3>7. QED BY <3>6 DEF a
    <2>4. FlattenSeq(Append(Each(u), FlattenSeq(x))) = FlattenSeq(Each(u)) \o FlattenSeq(x)
      BY <1>2, <1>3, FlattenAppend
    <2>5. QED BY <1>4, <2>1, <2>2, <2>3, <2>4
  <1> HIDE DEF Right
  <1>5. <<>> \in U /\ \A u \in Seq(V), x \in V : u \in U => Append(u, x) \in U
    <2>1. \A u \in Seq(V), x \in V : Append(u, x) \in Seq(V)
      OBVIOUS
    <2>2. QED BY <1>1, <1>4, <2>1
  <1>6. \A u \in Seq(V) : u \in U
    <2> HIDE DEF U, V
    <2>1. QED BY <1>5, SeqInduction
  <1>7. QED BY <1>6 DEF Right
=============================================================================
