----------------------------- MODULE DataFacts ------------------------------
(***************************************************************************)
(* What the proofs keep needing of the data: the least of a set of natural *)
(* numbers and induction over them, concatenation, a sequence without one  *)
(* of its elements, and the rows at some places of a list.                 *)
(***************************************************************************)
EXTENDS Naturals, Integers, SequencesExt, Lists, SequenceTheorems, FiniteSetTheorems, WellFoundedInduction, TLAPS

(* The natural numbers are well-founded, so Min finds what it looks for.   *)
LEMMA LeastOfSet ==
  ASSUME NEW T \in SUBSET Nat, T # {}
  PROVE  Min(T) \in T /\ \A y \in T : Min(T) <= y
  <1>1. PICK x \in T : \A y \in T : ~(<<y, x>> \in OpToRel(<, Nat))
    BY NatLessThanWellFounded, WFMin
  <1>2. \A y \in T : x <= y
    <2>1. \A y \in T : ~(y < x)
      BY <1>1 DEF OpToRel
    <2> QED
      BY <2>1
  <1>3. \E z \in T : \A y \in T : z <= y
    BY <1>2
  <1>4. Min(T) = CHOOSE z \in T : \A y \in T : z <= y
    BY DEF Min
  <1> QED
    BY <1>3, <1>4

(* Induction: the least number outside of T would follow one in T.         *)
LEMMA NaturalInduction ==
  ASSUME NEW T \in SUBSET Nat, 0 \in T, \A n \in T : n + 1 \in T
  PROVE  T = Nat
  <1> DEFINE missing == Nat \ T
             least == Min(missing)
  <1> SUFFICES ASSUME missing # {}
               PROVE  FALSE
    OBVIOUS
  <1>1. least \in missing /\ \A y \in missing : least <= y
    BY LeastOfSet
  <1> HIDE DEF least
  <1>2. least \in Nat /\ least # 0 /\ least - 1 \in Nat /\ ~(least <= least - 1)
    BY <1>1
  <1>3. least - 1 \in T
    BY <1>1, <1>2
  <1>4. (least - 1) + 1 \in T /\ (least - 1) + 1 = least
    BY <1>2, <1>3
  <1> QED
    BY <1>1, <1>4

(* A recursive function of 0..m, each value of which follows from the one  *)
(* before it.                                                              *)
Computes(f, m, base, step) == f[0] = base /\ \A n \in 1..m : f[n] = step[n][f[n - 1]]

LEMMA Recursion ==
  ASSUME NEW V, NEW m \in Nat, NEW base \in V, NEW step \in [1..m -> [V -> V]]
  PROVE  \E f \in [0..m -> V] : Computes(f, m, base, step)
  <1> DEFINE Follows(f, k) == f[0] = base /\ \A n \in 1..k : f[n] = step[n][f[n - 1]]
             T == {k \in Nat : k <= m => \E f \in [0..k -> V] : Follows(f, k)}
  <1>1. 0 \in T
    <2> DEFINE f == [n \in 0..0 |-> base]
    <2>1. f \in [0..0 -> V] /\ f[0] = base
      OBVIOUS
    <2>2. \A n \in 1..0 : FALSE
      OBVIOUS
    <2>3. Follows(f, 0)
      BY <2>1, <2>2
    <2> HIDE DEF f, Follows
    <2> QED
      BY <2>1, <2>3
  <1>2. ASSUME NEW k \in T
        PROVE  k + 1 \in T
    <2>0. k \in Nat
      OBVIOUS
    <2> SUFFICES ASSUME k + 1 <= m
                 PROVE  \E g \in [0..k + 1 -> V] : Follows(g, k + 1)
      <3> HIDE DEF Follows
      <3> QED
        BY <2>0
    <2>1. PICK f \in [0..k -> V] : Follows(f, k)
      <3> HIDE DEF Follows
      <3> QED
        BY <2>0
    <2> DEFINE g == [n \in 0..k + 1 |-> IF n = k + 1 THEN step[k + 1][f[k]] ELSE f[n]]
    <2>2. step[k + 1] \in [V -> V] /\ f[k] \in V
      BY <2>0
    <2>3. step[k + 1][f[k]] \in V
      BY <2>2
    <2>4. g \in [0..k + 1 -> V]
      BY <2>0, <2>3
    <2>5. /\ g[k + 1] = step[k + 1][f[k]]
          /\ \A n \in 0..k : g[n] = f[n]
      BY <2>0
    <2> HIDE DEF g
    <2>6. ASSUME NEW n \in 1..k + 1
          PROVE  g[n] = step[n][g[n - 1]]
      <3>1. n - 1 \in 0..k /\ (n # k + 1 => n \in 1..k /\ n \in 0..k) /\ (n = k + 1 => n - 1 = k)
        BY <2>0
      <3> QED
        BY <2>1, <2>5, <3>1
    <2>7. g[0] = base
      BY <2>0, <2>1, <2>5
    <2> QED
      BY <2>4, <2>6, <2>7
  <1>3. T = Nat
    <2> HIDE DEF T
    <2>1. T \in SUBSET Nat
      BY DEF T
    <2> QED
      BY <1>1, <1>2, <2>1, NaturalInduction
  <1>4. m \in T /\ m <= m
    BY <1>3
  <1> HIDE DEF Follows
  <1>5. \E f \in [0..m -> V] : Follows(f, m)
    BY <1>4
  <1> QED
    BY <1>5 DEF Follows, Computes

(* The concatenation of two sequences over a set is one, as long as both,  *)
(* and has the elements of the first and then those of the second.         *)
LEMMA ConcatIsSeq ==
  ASSUME NEW S, NEW l \in Seq(S), NEW r \in Seq(S)
  PROVE  l \o r \in Seq(S)
  OBVIOUS

LEMMA ConcatLen ==
  ASSUME NEW S, NEW l \in Seq(S), NEW r \in Seq(S)
  PROVE  Len(l \o r) = Len(l) + Len(r)
  OBVIOUS

LEMMA ConcatAt ==
  ASSUME NEW S, NEW l \in Seq(S), NEW r \in Seq(S)
  PROVE  \A i \in 1..Len(l) + Len(r) : (l \o r)[i] = IF i <= Len(l) THEN l[i] ELSE r[i - Len(l)]
  OBVIOUS

(* RemoveAt leaves out the n-th element and keeps the others in order.     *)
LEMMA RemoveAtProperties ==
  ASSUME NEW S, NEW s \in Seq(S), NEW n \in 1..Len(s)
  PROVE  /\ RemoveAt(s, n) \in Seq(S)
         /\ Len(RemoveAt(s, n)) = Len(s) - 1
         /\ \A i \in 1..Len(s) - 1 : RemoveAt(s, n)[i] = IF i < n THEN s[i] ELSE s[i + 1]
  <1> DEFINE left == SubSeq(s, 1, n - 1)
             right == SubSeq(s, n + 1, Len(s))
             short == RemoveAt(s, n)
  <1>0. Len(s) \in Nat
    OBVIOUS
  <1>1. /\ left \in Seq(S) /\ Len(left) = n - 1
        /\ \A i \in 1..n - 1 : left[i] = s[i]
    OBVIOUS
  <1>2. /\ right \in Seq(S) /\ Len(right) = Len(s) - n
        /\ \A i \in 1..Len(s) - n : right[i] = s[n + i]
    OBVIOUS
  <1>3. short = left \o right
    BY DEF RemoveAt
  <1> HIDE DEF left, right
  <1>4. left \in Seq(S)
    BY <1>1
  <1>5. right \in Seq(S)
    BY <1>2
  <1>6. short \in Seq(S)
    BY ONLY <1>3, <1>4, <1>5, ConcatIsSeq
  <1>7. Len(short) = Len(left) + Len(right)
    BY ONLY <1>3, <1>4, <1>5, ConcatLen
  <1>8. \A i \in 1..Len(left) + Len(right) :
             short[i] = IF i <= Len(left) THEN left[i] ELSE right[i - Len(left)]
    BY ONLY <1>3, <1>4, <1>5, ConcatAt
  <1> HIDE DEF short
  <1>9. Len(left) + Len(right) = Len(s) - 1
    BY <1>0, <1>1, <1>2
  <1>10. ASSUME NEW i \in 1..Len(s) - 1
        PROVE  short[i] = IF i < n THEN s[i] ELSE s[i + 1]
    <2>1. CASE i < n
      BY <1>0, <1>1, <1>8, <1>9, <2>1
    <2>2. CASE ~(i < n)
      <3>1. i - (n - 1) \in 1..Len(s) - n /\ n + (i - (n - 1)) = i + 1 /\ ~(i <= n - 1)
        BY <1>0, <2>2
      <3>2. short[i] = right[i - (n - 1)]
        BY <1>1, <1>8, <1>9, <3>1
      <3> QED
        BY <1>2, <2>2, <3>1, <3>2
    <2> QED
      BY <2>1, <2>2
  <1>11. short \in Seq(S) /\ Len(short) = Len(s) - 1
    BY <1>6, <1>7, <1>9
  <1> QED
    BY <1>10, <1>11 DEF short

(* The recursion of RowsAt.                                                *)
LEMMA RowsAtFollows ==
  ASSUME NEW S, NEW s \in Seq(S), NEW places
  PROVE  \E upTo : /\ upTo[0] = <<>>
                   /\ \A n \in 1..Len(s) :
                        upTo[n] = IF n \in places THEN Append(upTo[n - 1], s[n]) ELSE upTo[n - 1]
                   /\ RowsAt(s, places) = upTo[Len(s)]
  <1> DEFINE Step(f, n) == IF n = 0 THEN <<>>
                           ELSE IF n \in places THEN Append(f[n - 1], s[n]) ELSE f[n - 1]
             T == {m \in Nat : \E f : f = [n \in 0..m |-> Step(f, n)]}
             len == Len(s)
  <1>0. len \in Nat
    OBVIOUS
  <1>1. 0 \in T
    <2> DEFINE f == [n \in 0..0 |-> <<>>]
    <2>1. f = [n \in 0..0 |-> Step(f, n)]
      OBVIOUS
    <2> HIDE DEF f
    <2> QED
      BY <2>1
  <1>2. \A m \in T : m + 1 \in T
    <2> SUFFICES ASSUME NEW m \in T
                 PROVE  m + 1 \in T
      OBVIOUS
    <2>1. PICK f : f = [n \in 0..m |-> Step(f, n)]
      OBVIOUS
    <2> DEFINE g == [n \in 0..m + 1 |-> IF n = m + 1 THEN Step(f, n) ELSE f[n]]
    <2>2. m \in Nat
      OBVIOUS
    <2>3. \A n \in 0..m + 1 : g[n] = Step(g, n)
      <3> SUFFICES ASSUME NEW n \in 0..m + 1
                   PROVE  g[n] = Step(g, n)
        OBVIOUS
      <3>1. CASE n = 0
        BY <2>1, <2>2, <3>1
      <3>2. CASE n # 0
        <4>1. n - 1 \in 0..m /\ n - 1 # m + 1 /\ n - 1 \in 0..m + 1
          BY <2>2, <3>2
        <4>2. g[n - 1] = f[n - 1]
          BY <4>1
        <4>3. g[n] = Step(f, n)
          <5>1. CASE n = m + 1
            BY <5>1
          <5>2. CASE n # m + 1
            <6>1. n \in 0..m
              BY <2>2, <5>2
            <6> HIDE DEF Step
            <6> QED
              BY <2>1, <5>2, <6>1
          <5> QED
            BY <5>1, <5>2
        <4> HIDE DEF g
        <4> QED
          BY <4>2, <4>3
      <3> QED
        BY <3>1, <3>2
    <2>4. g = [n \in 0..m + 1 |-> Step(g, n)]
      <3> HIDE DEF Step
      <3> QED
        BY <2>3
    <2> HIDE DEF g, Step
    <2> QED
      BY <2>2, <2>4
  <1>3. len \in T
    <2>1. T \in SUBSET Nat
      OBVIOUS
    <2> HIDE DEF T
    <2> QED
      BY <1>0, <1>1, <1>2, <2>1, NaturalInduction
  <1> DEFINE upTo == CHOOSE f : f = [n \in 0..len |-> Step(f, n)]
  <1>4. upTo = [n \in 0..len |-> Step(upTo, n)]
    <2>1. PICK f : f = [n \in 0..len |-> Step(f, n)]
      BY <1>3
    <2> HIDE DEF Step
    <2> QED
      BY <2>1
  <1>5. RowsAt(s, places) = upTo[len]
    BY DEF RowsAt
  <1> HIDE DEF upTo
  <1>6. upTo[0] = <<>>
    BY <1>0, <1>4
  <1>7. \A n \in 1..len : upTo[n] = IF n \in places THEN Append(upTo[n - 1], s[n]) ELSE upTo[n - 1]
    <2> SUFFICES ASSUME NEW n \in 1..len
                 PROVE  upTo[n] = IF n \in places THEN Append(upTo[n - 1], s[n]) ELSE upTo[n - 1]
      OBVIOUS
    <2>1. n \in 0..len /\ n # 0
      BY <1>0
    <2>2. upTo[n] = Step(upTo, n)
      <3> HIDE DEF Step
      <3> QED
        BY <1>4, <2>1
    <2> HIDE DEF len
    <2> QED
      BY <2>1, <2>2
  <1> QED
    BY <1>5, <1>6, <1>7

Elements(s) == {s[i] : i \in 1..Len(s)}

LEMMA ElementsOfAppend ==
  ASSUME NEW S, NEW s \in Seq(S), NEW e \in S
  PROVE  Append(s, e) \in Seq(S) /\ Elements(Append(s, e)) = Elements(s) \cup {e}
  <1>1. /\ Len(s) \in Nat /\ Append(s, e) \in Seq(S) /\ Len(Append(s, e)) = Len(s) + 1
        /\ \A i \in 1..Len(s) : Append(s, e)[i] = s[i]
        /\ Append(s, e)[Len(s) + 1] = e
    OBVIOUS
  <1>2. 1..Len(s) + 1 = (1..Len(s)) \cup {Len(s) + 1}
    BY <1>1
  <1> QED
    BY <1>1, <1>2 DEF Elements

LEMMA ElementsOfConcat ==
  ASSUME NEW S, NEW l \in Seq(S), NEW r \in Seq(S)
  PROVE  /\ l \o r \in Seq(S)
         /\ Elements(l \o r) = Elements(l) \cup Elements(r)
  <1> DEFINE both == l \o r
  <1>1. /\ both \in Seq(S) /\ Len(both) = Len(l) + Len(r) /\ Len(l) \in Nat /\ Len(r) \in Nat
        /\ \A i \in 1..Len(l) + Len(r) : both[i] = IF i <= Len(l) THEN l[i] ELSE r[i - Len(l)]
    BY ConcatIsSeq, ConcatLen, ConcatAt
  <1> HIDE DEF both
  <1>2. ASSUME NEW i \in 1..Len(l)
        PROVE  l[i] \in Elements(both)
    <2>1. i \in 1..Len(both) /\ i <= Len(l) /\ i \in 1..Len(l) + Len(r)
      BY <1>1
    <2>2. both[i] = l[i]
      BY <1>1, <2>1
    <2> QED
      BY <2>1, <2>2 DEF Elements
  <1>3. ASSUME NEW i \in 1..Len(r)
        PROVE  r[i] \in Elements(both)
    <2>1. Len(l) + i \in 1..Len(both) /\ ~(Len(l) + i <= Len(l)) /\ (Len(l) + i) - Len(l) = i
          /\ Len(l) + i \in 1..Len(l) + Len(r)
      BY <1>1
    <2>2. both[Len(l) + i] = r[i]
      BY <1>1, <2>1
    <2> QED
      BY <2>1, <2>2 DEF Elements
  <1>4. ASSUME NEW i \in 1..Len(both)
        PROVE  both[i] \in Elements(l) \cup Elements(r)
    <2>1. CASE i <= Len(l)
      <3>1. i \in 1..Len(l) /\ both[i] = l[i]
        BY <1>1, <2>1
      <3> QED
        BY <3>1 DEF Elements
    <2>2. CASE ~(i <= Len(l))
      <3>1. i - Len(l) \in 1..Len(r) /\ both[i] = r[i - Len(l)]
        BY <1>1, <2>2
      <3> QED
        BY <3>1 DEF Elements
    <2> QED
      BY <2>1, <2>2
  <1>5. Elements(both) = Elements(l) \cup Elements(r)
    BY <1>2, <1>3, <1>4 DEF Elements
  <1> QED
    BY <1>1, <1>5 DEF both

LEMMA ElementsAre ==
  ASSUME NEW S, NEW s \in Seq(S)
  PROVE  /\ ToSet(s) = Elements(s) /\ DOMAIN s = 1..Len(s) /\ Len(s) \in Nat
         /\ \A i \in 1..Len(s) : s[i] \in S /\ s[i] \in Elements(s)
         /\ Elements(s) \subseteq S
  <1>1. DOMAIN s = 1..Len(s) /\ Len(s) \in Nat /\ \A i \in 1..Len(s) : s[i] \in S
    OBVIOUS
  <1> QED
    BY <1>1 DEF ToSet, Elements

(* RowsAt holds the rows at those places and no others.                    *)
LEMMA RowsAtHolds ==
  ASSUME NEW S, NEW s \in Seq(S), NEW places \in SUBSET (1..Len(s))
  PROVE  /\ RowsAt(s, places) \in Seq(S)
         /\ Elements(RowsAt(s, places)) = {s[i] : i \in places}
  <1> DEFINE len == Len(s)
  <1>0. /\ len \in Nat /\ \A i \in 1..len : s[i] \in S
        /\ \A m \in places : m \in Nat /\ 1 <= m /\ m <= len
    OBVIOUS
  <1>1. PICK upTo : /\ upTo[0] = <<>>
                    /\ \A n \in 1..len :
                        upTo[n] = IF n \in places THEN Append(upTo[n - 1], s[n]) ELSE upTo[n - 1]
                    /\ RowsAt(s, places) = upTo[len]
    BY RowsAtFollows
  <1> HIDE DEF len
  <1> DEFINE Reached(n) == /\ upTo[n] \in Seq(S)
                           /\ Elements(upTo[n]) = {s[i] : i \in {m \in places : m <= n}}
             T == {n \in Nat : n <= len => Reached(n)}
  <1>2. 0 \in T
    <2>1. {m \in places : m <= 0} = {}
      <3>1. \A m \in Nat : 1 <= m => ~(m <= 0)
        OBVIOUS
      <3> QED
        BY <1>0, <3>1
    <2>2. Elements(upTo[0]) = {}
      BY <1>1 DEF Elements
    <2>3. <<>> \in Seq(S)
      OBVIOUS
    <2>4. {s[i] : i \in {m \in places : m <= 0}} = {}
      BY <2>1
    <2>5. Reached(0)
      BY <1>1, <2>2, <2>3, <2>4
    <2> HIDE DEF Reached
    <2> QED
      BY <2>5
  <1>3. \A n \in T : n + 1 \in T
    <2> SUFFICES ASSUME NEW n \in Nat, n + 1 <= len, Reached(n)
                 PROVE  Reached(n + 1)
      <3> HIDE DEF Reached
      <3>1. \A n \in Nat : n + 1 <= len => n <= len
        BY <1>0
      <3> QED
        BY <3>1
    <2>1. n + 1 \in 1..len /\ (n + 1) - 1 = n
      BY <1>0
    <2>2. upTo[n + 1] = IF n + 1 \in places THEN Append(upTo[n], s[n + 1]) ELSE upTo[n]
      BY <1>1, <2>1
    <2>3. s[n + 1] \in S
      BY <1>0, <2>1
    <2>4. \A m \in places : m \in Nat /\ (m <= n + 1 <=> m <= n \/ m = n + 1)
      BY <1>0
    <2>5. CASE n + 1 \in places
      <3>1. {m \in places : m <= n + 1} = {m \in places : m <= n} \cup {n + 1}
        BY <2>4, <2>5
      <3>2. {s[i] : i \in {m \in places : m <= n + 1}} = {s[i] : i \in {m \in places : m <= n}} \cup {s[n + 1]}
        BY <3>1
      <3> QED
        BY <2>2, <2>3, <2>5, <3>2, ElementsOfAppend
    <2>6. CASE n + 1 \notin places
      <3>1. {m \in places : m <= n + 1} = {m \in places : m <= n}
        BY <2>4, <2>6
      <3> QED
        BY <2>2, <2>6, <3>1
    <2> QED
      BY <2>5, <2>6
  <1>4. len \in T
    <2>1. T \in SUBSET Nat
      OBVIOUS
    <2> HIDE DEF T
    <2> QED
      BY <1>0, <1>2, <1>3, <2>1, NaturalInduction
  <1>5. {m \in places : m <= len} = places
    BY <1>0
  <1>6. Reached(len)
    <2> HIDE DEF Reached
    <2> QED
      BY <1>0, <1>4
  <1> QED
    BY <1>1, <1>5, <1>6

(* RowsAt keeps the order of the rows.                                     *)
LEMMA RowsAtOrder ==
  ASSUME NEW S, NEW s \in Seq(S), NEW places \in SUBSET (1..Len(s))
  PROVE  \A i, j \in 1..Len(RowsAt(s, places)) : i < j =>
           \E a, b \in places : a < b /\ RowsAt(s, places)[i] = s[a] /\ RowsAt(s, places)[j] = s[b]
  <1> DEFINE len == Len(s)
  <1>0. /\ len \in Nat /\ \A i \in 1..len : s[i] \in S
        /\ \A m \in places : m \in Nat /\ 1 <= m /\ m <= len
    OBVIOUS
  <1>1. PICK upTo : /\ upTo[0] = <<>>
                    /\ \A n \in 1..len :
                        upTo[n] = IF n \in places THEN Append(upTo[n - 1], s[n]) ELSE upTo[n - 1]
                    /\ RowsAt(s, places) = upTo[len]
    BY RowsAtFollows
  <1> HIDE DEF len
  <1> DEFINE From(n) == \A i \in 1..Len(upTo[n]) : \E a \in places : a <= n /\ upTo[n][i] = s[a]
             Ordered(n) == \A i, j \in 1..Len(upTo[n]) : i < j =>
                             \E a, b \in places : a < b /\ upTo[n][i] = s[a] /\ upTo[n][j] = s[b]
             Reached(n) == upTo[n] \in Seq(S) /\ From(n) /\ Ordered(n)
             T == {n \in Nat : n <= len => Reached(n)}
  <1>2. 0 \in T
    <2>1. upTo[0] = <<>> /\ 1..Len(<<>>) = {} /\ <<>> \in Seq(S)
      BY <1>1
    <2>2. Reached(0)
      BY <2>1
    <2> HIDE DEF Reached
    <2> QED
      BY <2>2
  <1>3. \A n \in T : n + 1 \in T
    <2> SUFFICES ASSUME NEW n \in Nat, n + 1 <= len, Reached(n)
                 PROVE  Reached(n + 1)
      <3> HIDE DEF Reached
      <3>1. \A n \in Nat : n + 1 <= len => n <= len
        BY <1>0
      <3> QED
        BY <3>1
    <2>1. n + 1 \in 1..len /\ (n + 1) - 1 = n
      BY <1>0
    <2>2. upTo[n + 1] = IF n + 1 \in places THEN Append(upTo[n], s[n + 1]) ELSE upTo[n]
      BY <1>1, <2>1
    <2>3. s[n + 1] \in S
      BY <1>0, <2>1
    <2> DEFINE old == upTo[n]
               new == upTo[n + 1]
    <2>4. CASE n + 1 \in places
      <3>1. /\ old \in Seq(S) /\ Len(old) \in Nat /\ new \in Seq(S) /\ Len(new) = Len(old) + 1
            /\ \A i \in 1..Len(old) : new[i] = old[i]
            /\ new[Len(old) + 1] = s[n + 1]
        <4>1. old \in Seq(S) /\ new = Append(old, s[n + 1])
          BY <2>2, <2>4
        <4> HIDE DEF old, new
        <4> QED
          BY <2>3, <4>1
      <3>2. \A i \in 1..Len(old) : \E a \in places : a <= n /\ old[i] = s[a]
        OBVIOUS
      <3>3. \A i, j \in 1..Len(old) : i < j => \E a, b \in places : a < b /\ old[i] = s[a] /\ old[j] = s[b]
        OBVIOUS
      <3> HIDE DEF old, new
      <3>4. ASSUME NEW i \in 1..Len(new)
            PROVE  i \in 1..Len(old) \/ i = Len(old) + 1
        BY <3>1
      <3>5. ASSUME NEW i \in 1..Len(new)
            PROVE  \E a \in places : a <= n + 1 /\ new[i] = s[a]
        <4>1. CASE i \in 1..Len(old)
          <5>1. PICK a \in places : a <= n /\ old[i] = s[a]
            BY <3>2, <4>1
          <5>2. a <= n + 1
            BY <1>0, <5>1
          <5> QED
            BY <3>1, <4>1, <5>1, <5>2
        <4>2. CASE i = Len(old) + 1
          BY <2>4, <3>1, <4>2
        <4> QED
          BY <3>4, <4>1, <4>2
      <3>6. ASSUME NEW i \in 1..Len(new), NEW j \in 1..Len(new), i < j
            PROVE  \E a, b \in places : a < b /\ new[i] = s[a] /\ new[j] = s[b]
        <4>1. i \in 1..Len(old)
          BY <3>1, <3>6
        <4>2. CASE j \in 1..Len(old)
          <5>1. PICK a \in places, b \in places : a < b /\ old[i] = s[a] /\ old[j] = s[b]
            BY <3>3, <3>6, <4>1, <4>2
          <5> QED
            BY <3>1, <4>1, <4>2, <5>1
        <4>3. CASE j = Len(old) + 1
          <5>1. PICK a \in places : a <= n /\ old[i] = s[a]
            BY <3>2, <4>1
          <5>2. a < n + 1
            BY <1>0, <5>1
          <5> QED
            BY <2>4, <3>1, <4>1, <4>3, <5>1, <5>2
        <4> QED
          BY <3>4, <4>2, <4>3
      <3>7. From(n + 1) /\ Ordered(n + 1)
        BY <3>5, <3>6 DEF new
      <3> QED
        BY <3>1, <3>7 DEF new
    <2>5. CASE n + 1 \notin places
      <3>1. upTo[n + 1] = upTo[n]
        BY <2>2, <2>5
      <3>2. \A a \in places : a <= n => a <= n + 1
        BY <1>0
      <3>3. From(n + 1)
        <4>1. From(n)
          OBVIOUS
        <4>2. ASSUME NEW i \in 1..Len(upTo[n])
              PROVE  \E a \in places : a <= n + 1 /\ upTo[n][i] = s[a]
          BY <3>2, <4>1
        <4> QED
          BY <3>1, <4>2
      <3>4. Ordered(n + 1)
        BY <3>1
      <3> HIDE DEF From, Ordered
      <3> QED
        BY <3>1, <3>3, <3>4
    <2> QED
      BY <2>4, <2>5
  <1>4. len \in T
    <2>1. T \in SUBSET Nat
      OBVIOUS
    <2> HIDE DEF T
    <2> QED
      BY <1>0, <1>2, <1>3, <2>1, NaturalInduction
  <1>5. Ordered(len)
    <2> HIDE DEF Ordered, From
    <2> QED
      BY <1>0, <1>4
  <1> QED
    BY <1>1, <1>5

(* No element twice: what of a list that is filtered or continued.          *)
Distinct(s) == \A i, j \in 1..Len(s) : i < j => s[i] # s[j]

LEMMA RowsAtDistinct ==
  ASSUME NEW S, NEW s \in Seq(S), NEW places \in SUBSET (1..Len(s)), Distinct(s)
  PROVE  Distinct(RowsAt(s, places))
  <1> DEFINE some == RowsAt(s, places)
  <1>1. ASSUME NEW i \in 1..Len(some), NEW j \in 1..Len(some), i < j
        PROVE  some[i] # some[j]
    <2>1. PICK a \in places, b \in places : a < b /\ some[i] = s[a] /\ some[j] = s[b]
      BY <1>1, RowsAtOrder
    <2> QED
      BY <2>1 DEF Distinct
  <1> QED
    BY <1>1 DEF Distinct

LEMMA ConcatDistinct ==
  ASSUME NEW S, NEW l \in Seq(S), NEW r \in Seq(S), Distinct(l), Distinct(r), Elements(l) \cap Elements(r) = {}
  PROVE  Distinct(l \o r)
  <1> DEFINE both == l \o r
  <1>1. /\ Len(both) = Len(l) + Len(r) /\ Len(l) \in Nat /\ Len(r) \in Nat
        /\ \A i \in 1..Len(l) + Len(r) : both[i] = IF i <= Len(l) THEN l[i] ELSE r[i - Len(l)]
    BY ConcatLen, ConcatAt
  <1> HIDE DEF both
  <1>2. ASSUME NEW i \in 1..Len(both), NEW j \in 1..Len(both), i < j
        PROVE  both[i] # both[j]
    <2>0. i \in Nat /\ j \in Nat /\ i \in 1..Len(l) + Len(r) /\ j \in 1..Len(l) + Len(r)
      BY <1>1
    <2>1. CASE j <= Len(l)
      <3>1. i \in 1..Len(l) /\ j \in 1..Len(l) /\ i <= Len(l)
        BY <1>1, <1>2, <2>0, <2>1
      <3>2. both[i] = l[i] /\ both[j] = l[j]
        BY <1>1, <2>0, <2>1, <3>1
      <3> QED
        BY <1>2, <3>1, <3>2 DEF Distinct
    <2>2. CASE i <= Len(l) /\ ~(j <= Len(l))
      <3>1. i \in 1..Len(l) /\ j - Len(l) \in 1..Len(r)
        BY <1>1, <2>0, <2>2
      <3>2. both[i] = l[i] /\ both[j] = r[j - Len(l)]
        BY <1>1, <2>0, <2>2
      <3>3. both[i] \in Elements(l) /\ both[j] \in Elements(r)
        BY <3>1, <3>2 DEF Elements
      <3> QED
        BY <3>3
    <2>3. CASE ~(i <= Len(l))
      <3>1. ~(j <= Len(l))
        BY <1>1, <1>2, <2>0, <2>3
      <3>2. i - Len(l) \in 1..Len(r) /\ j - Len(l) \in 1..Len(r) /\ i - Len(l) < j - Len(l)
        BY <1>1, <1>2, <2>0, <2>3, <3>1
      <3>3. both[i] = r[i - Len(l)] /\ both[j] = r[j - Len(l)]
        BY <1>1, <2>0, <2>3, <3>1
      <3> QED
        BY <3>2, <3>3 DEF Distinct
    <2> QED
      BY <1>1, <1>2, <2>0, <2>1, <2>2, <2>3
  <1> QED
    BY <1>2 DEF Distinct, both

LEMMA LenOfDomain ==
  ASSUME NEW S, NEW s \in Seq(S), NEW n \in Nat, DOMAIN s = 1..n
  PROVE  Len(s) = n
  <1> DEFINE len == Len(s)
  <1>1. len \in Nat /\ 1..len = 1..n
    OBVIOUS
  <1>2. \A a, b \in Nat : 1..a = 1..b => a <= b
    <2> SUFFICES ASSUME NEW a \in Nat, NEW b \in Nat, 1..a = 1..b, ~(a <= b)
                 PROVE  FALSE
      OBVIOUS
    <2>1. a \in 1..a /\ a \notin 1..b
      OBVIOUS
    <2> QED
      BY <2>1
  <1> HIDE DEF len
  <1>3. len <= n /\ n <= len
    BY <1>1, <1>2
  <1>4. len = n
    BY ONLY <1>1, <1>3
  <1> QED
    BY <1>4 DEF len

(* Lists told by their elements.                                           *)
LEMMA ListOf1 ==
  ASSUME NEW a
  PROVE  /\ <<a>> \in Seq({a}) /\ Elements(<<a>>) = {a}
         /\ Distinct(<<a>>)
  <1> DEFINE s == <<a>>
  <1>1. s \in Seq({a}) /\ Len(s) = 1 /\ s[1] = a
    OBVIOUS
  <1>2. 1..1 = {1}
    OBVIOUS
  <1> HIDE DEF s
  <1>3. Elements(s) = {a}
    BY <1>1, <1>2 DEF Elements
  <1>4. Distinct(s)
    BY <1>1, <1>2 DEF Distinct
  <1> QED
    BY <1>1, <1>3, <1>4 DEF s

LEMMA ListOf2 ==
  ASSUME NEW a, NEW b
  PROVE  /\ <<a, b>> \in Seq({a, b}) /\ Elements(<<a, b>>) = {a, b}
         /\ a # b => Distinct(<<a, b>>)
  <1> DEFINE s == <<a, b>>
  <1>1. s \in Seq({a, b}) /\ Len(s) = 2 /\ s[1] = a /\ s[2] = b
    OBVIOUS
  <1>2. 1..2 = {1, 2}
    OBVIOUS
  <1> HIDE DEF s
  <1>3. Elements(s) = {a, b}
    BY <1>1, <1>2 DEF Elements
  <1>4. ASSUME a # b
        PROVE  Distinct(s)
    BY <1>1, <1>2, <1>4 DEF Distinct
  <1> QED
    BY <1>1, <1>3, <1>4 DEF s

LEMMA ListOf3 ==
  ASSUME NEW a, NEW b, NEW c
  PROVE  /\ <<a, b, c>> \in Seq({a, b, c}) /\ Elements(<<a, b, c>>) = {a, b, c}
         /\ a # b /\ a # c /\ b # c => Distinct(<<a, b, c>>)
  <1> DEFINE s == <<a, b, c>>
  <1>1. s \in Seq({a, b, c}) /\ Len(s) = 3 /\ s[1] = a /\ s[2] = b /\ s[3] = c
    OBVIOUS
  <1>2. 1..3 = {1, 2, 3}
    OBVIOUS
  <1> HIDE DEF s
  <1>3. Elements(s) = {a, b, c}
    BY <1>1, <1>2 DEF Elements
  <1>4. ASSUME a # b, a # c, b # c
        PROVE  Distinct(s)
    BY <1>1, <1>2, <1>4 DEF Distinct
  <1> QED
    BY <1>1, <1>3, <1>4 DEF s

LEMMA ListOf4 ==
  ASSUME NEW a, NEW b, NEW c, NEW d
  PROVE  /\ <<a, b, c, d>> \in Seq({a, b, c, d}) /\ Elements(<<a, b, c, d>>) = {a, b, c, d}
         /\ a # b /\ a # c /\ a # d /\ b # c /\ b # d
            /\ c # d => Distinct(<<a, b, c, d>>)
  <1> DEFINE s == <<a, b, c, d>>
  <1>1. s \in Seq({a, b, c, d}) /\ Len(s) = 4 /\ s[1] = a /\ s[2] = b /\ s[3] = c /\ s[4] = d
    OBVIOUS
  <1>2. 1..4 = {1, 2, 3, 4}
    OBVIOUS
  <1> HIDE DEF s
  <1>3. Elements(s) = {a, b, c, d}
    BY <1>1, <1>2 DEF Elements
  <1>4. ASSUME a # b, a # c, a # d, b # c, b # d, c # d
        PROVE  Distinct(s)
    BY <1>1, <1>2, <1>4 DEF Distinct
  <1> QED
    BY <1>1, <1>3, <1>4 DEF s

LEMMA ListOf5 ==
  ASSUME NEW a, NEW b, NEW c, NEW d, NEW e
  PROVE  /\ <<a, b, c, d, e>> \in Seq({a, b, c, d, e}) /\ Elements(<<a, b, c, d, e>>) = {a, b, c, d, e}
         /\ a # b /\ a # c /\ a # d /\ a # e /\ b # c
            /\ b # d /\ b # e /\ c # d /\ c # e /\ d # e => Distinct(<<a, b, c, d, e>>)
  <1> DEFINE s == <<a, b, c, d, e>>
  <1>1. s \in Seq({a, b, c, d, e}) /\ Len(s) = 5 /\ s[1] = a /\ s[2] = b /\ s[3] = c /\ s[4] = d /\ s[5] = e
    OBVIOUS
  <1>2. 1..5 = {1, 2, 3, 4, 5}
    OBVIOUS
  <1> HIDE DEF s
  <1>3. Elements(s) = {a, b, c, d, e}
    BY <1>1, <1>2 DEF Elements
  <1>4. ASSUME a # b, a # c, a # d, a # e, b # c, b # d, b # e, c # d, c # e, d # e
        PROVE  Distinct(s)
    BY <1>1, <1>2, <1>4 DEF Distinct
  <1> QED
    BY <1>1, <1>3, <1>4 DEF s

LEMMA SeqOfMore ==
  ASSUME NEW S, NEW T, S \subseteq T, NEW s \in Seq(S)
  PROVE  s \in Seq(T)
  OBVIOUS

LEMMA DistinctIs ==
  ASSUME NEW S, NEW s \in Seq(S), Distinct(s)
  PROVE  IsInjective(s) /\ Range(s) = Elements(s)
  <1>1. DOMAIN s = 1..Len(s) /\ Len(s) \in Nat
    OBVIOUS
  <1>2. ASSUME NEW i \in 1..Len(s), NEW j \in 1..Len(s), s[i] = s[j]
        PROVE  i = j
    <2>1. ~(i < j) /\ ~(j < i)
      BY <1>2 DEF Distinct
    <2> QED
      BY <1>1, <2>1
  <1> QED
    BY <1>1, <1>2 DEF IsInjective, Range, Elements

(* A set told as a list.                                                   *)
LEMMA EnumeratedOnce ==
  ASSUME NEW S, IsFiniteSet(S)
  PROVE  SetToSeq(S) \in Seq(S)
  <1>1. Cardinality(S) \in Nat /\ ExistsBijection(1..Cardinality(S), S)
    BY FS_CardinalityType
  <1>2. \E f \in [1..Cardinality(S) -> S] : IsInjective(f)
    <2>1. PICK f : f \in Bijection(1..Cardinality(S), S)
      BY <1>1 DEF ExistsBijection
    <2>2. f \in [1..Cardinality(S) -> S] /\ \A a, b \in DOMAIN f : f[a] = f[b] => a = b
      BY <2>1 DEF Bijection, Injection, IsInjective
    <2> QED
      BY <2>2 DEF IsInjective
  <1>3. SetToSeq(S) \in [1..Cardinality(S) -> S]
    BY <1>2 DEF SetToSeq
  <1> QED
    BY <1>1, <1>3, SeqDef
=============================================================================
