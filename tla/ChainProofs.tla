---------------------------- MODULE ChainProofs ----------------------------
(***************************************************************************)
(* Facts about chains of rules and about the sequence operators the        *)
(* commands of Iptables are built from, for sequences of every length.     *)
(***************************************************************************)
EXTENDS Iptables, SequenceTheorems, FiniteSetTheorems, WellFoundedInduction,
        NaturalsInduction, TLAPS

-----------------------------------------------------------------------------
(* Numbers and positions                                                   *)

(* A non-empty set of natural numbers has a least element, and Min is it.  *)
LEMMA MinIsLeast ==
    ASSUME NEW I, I \subseteq Nat, I # {}
    PROVE  Min(I) \in I /\ \A y \in I : Min(I) <= y
<1> DEFINE R == OpToRel(<, Nat)
<1>1. PICK x \in I : \A y \in I : <<y, x>> \notin R
  <2>1. IsWellFoundedOn(R, Nat)
    BY NatLessThanWellFounded
  <2> HIDE DEF R
  <2> QED
    BY <2>1, WFMin
<1>2. ASSUME NEW y \in I PROVE x <= y
  <2>1. ~(y < x)
    BY <1>1 DEF OpToRel
  <2> QED
    BY <2>1
<1> QED
  BY <1>2 DEF Min

LEMMA ListTyped ==
    ASSUME NEW S, NEW n \in Nat, NEW t \in [1..n -> S]
    PROVE  t \in Seq(S) /\ Len(t) = n
  OBVIOUS

(* Concatenation, by lines.                                                *)
LEMMA ConcatLines ==
    ASSUME NEW S, NEW s \in Seq(S), NEW t \in Seq(S)
    PROVE  /\ s \o t \in Seq(S)
           /\ Len(s \o t) = Len(s) + Len(t)
           /\ \A i \in 1..Len(s) : (s \o t)[i] = s[i]
           /\ \A i \in 1..Len(t) : (s \o t)[i + Len(s)] = t[i]
  OBVIOUS

(* Deleting line i: the lines before it stay, those after it move up.      *)
LEMMA RemoveAtLines ==
    ASSUME NEW S, NEW s \in Seq(S), NEW i \in 1..Len(s)
    PROVE  /\ RemoveAt(s, i) \in Seq(S)
           /\ Len(RemoveAt(s, i)) = Len(s) - 1
           /\ \A j \in 1..(i - 1) : RemoveAt(s, i)[j] = s[j]
           /\ \A j \in i..(Len(s) - 1) : RemoveAt(s, i)[j] = s[j + 1]
<1> DEFINE a == SubSeq(s, 1, i - 1)
           b == SubSeq(s, i + 1, Len(s))
<1>0. Len(s) \in Nat /\ \A j \in 1..Len(s) : s[j] \in S
  OBVIOUS
<1>1. a \in Seq(S) /\ Len(a) = i - 1 /\ \A j \in 1..(i - 1) : a[j] = s[j]
  <2>1. \A j \in 1..(i - 1) : s[j] \in S
    BY <1>0
  <2> QED
    BY <2>1, <1>0, SubSeqProperties
<1>2. b \in Seq(S) /\ Len(b) = Len(s) - i /\ \A j \in 1..(Len(s) - i) : b[j] = s[j + i]
  <2>1. \A j \in (i + 1)..Len(s) : s[j] \in S
    BY <1>0
  <2> QED
    BY <2>1, <1>0, SubSeqProperties
<1> HIDE DEF a, b
<1>3. /\ a \o b \in Seq(S) /\ Len(a \o b) = Len(s) - 1
      /\ \A j \in 1..(i - 1) : (a \o b)[j] = a[j]
      /\ \A j \in 1..(Len(s) - i) : (a \o b)[j + (i - 1)] = b[j]
  <2>1. /\ a \o b \in Seq(S) /\ Len(a \o b) = Len(a) + Len(b)
        /\ \A j \in 1..Len(a) : (a \o b)[j] = a[j]
        /\ \A j \in 1..Len(b) : (a \o b)[j + Len(a)] = b[j]
    <3>1. a \in Seq(S) /\ b \in Seq(S)
      BY <1>1, <1>2
    <3> QED
      BY <3>1, ConcatLines
  <2> QED
    BY <2>1, <1>0, <1>1, <1>2
<1>4. ASSUME NEW j \in i..(Len(s) - 1) PROVE (a \o b)[j] = s[j + 1]
  <2>1. j - (i - 1) \in 1..(Len(s) - i) /\ j = (j - (i - 1)) + (i - 1)
    BY <1>0
  <2>2. (a \o b)[j] = b[j - (i - 1)]
    BY <2>1, <1>3
  <2>3. (j - (i - 1)) + i = j + 1
    BY <1>0
  <2> QED
    BY <2>1, <2>2, <2>3, <1>2
<1> QED
  BY <1>1, <1>3, <1>4 DEF RemoveAt, a, b

(* Inserting at line i: the lines from i on move down.                     *)
LEMMA InsertAtLines ==
    ASSUME NEW S, NEW s \in Seq(S), NEW i \in 1..(Len(s) + 1), NEW e \in S
    PROVE  /\ InsertAt(s, i, e) \in Seq(S)
           /\ Len(InsertAt(s, i, e)) = Len(s) + 1
           /\ \A j \in 1..(i - 1) : InsertAt(s, i, e)[j] = s[j]
           /\ InsertAt(s, i, e)[i] = e
           /\ \A j \in i..Len(s) : InsertAt(s, i, e)[j + 1] = s[j]
<1> DEFINE a == SubSeq(s, 1, i - 1)
           b == SubSeq(s, i, Len(s))
           c == a \o <<e>>
<1>0. Len(s) \in Nat /\ \A j \in 1..Len(s) : s[j] \in S
  OBVIOUS
<1>1. a \in Seq(S) /\ Len(a) = i - 1 /\ \A j \in 1..(i - 1) : a[j] = s[j]
  <2>1. \A j \in 1..(i - 1) : s[j] \in S
    BY <1>0
  <2> QED
    BY <2>1, <1>0, SubSeqProperties
<1>2. b \in Seq(S) /\ Len(b) = Len(s) - (i - 1)
      /\ \A j \in 1..(Len(s) - (i - 1)) : b[j] = s[j + (i - 1)]
  <2>1. \A j \in i..Len(s) : s[j] \in S
    BY <1>0
  <2> QED
    BY <2>1, <1>0, SubSeqProperties
<1> HIDE DEF a, b
<1>3. /\ c \in Seq(S) /\ Len(c) = i /\ c[i] = e
      /\ \A j \in 1..(i - 1) : c[j] = a[j]
  BY <1>0, <1>1
<1> HIDE DEF c
<1>4. /\ c \o b \in Seq(S) /\ Len(c \o b) = Len(s) + 1
      /\ \A j \in 1..i : (c \o b)[j] = c[j]
      /\ \A j \in 1..(Len(s) - (i - 1)) : (c \o b)[j + i] = b[j]
  BY <1>0, <1>2, <1>3
<1>5. ASSUME NEW j \in i..Len(s) PROVE (c \o b)[j + 1] = s[j]
  <2>1. j - (i - 1) \in 1..(Len(s) - (i - 1)) /\ j + 1 = (j - (i - 1)) + i
    BY <1>0
  <2>2. (c \o b)[j + 1] = b[j - (i - 1)]
    BY <2>1, <1>4
  <2>3. (j - (i - 1)) + (i - 1) = j
    BY <1>0
  <2> QED
    BY <2>1, <2>2, <2>3, <1>2
<1>6. \A j \in 1..(i - 1) : (c \o b)[j] = s[j]
  BY <1>0, <1>1, <1>3, <1>4
<1>7. (c \o b)[i] = e
  BY <1>0, <1>3, <1>4
<1>8. InsertAt(s, i, e) = c \o b
  BY DEF InsertAt, a, b, c
<1> QED
  BY <1>4, <1>5, <1>6, <1>7, <1>8

-----------------------------------------------------------------------------
(* Flattening a sequence of sequences                                      *)

(* f holds the flattening of each of the first n prefixes of ss.           *)
Flattens(f, ss, n) ==
    f = [i \in 1..n |-> IF i = 1 THEN ss[i] ELSE f[i - 1] \o ss[i]]

(* There is such a function for every number of prefixes.                  *)
LEMMA FlattensExists ==
    ASSUME NEW S, NEW ss \in Seq(Seq(S))
    PROVE  \A n \in 0..Len(ss) :
               \E f : Flattens(f, ss, n) /\ \A i \in 1..n : f[i] \in Seq(S)
<1> DEFINE Has(n) == \E f : Flattens(f, ss, n) /\ \A i \in 1..n : f[i] \in Seq(S)
           Bad == {n \in 0..Len(ss) : ~Has(n)}
<1>1. Has(0)
  <2> DEFINE f == [i \in 1..0 |-> IF i = 1 THEN ss[i] ELSE <<>>]
  <2>1. f = [i \in 1..0 |-> IF i = 1 THEN ss[i] ELSE f[i - 1] \o ss[i]]
    OBVIOUS
  <2> HIDE DEF f
  <2> QED
    BY <2>1 DEF Flattens
<1>2. ASSUME NEW n \in 1..Len(ss), Has(n - 1) PROVE Has(n)
  <2>1. PICK f : Flattens(f, ss, n - 1) /\ \A i \in 1..(n - 1) : f[i] \in Seq(S)
    BY <1>2
  <2> DEFINE last == IF n = 1 THEN ss[n] ELSE f[n - 1] \o ss[n]
             g == [i \in 1..n |-> IF i = n THEN last ELSE f[i]]
  <2>2. \A i \in 1..Len(ss) : ss[i] \in Seq(S)
    OBVIOUS
  <2>3. last \in Seq(S)
    <3>1. CASE n = 1
      BY <3>1, <2>2
    <3>2. CASE n # 1
      <4>1. f[n - 1] \in Seq(S) /\ ss[n] \in Seq(S)
        BY <3>2, <2>1, <2>2
      <4>2. f[n - 1] \o ss[n] \in Seq(S)
        BY <4>1, ConcatLines
      <4> QED
        BY <4>2, <3>2
    <3> QED
      BY <3>1, <3>2
  <2>4. ASSUME NEW i \in 1..n
        PROVE  g[i] = IF i = 1 THEN ss[i] ELSE g[i - 1] \o ss[i]
    <3>1. CASE i = n
      BY <3>1
    <3>2. CASE i # n
      <4>1. i \in 1..(n - 1)
        BY <3>2
      <4>2. f[i] = IF i = 1 THEN ss[i] ELSE f[i - 1] \o ss[i]
        BY <4>1, <2>1 DEF Flattens
      <4>3. i # 1 => g[i - 1] = f[i - 1]
        BY <4>1
      <4> QED
        BY <4>1, <4>2, <4>3
    <3> QED
      BY <3>1, <3>2
  <2>5. DOMAIN g = 1..n /\ g = [i \in 1..n |-> g[i]]
    OBVIOUS
  <2>6. \A i \in 1..n : g[i] \in Seq(S)
    BY <2>1, <2>3
  <2> HIDE DEF g
  <2>7. g = [i \in 1..n |-> IF i = 1 THEN ss[i] ELSE g[i - 1] \o ss[i]]
    BY <2>4, <2>5
  <2> QED
    BY <2>6, <2>7 DEF Flattens
<1> HIDE DEF Has
<1>3. Bad = {}
  <2> SUFFICES ASSUME Bad # {} PROVE FALSE
    OBVIOUS
  <2>1. Bad \subseteq Nat
    OBVIOUS
  <2>2. Min(Bad) \in Bad /\ \A y \in Bad : Min(Bad) <= y
    <3> HIDE DEF Bad
    <3> QED
      BY <2>1, MinIsLeast
  <2>3. PICK m \in Bad : \A y \in Bad : m <= y
    BY <2>2
  <2>4. m \in 1..Len(ss) /\ m - 1 \notin Bad
    BY <2>3, <1>1
  <2> QED
    BY <2>3, <2>4, <1>2
<1> QED
  BY <1>3 DEF Has

(* What FlattenSeq chooses is one.                                         *)
LEMMA FlattenSeqValue ==
    ASSUME NEW S, NEW ss \in Seq(Seq(S)), ss # <<>>
    PROVE  \E f : Flattens(f, ss, Len(ss)) /\ FlattenSeq(ss) = f[Len(ss)]
<1>1. Len(ss) \in Nat /\ Len(ss) # 0
  OBVIOUS
<1>2. \E f : Flattens(f, ss, Len(ss))
  BY <1>1, FlattensExists
<1> DEFINE h == CHOOSE f : f = [i \in 1..Len(ss) |-> IF i = 1 THEN ss[i] ELSE f[i - 1] \o ss[i]]
<1>3. Flattens(h, ss, Len(ss))
  BY <1>2 DEF Flattens
<1>4. FlattenSeq(ss) = h[Len(ss)]
  BY <1>1 DEF FlattenSeq
<1> HIDE DEF h
<1> QED
  BY <1>3, <1>4

LEMMA FlattensLines ==
    ASSUME NEW f, NEW ss, NEW n, Flattens(f, ss, n), NEW i \in 1..n
    PROVE  f[i] = IF i = 1 THEN ss[i] ELSE f[i - 1] \o ss[i]
  BY DEF Flattens

(* Functions that flatten the same prefixes agree on them.                 *)
LEMMA FlattensAgree ==
    ASSUME NEW S, NEW ss \in Seq(Seq(S)), NEW tt \in Seq(Seq(S)),
           Len(ss) <= Len(tt),
           \A i \in 1..Len(ss) : ss[i] = tt[i],
           NEW f, NEW g, Flattens(f, ss, Len(ss)), Flattens(g, tt, Len(tt))
    PROVE  \A i \in 1..Len(ss) : f[i] = g[i]
<1> DEFINE n == Len(ss)
           m == Len(tt)
<1> DEFINE Bad == {i \in 1..n : f[i] # g[i]}
<1> SUFFICES ASSUME Bad # {} PROVE FALSE
  OBVIOUS
<1>1. Bad \subseteq Nat
  OBVIOUS
<1>2. Min(Bad) \in Bad /\ \A y \in Bad : Min(Bad) <= y
  <2> HIDE DEF Bad
  <2> QED
    BY <1>1, MinIsLeast
<1>3. PICK k \in Bad : \A y \in Bad : k <= y
  BY <1>2
<1>4. /\ f[k] = IF k = 1 THEN ss[k] ELSE f[k - 1] \o ss[k]
      /\ g[k] = IF k = 1 THEN tt[k] ELSE g[k - 1] \o tt[k]
      /\ ss[k] = tt[k]
  <2>1. k \in 1..n /\ k \in 1..m
    OBVIOUS
  <2> QED
    BY <2>1, FlattensLines
<1>5. k # 1 => f[k - 1] = g[k - 1]
  <2>1. k # 1 => k - 1 \in 1..n /\ k - 1 \notin Bad
    BY <1>3
  <2> QED
    BY <2>1
<1> QED
  BY <1>4, <1>5

LEMMA FlattenEmpty == FlattenSeq(<<>>) = <<>>
  BY DEF FlattenSeq

LEMMA FlattenTyped ==
    ASSUME NEW S, NEW ss \in Seq(Seq(S))
    PROVE  FlattenSeq(ss) \in Seq(S)
<1>1. CASE ss = <<>>
  <2>1. FlattenSeq(ss) = <<>>
    BY <1>1, FlattenEmpty
  <2> QED
    BY <2>1
<1>2. CASE ss # <<>>
  <2>1. Len(ss) \in 1..Len(ss) /\ Len(ss) \in 0..Len(ss) /\ Len(ss) \in Nat
    BY <1>2
  <2>2. PICK f : Flattens(f, ss, Len(ss)) /\ FlattenSeq(ss) = f[Len(ss)]
    BY <1>2, FlattenSeqValue
  <2>3. PICK g : Flattens(g, ss, Len(ss)) /\ \A i \in 1..Len(ss) : g[i] \in Seq(S)
    BY <2>1, FlattensExists
  <2>4. f[Len(ss)] = g[Len(ss)]
    <3>1. Len(ss) <= Len(ss)
      BY <2>1
    <3>2. \A i \in 1..Len(ss) : f[i] = g[i]
      BY <3>1, <2>2, <2>3, FlattensAgree
    <3> QED
      BY <2>1, <3>2
  <2> QED
    BY <2>1, <2>2, <2>3, <2>4
<1> QED
  BY <1>1, <1>2

(* The last of the sequences comes last.                                   *)
LEMMA FlattenAppend ==
    ASSUME NEW S, NEW ss \in Seq(Seq(S)), NEW s \in Seq(S)
    PROVE  FlattenSeq(Append(ss, s)) = FlattenSeq(ss) \o s
<1> DEFINE tt == Append(ss, s)
<1>1. /\ tt \in Seq(Seq(S)) /\ tt # <<>> /\ Len(tt) = Len(ss) + 1
      /\ \A i \in 1..Len(ss) : ss[i] = tt[i]
      /\ tt[Len(ss) + 1] = s
      /\ Len(ss) \in Nat
  BY AppendProperties
<1> HIDE DEF tt
<1>2. PICK g : Flattens(g, tt, Len(tt)) /\ FlattenSeq(tt) = g[Len(tt)]
  BY <1>1, FlattenSeqValue
<1>3. g[Len(tt)] = IF Len(tt) = 1 THEN tt[Len(tt)] ELSE g[Len(tt) - 1] \o tt[Len(tt)]
  <2>1. Len(tt) \in 1..Len(tt)
    BY <1>1
  <2> QED
    BY <1>2, <2>1 DEF Flattens
<1>4. CASE ss = <<>>
  <2>1. FlattenSeq(ss) \o s = s
    BY <1>4, FlattenEmpty
  <2>2. FlattenSeq(tt) = s
    BY <1>1, <1>2, <1>3, <1>4
  <2> QED
    BY <2>1, <2>2 DEF tt
<1>5. CASE ss # <<>>
  <2>1. PICK f : Flattens(f, ss, Len(ss)) /\ FlattenSeq(ss) = f[Len(ss)]
    BY <1>5, FlattenSeqValue
  <2>2. Len(ss) \in 1..Len(ss) /\ Len(ss) <= Len(tt) /\ Len(tt) \in Nat
    BY <1>1, <1>5
  <2>3. \A i \in 1..Len(ss) : f[i] = g[i]
    <3>1. /\ tt \in Seq(Seq(S)) /\ Len(ss) <= Len(tt)
          /\ \A i \in 1..Len(ss) : ss[i] = tt[i]
          /\ Flattens(f, ss, Len(ss)) /\ Flattens(g, tt, Len(tt))
      BY <1>1, <1>2, <2>1, <2>2
    <3> QED
      BY <3>1, FlattensAgree
  <2>4. FlattenSeq(tt) = f[Len(ss)] \o s
    <3>1. Len(tt) # 1 /\ Len(tt) - 1 = Len(ss) /\ tt[Len(tt)] = s
      BY <1>1, <2>2
    <3>2. g[Len(tt)] = g[Len(ss)] \o s
      BY <1>3, <3>1
    <3> QED
      BY <1>2, <2>2, <2>3, <3>2
  <2> QED
    BY <2>1, <2>4 DEF tt
<1> QED
  BY <1>4, <1>5

LEMMA ConcatAppend ==
    ASSUME NEW S, NEW s \in Seq(S), NEW t \in Seq(S), NEW e \in S
    PROVE  s \o Append(t, e) = Append(s \o t, e)
<1> DEFINE u == s \o Append(t, e)
           v == Append(s \o t, e)
<1>1. Append(t, e) \in Seq(S) /\ s \o t \in Seq(S)
  BY AppendProperties, ConcatLines
<1>2. u \in Seq(S) /\ v \in Seq(S) /\ Len(u) = Len(v)
  BY <1>1, AppendProperties, ConcatLines
<1>3. \A i \in 1..Len(u) : u[i] = v[i]
  OBVIOUS
<1> HIDE DEF u, v
<1>4. u = v
  BY <1>2, <1>3
<1> QED
  BY <1>4 DEF u, v

LEMMA ConcatAssoc ==
    ASSUME NEW S, NEW s \in Seq(S), NEW t \in Seq(S), NEW u \in Seq(S)
    PROVE  (s \o t) \o u = s \o (t \o u)
  BY ConcatAssociative

(* Induction on the last element of a sequence, over a set A of sequences. *)
LEMMA SeqInduction ==
    ASSUME NEW S, NEW A, <<>> \in A,
           \A s \in Seq(S), e \in S : s \in A => Append(s, e) \in A
    PROVE  \A s \in Seq(S) : s \in A
<1> DEFINE Bad == {Len(s) : s \in Seq(S) \ A}
<1> SUFFICES ASSUME NEW w \in Seq(S), w \notin A PROVE FALSE
  OBVIOUS
<1>1. Bad # {} /\ Bad \subseteq Nat
  <2>1. w \in Seq(S) \ A
    OBVIOUS
  <2>2. Len(w) \in Bad
    BY <2>1
  <2>3. \A s \in Seq(S) : Len(s) \in Nat
    OBVIOUS
  <2> QED
    BY <2>2, <2>3
<1>2. PICK n \in Bad : \A y \in Bad : n <= y
  <2> HIDE DEF Bad
  <2> QED
    BY <1>1, MinIsLeast
<1>3. PICK v \in Seq(S) \ A : n = Len(v)
  OBVIOUS
<1>4. v # <<>> /\ v \in Seq(S) /\ v \notin A
  BY <1>3
<1>5. PICK u \in Seq(S), e \in S : v = Append(u, e)
  BY <1>4, SequenceEmptyOrAppend
<1>6. u \in Seq(S) \ A
  BY <1>4, <1>5
<1>7. Len(u) \in Bad
  BY <1>6
<1>8. Len(v) = Len(u) + 1 /\ Len(u) \in Nat
  BY <1>5, AppendProperties
<1>9. n <= Len(u)
  BY <1>2, <1>7
<1> QED
  BY <1>3, <1>8, <1>9

(* Flattening is compositional.                                            *)
LEMMA FlattenConcat ==
    ASSUME NEW S, NEW ss \in Seq(Seq(S)), NEW tt \in Seq(Seq(S))
    PROVE  FlattenSeq(ss \o tt) = FlattenSeq(ss) \o FlattenSeq(tt)
<1> DEFINE Holds(uu) == FlattenSeq(ss \o uu) = FlattenSeq(ss) \o FlattenSeq(uu)
           A == {uu \in Seq(Seq(S)) : Holds(uu)}
<1>1. <<>> \in A
  <2>1. ss \o <<>> = ss /\ <<>> \in Seq(Seq(S))
    OBVIOUS
  <2>2. FlattenSeq(ss) \in Seq(S)
    BY FlattenTyped
  <2>3. FlattenSeq(ss) \o <<>> = FlattenSeq(ss)
    BY <2>2
  <2> QED
    BY <2>1, <2>3, FlattenEmpty
<1>2. ASSUME NEW uu \in Seq(Seq(S)), uu \in A, NEW e \in Seq(S) PROVE Append(uu, e) \in A
  <2>1. ss \o Append(uu, e) = Append(ss \o uu, e)
    BY ConcatAppend
  <2>2. ss \o uu \in Seq(Seq(S)) /\ Append(uu, e) \in Seq(Seq(S))
    BY ConcatLines, AppendProperties
  <2>3. FlattenSeq(Append(ss \o uu, e)) = FlattenSeq(ss \o uu) \o e
    BY <2>2, FlattenAppend
  <2>4. FlattenSeq(Append(uu, e)) = FlattenSeq(uu) \o e
    BY FlattenAppend
  <2>5. FlattenSeq(ss) \in Seq(S) /\ FlattenSeq(uu) \in Seq(S)
    BY FlattenTyped
  <2>6. (FlattenSeq(ss) \o FlattenSeq(uu)) \o e = FlattenSeq(ss) \o (FlattenSeq(uu) \o e)
    BY <2>5, ConcatAssoc
  <2>7. Holds(uu)
    BY <1>2
  <2>8. Holds(Append(uu, e))
    BY <2>1, <2>3, <2>4, <2>6, <2>7
  <2> QED
    BY <2>2, <2>8
<1>3. tt \in A
  <2> HIDE DEF A
  <2> QED
    BY <1>1, <1>2, SeqInduction
<1> QED
  BY <1>3

LEMMA FlattenSingle ==
    ASSUME NEW S, NEW s \in Seq(S)
    PROVE  FlattenSeq(<<s>>) = s
<1>1. <<>> \in Seq(Seq(S)) /\ Append(<<>>, s) = <<s>>
  OBVIOUS
<1>2. FlattenSeq(Append(<<>>, s)) = FlattenSeq(<<>>) \o s
  BY <1>1, FlattenAppend
<1> QED
  BY <1>1, <1>2, FlattenEmpty

LEMMA AppendPair ==
    ASSUME NEW T, NEW x \in T, NEW y \in T
    PROVE  <<x>> \in Seq(T) /\ Append(<<x>>, y) = <<x, y>>
<1> DEFINE u == Append(<<x>>, y)
           v == <<x, y>>
<1>1. <<x>> \in Seq(T) /\ Len(<<x>>) = 1
  OBVIOUS
<1>2. u \in Seq(T) /\ Len(u) = 2 /\ u[1] = x /\ u[2] = y
  BY <1>1, AppendProperties
<1>3. v \in Seq(T) /\ Len(v) = 2 /\ v[1] = x /\ v[2] = y
  OBVIOUS
<1> HIDE DEF u, v
<1>4. u = v
  BY <1>2, <1>3
<1> QED
  BY <1>1, <1>4 DEF u, v

LEMMA ConcatPair ==
    ASSUME NEW x, NEW y
    PROVE  <<x>> \o <<y>> = <<x, y>>
<1> DEFINE T == {x, y}
<1>1. x \in T /\ y \in T
  OBVIOUS
<1> HIDE DEF T
<1>2. <<x>> \in Seq(T) /\ Append(<<x>>, y) = <<x, y>>
  BY <1>1, AppendPair
<1>3. Append(<<x>>, y) = <<x>> \o <<y>>
  BY <1>1, <1>2, AppendIsConcat
<1> QED
  BY <1>2, <1>3

LEMMA FlattenPair ==
    ASSUME NEW S, NEW s \in Seq(S), NEW t \in Seq(S)
    PROVE  FlattenSeq(<<s, t>>) = s \o t
<1>1. <<s>> \in Seq(Seq(S)) /\ Append(<<s>>, t) = <<s, t>>
  BY AppendPair
<1>2. FlattenSeq(Append(<<s>>, t)) = FlattenSeq(<<s>>) \o t
  BY <1>1, FlattenAppend
<1> QED
  BY <1>1, <1>2, FlattenSingle

-----------------------------------------------------------------------------
(* The elements of a sequence                                              *)

LEMMA ToSetMember ==
    ASSUME NEW S, NEW s \in Seq(S)
    PROVE  /\ ToSet(s) \subseteq S
           /\ \A i \in 1..Len(s) : s[i] \in ToSet(s)
           /\ \A e \in ToSet(s) : \E i \in 1..Len(s) : e = s[i]
  BY DEF ToSet

LEMMA ToSetConcat ==
    ASSUME NEW S, NEW s \in Seq(S), NEW t \in Seq(S)
    PROVE  ToSet(s \o t) = ToSet(s) \cup ToSet(t)
<1>1. s \o t \in Seq(S) /\ Len(s \o t) = Len(s) + Len(t)
  BY ConcatLines
<1>2. ASSUME NEW e \in ToSet(s \o t) PROVE e \in ToSet(s) \cup ToSet(t)
  <2>1. PICK i \in 1..Len(s \o t) : e = (s \o t)[i]
    BY <1>1, ToSetMember
  <2>2. CASE i \in 1..Len(s)
    BY <2>1, <2>2, ConcatLines, ToSetMember
  <2>3. CASE i \notin 1..Len(s)
    <3>1. i - Len(s) \in 1..Len(t) /\ i = (i - Len(s)) + Len(s)
      BY <2>3, <1>1
    <3>2. e = t[i - Len(s)]
      BY <2>1, <3>1, ConcatLines
    <3> QED
      BY <3>1, <3>2, ToSetMember
  <2> QED
    BY <2>2, <2>3
<1>3. ASSUME NEW e \in ToSet(s) PROVE e \in ToSet(s \o t)
  <2>1. PICK i \in 1..Len(s) : e = s[i]
    BY ToSetMember
  <2>2. e = (s \o t)[i] /\ i \in 1..Len(s \o t)
    BY <1>1, <2>1, ConcatLines
  <2> QED
    BY <1>1, <2>2, ToSetMember
<1>4. ASSUME NEW e \in ToSet(t) PROVE e \in ToSet(s \o t)
  <2>1. PICK i \in 1..Len(t) : e = t[i]
    BY ToSetMember
  <2>2. e = (s \o t)[i + Len(s)] /\ i + Len(s) \in 1..Len(s \o t)
    BY <1>1, <2>1, ConcatLines
  <2> QED
    BY <1>1, <2>2, ToSetMember
<1> QED
  BY <1>2, <1>3, <1>4

LEMMA ToSetAppend ==
    ASSUME NEW S, NEW s \in Seq(S), NEW e \in S
    PROVE  ToSet(Append(s, e)) = ToSet(s) \cup {e}
<1>1. Append(s, e) = s \o <<e>> /\ <<e>> \in Seq(S)
  BY AppendIsConcat
<1>2. ToSet(<<e>>) = {e}
  BY DEF ToSet
<1>3. ToSet(s \o <<e>>) = ToSet(s) \cup ToSet(<<e>>)
  BY <1>1, ToSetConcat
<1> QED
  BY <1>1, <1>2, <1>3

LEMMA ToSetFlatten ==
    ASSUME NEW S, NEW ss \in Seq(Seq(S))
    PROVE  ToSet(FlattenSeq(ss)) = UNION {ToSet(s) : s \in ToSet(ss)}
<1> DEFINE Holds(uu) == ToSet(FlattenSeq(uu)) = UNION {ToSet(s) : s \in ToSet(uu)}
           A == {uu \in Seq(Seq(S)) : Holds(uu)}
<1>1. <<>> \in A
  <2>1. ToSet(<<>>) = {}
    BY DEF ToSet
  <2>2. <<>> \in Seq(Seq(S))
    OBVIOUS
  <2> QED
    BY <2>1, <2>2, FlattenEmpty
<1>2. ASSUME NEW uu \in Seq(Seq(S)), uu \in A, NEW e \in Seq(S) PROVE Append(uu, e) \in A
  <2>1. Append(uu, e) \in Seq(Seq(S))
    BY AppendProperties
  <2>2. FlattenSeq(Append(uu, e)) = FlattenSeq(uu) \o e
    BY FlattenAppend
  <2>3. FlattenSeq(uu) \in Seq(S)
    BY FlattenTyped
  <2>4. ToSet(FlattenSeq(uu) \o e) = ToSet(FlattenSeq(uu)) \cup ToSet(e)
    BY <2>3, ToSetConcat
  <2>5. ToSet(Append(uu, e)) = ToSet(uu) \cup {e}
    BY ToSetAppend
  <2>6. Holds(uu)
    BY <1>2
  <2>7. UNION {ToSet(s) : s \in ToSet(uu) \cup {e}}
        = (UNION {ToSet(s) : s \in ToSet(uu)}) \cup ToSet(e)
    OBVIOUS
  <2>8. Holds(Append(uu, e))
    BY <2>2, <2>4, <2>5, <2>6, <2>7
  <2> QED
    BY <2>1, <2>8
<1>3. ss \in A
  <2> HIDE DEF A
  <2> QED
    BY <1>1, <1>2, SeqInduction
<1> QED
  BY <1>3

LEMMA FlattenMembers ==
    ASSUME NEW S, NEW ss \in Seq(Seq(S)), NEW e
    PROVE  e \in ToSet(FlattenSeq(ss)) <=> \E i \in 1..Len(ss) : e \in ToSet(ss[i])
<1>1. ToSet(FlattenSeq(ss)) = UNION {ToSet(s) : s \in ToSet(ss)}
  BY ToSetFlatten
<1>2. ASSUME e \in ToSet(FlattenSeq(ss)) PROVE \E i \in 1..Len(ss) : e \in ToSet(ss[i])
  <2>1. PICK s \in ToSet(ss) : e \in ToSet(s)
    BY <1>1, <1>2
  <2> QED
    BY <2>1, ToSetMember
<1>3. ASSUME NEW i \in 1..Len(ss), e \in ToSet(ss[i]) PROVE e \in ToSet(FlattenSeq(ss))
  <2>1. ss[i] \in ToSet(ss)
    BY ToSetMember
  <2> QED
    BY <1>1, <1>3, <2>1
<1> QED
  BY <1>2, <1>3

LEMMA ToSetRemoveAt ==
    ASSUME NEW S, NEW s \in Seq(S), NEW i \in 1..Len(s)
    PROVE  /\ ToSet(RemoveAt(s, i)) \subseteq ToSet(s)
           /\ \A e \in ToSet(s) : e # s[i] => e \in ToSet(RemoveAt(s, i))
<1> DEFINE t == RemoveAt(s, i)
<1>1. /\ t \in Seq(S) /\ Len(t) = Len(s) - 1
      /\ \A j \in 1..(i - 1) : t[j] = s[j]
      /\ \A j \in i..(Len(s) - 1) : t[j] = s[j + 1]
  BY RemoveAtLines
<1> HIDE DEF t
<1>2. ASSUME NEW j \in 1..Len(t) PROVE t[j] \in ToSet(s)
  <2>1. \E k \in 1..Len(s) : t[j] = s[k]
    <3>1. CASE j < i
      BY <1>1, <3>1
    <3>2. CASE j >= i
      <4>1. j + 1 \in 1..Len(s) /\ t[j] = s[j + 1]
        BY <1>1, <3>2
      <4> QED
        BY <4>1
    <3> QED
      BY <1>1, <3>1, <3>2
  <2> QED
    BY <2>1, ToSetMember
<1>3. ASSUME NEW k \in 1..Len(s), s[k] # s[i] PROVE s[k] \in ToSet(t)
  <2>1. \E j \in 1..Len(t) : t[j] = s[k]
    <3>1. CASE k < i
      BY <1>1, <3>1
    <3>2. CASE k > i
      <4>1. k - 1 \in i..(Len(s) - 1) /\ (k - 1) + 1 = k /\ k - 1 \in 1..Len(t)
        BY <1>1, <3>2
      <4> QED
        BY <1>1, <4>1
    <3> QED
      BY <1>3, <3>1, <3>2
  <2> QED
    BY <1>1, <2>1, ToSetMember
<1>4. ToSet(t) \subseteq ToSet(s)
  BY <1>1, <1>2, ToSetMember
<1>5. \A e \in ToSet(s) : e # s[i] => e \in ToSet(t)
  BY <1>3, ToSetMember
<1> QED
  BY <1>4, <1>5 DEF t

LEMMA ToSetInsertAt ==
    ASSUME NEW S, NEW s \in Seq(S), NEW i \in 1..(Len(s) + 1), NEW e \in S
    PROVE  ToSet(InsertAt(s, i, e)) = ToSet(s) \cup {e}
<1> DEFINE t == InsertAt(s, i, e)
<1>1. /\ t \in Seq(S) /\ Len(t) = Len(s) + 1 /\ t[i] = e
      /\ \A j \in 1..(i - 1) : t[j] = s[j]
      /\ \A j \in i..Len(s) : t[j + 1] = s[j]
  BY InsertAtLines
<1> HIDE DEF t
<1>2. ASSUME NEW j \in 1..Len(t) PROVE t[j] \in ToSet(s) \cup {e}
  <2>1. CASE j < i
    <3>1. j \in 1..Len(s) /\ t[j] = s[j]
      BY <1>1, <2>1
    <3> QED
      BY <3>1, ToSetMember
  <2>2. CASE j = i
    BY <1>1, <2>2
  <2>3. CASE j > i
    <3>1. j - 1 \in i..Len(s) /\ (j - 1) + 1 = j /\ j - 1 \in 1..Len(s)
      BY <1>1, <2>3
    <3>2. t[j] = s[j - 1]
      BY <1>1, <3>1
    <3> QED
      BY <3>1, <3>2, ToSetMember
  <2> QED
    BY <2>1, <2>2, <2>3
<1>3. ASSUME NEW k \in 1..Len(s) PROVE \E j \in 1..Len(t) : t[j] = s[k]
  <2>1. CASE k < i
    BY <1>1, <2>1
  <2>2. CASE k >= i
    <3>1. k \in i..Len(s) /\ k + 1 \in 1..Len(t)
      BY <1>1, <2>2
    <3> QED
      BY <1>1, <3>1
  <2> QED
    BY <2>1, <2>2
<1>4. i \in 1..Len(t)
  BY <1>1
<1>5. e \in ToSet(t)
  <2>1. t[i] \in ToSet(t)
    BY <1>1, <1>4, ToSetMember
  <2> QED
    BY <2>1, <1>1
<1>6. ToSet(t) \subseteq ToSet(s) \cup {e}
  BY <1>1, <1>2, ToSetMember
<1>7. ToSet(s) \subseteq ToSet(t)
  BY <1>1, <1>3, ToSetMember
<1> QED
  BY <1>5, <1>6, <1>7 DEF t

LEMMA AppendIsInsertAt ==
    ASSUME NEW S, NEW s \in Seq(S), NEW e \in S
    PROVE  Append(s, e) = InsertAt(s, Len(s) + 1, e)
<1> DEFINE t == InsertAt(s, Len(s) + 1, e)
           u == Append(s, e)
<1>1. Len(s) \in Nat /\ Len(s) + 1 \in 1..(Len(s) + 1)
  OBVIOUS
<1>2. /\ t \in Seq(S) /\ Len(t) = Len(s) + 1 /\ t[Len(s) + 1] = e
      /\ \A j \in 1..((Len(s) + 1) - 1) : t[j] = s[j]
  BY <1>1, InsertAtLines
<1>3. /\ u \in Seq(S) /\ Len(u) = Len(s) + 1 /\ u[Len(s) + 1] = e
      /\ \A j \in 1..Len(s) : u[j] = s[j]
  BY AppendProperties
<1> HIDE DEF t, u
<1>4. \A j \in 1..Len(t) : t[j] = u[j]
  BY <1>1, <1>2, <1>3
<1>5. t = u
  BY <1>2, <1>3, <1>4
<1> QED
  BY <1>5 DEF t, u

-----------------------------------------------------------------------------
(* Order and copies                                                        *)

(* The rule r is in the chain, with only rules of G above one copy of it.  *)
Above(s, r, G) ==
    \E i \in 1..Len(s) : s[i] = r /\ \A j \in 1..(i - 1) : s[j] \in G

(* There is at most one copy of r.                                         *)
Once(s, r) == \A i, j \in 1..Len(s) : s[i] = r /\ s[j] = r => i = j

LEMMA AboveRemoveAt ==
    ASSUME NEW S, NEW s \in Seq(S), NEW i \in 1..Len(s), NEW r, NEW G,
           s[i] # r, Above(s, r, G)
    PROVE  Above(RemoveAt(s, i), r, G)
<1> DEFINE t == RemoveAt(s, i)
<1>1. /\ t \in Seq(S) /\ Len(t) = Len(s) - 1
      /\ \A j \in 1..(i - 1) : t[j] = s[j]
      /\ \A j \in i..(Len(s) - 1) : t[j] = s[j + 1]
  BY RemoveAtLines
<1> HIDE DEF t
<1>2. PICK k \in 1..Len(s) : s[k] = r /\ \A j \in 1..(k - 1) : s[j] \in G
  BY DEF Above
<1>3. CASE k < i
  <2>1. k \in 1..Len(t) /\ t[k] = r
    BY <1>1, <1>2, <1>3
  <2>2. \A j \in 1..(k - 1) : t[j] \in G
    BY <1>1, <1>2, <1>3
  <2> QED
    BY <2>1, <2>2 DEF Above, t
<1>4. CASE k > i
  <2>1. k - 1 \in i..(Len(s) - 1) /\ (k - 1) + 1 = k /\ k - 1 \in 1..Len(t)
    BY <1>1, <1>4
  <2>2. t[k - 1] = r
    BY <1>1, <1>2, <2>1
  <2>3. ASSUME NEW j \in 1..((k - 1) - 1) PROVE t[j] \in G
    <3>1. CASE j < i
      <4>1. j \in 1..(i - 1) /\ j \in 1..(k - 1)
        BY <3>1
      <4> QED
        BY <4>1, <1>1, <1>2
    <3>2. CASE j >= i
      <4>1. j \in i..(Len(s) - 1) /\ j + 1 \in 1..(k - 1)
        BY <3>2
      <4>2. t[j] = s[j + 1] /\ s[j + 1] \in G
        BY <4>1, <1>1, <1>2
      <4> QED
        BY <4>2
    <3> QED
      BY <3>1, <3>2
  <2> QED
    BY <2>1, <2>2, <2>3 DEF Above, t
<1>5. k # i
  BY <1>2
<1> QED
  BY <1>3, <1>4, <1>5

LEMMA AboveInsertAt ==
    ASSUME NEW S, NEW s \in Seq(S), NEW i \in 1..(Len(s) + 1), NEW e \in S, NEW r, NEW G,
           e \in G, Above(s, r, G)
    PROVE  Above(InsertAt(s, i, e), r, G)
<1> DEFINE t == InsertAt(s, i, e)
<1>1. /\ t \in Seq(S) /\ Len(t) = Len(s) + 1 /\ t[i] = e
      /\ \A j \in 1..(i - 1) : t[j] = s[j]
      /\ \A j \in i..Len(s) : t[j + 1] = s[j]
  BY InsertAtLines
<1> HIDE DEF t
<1>2. PICK k \in 1..Len(s) : s[k] = r /\ \A j \in 1..(k - 1) : s[j] \in G
  BY DEF Above
<1>3. CASE k < i
  <2>1. k \in 1..Len(t) /\ t[k] = r
    BY <1>1, <1>2, <1>3
  <2>2. \A j \in 1..(k - 1) : t[j] \in G
    BY <1>1, <1>2, <1>3
  <2> QED
    BY <2>1, <2>2 DEF Above, t
<1>4. CASE k >= i
  <2>1. k \in i..Len(s) /\ k + 1 \in 1..Len(t)
    BY <1>1, <1>4
  <2>2. t[k + 1] = r
    BY <1>1, <1>2, <2>1
  <2>3. ASSUME NEW j \in 1..((k + 1) - 1) PROVE t[j] \in G
    <3>1. CASE j < i
      <4>1. j \in 1..(i - 1) /\ j \in 1..(k - 1)
        BY <3>1, <1>4
      <4> QED
        BY <4>1, <1>1, <1>2
    <3>2. CASE j = i
      BY <3>2, <1>1
    <3>3. CASE j > i
      <4>1. j - 1 \in i..Len(s) /\ j - 1 \in 1..(k - 1) /\ (j - 1) + 1 = j
        BY <3>3
      <4>2. t[j] = s[j - 1] /\ s[j - 1] \in G
        BY <4>1, <1>1, <1>2
      <4> QED
        BY <4>2
    <3> QED
      BY <3>1, <3>2, <3>3
  <2> QED
    BY <2>1, <2>2, <2>3 DEF Above, t
<1> QED
  BY <1>3, <1>4

LEMMA AboveInserted ==
    ASSUME NEW S, NEW s \in Seq(S), NEW i \in 1..(Len(s) + 1), NEW e \in S, NEW G,
           \A j \in 1..(i - 1) : s[j] \in G
    PROVE  Above(InsertAt(s, i, e), e, G)
<1> DEFINE t == InsertAt(s, i, e)
<1>1. /\ t \in Seq(S) /\ Len(t) = Len(s) + 1 /\ t[i] = e
      /\ \A j \in 1..(i - 1) : t[j] = s[j]
  BY InsertAtLines
<1> HIDE DEF t
<1>2. i \in 1..Len(t) /\ \A j \in 1..(i - 1) : t[j] \in G
  BY <1>1
<1> QED
  BY <1>1, <1>2 DEF Above, t

LEMMA OnceRemoveAt ==
    ASSUME NEW S, NEW s \in Seq(S), NEW i \in 1..Len(s), NEW r, Once(s, r)
    PROVE  Once(RemoveAt(s, i), r)
<1> DEFINE t == RemoveAt(s, i)
           At(j) == IF j < i THEN j ELSE j + 1
<1>1. /\ t \in Seq(S) /\ Len(t) = Len(s) - 1
      /\ \A j \in 1..(i - 1) : t[j] = s[j]
      /\ \A j \in i..(Len(s) - 1) : t[j] = s[j + 1]
  BY RemoveAtLines
<1> HIDE DEF t
<1>2. ASSUME NEW j \in 1..Len(t) PROVE At(j) \in 1..Len(s) /\ t[j] = s[At(j)]
  BY <1>1
<1>3. ASSUME NEW j \in 1..Len(t), NEW k \in 1..Len(t), At(j) = At(k) PROVE j = k
  BY <1>1, <1>3
<1> HIDE DEF At
<1>4. ASSUME NEW j \in 1..Len(t), NEW k \in 1..Len(t), t[j] = r, t[k] = r PROVE j = k
  <2>1. At(j) = At(k)
    BY <1>2, <1>4 DEF Once
  <2> QED
    BY <2>1, <1>3
<1> QED
  BY <1>4 DEF Once, t

LEMMA OnceInsertAt ==
    ASSUME NEW S, NEW s \in Seq(S), NEW i \in 1..(Len(s) + 1), NEW e \in S, NEW r,
           Once(s, r), r = e => e \notin ToSet(s)
    PROVE  Once(InsertAt(s, i, e), r)
<1> DEFINE t == InsertAt(s, i, e)
           At(j) == IF j < i THEN j ELSE j - 1
<1>1. /\ t \in Seq(S) /\ Len(t) = Len(s) + 1 /\ t[i] = e
      /\ \A j \in 1..(i - 1) : t[j] = s[j]
      /\ \A j \in i..Len(s) : t[j + 1] = s[j]
  BY InsertAtLines
<1> HIDE DEF t
<1>2. ASSUME NEW j \in 1..Len(t), j # i PROVE At(j) \in 1..Len(s) /\ t[j] = s[At(j)]
  <2>1. CASE j < i
    BY <1>1, <2>1
  <2>2. CASE j > i
    <3>1. j - 1 \in i..Len(s) /\ (j - 1) + 1 = j /\ j - 1 \in 1..Len(s)
      BY <1>1, <2>2
    <3> QED
      BY <3>1, <2>2, <1>1
  <2> QED
    BY <1>2, <2>1, <2>2
<1>3. ASSUME NEW j \in 1..Len(t), NEW k \in 1..Len(t), j # i, k # i, At(j) = At(k) PROVE j = k
  BY <1>1, <1>3
<1> HIDE DEF At
<1>4. ASSUME NEW j \in 1..Len(t), NEW k \in 1..Len(t), t[j] = r, t[k] = r PROVE j = k
  <2>1. CASE r = e
    <3>1. \A m \in 1..Len(s) : s[m] # r
      BY <2>1, ToSetMember
    <3>2. j = i /\ k = i
      BY <3>1, <1>2, <1>4
    <3> QED
      BY <3>2
  <2>2. CASE r # e
    <3>1. j # i /\ k # i
      BY <2>2, <1>1, <1>4
    <3>2. At(j) = At(k)
      BY <3>1, <1>2, <1>4 DEF Once
    <3> QED
      BY <3>1, <3>2, <1>3
  <2> QED
    BY <2>1, <2>2
<1> QED
  BY <1>4 DEF Once, t

-----------------------------------------------------------------------------
(* The commands                                                            *)

(* SelectInSeq, for the set of positions it selects from.                  *)
LEMMA FirstPosition ==
    ASSUME NEW n \in Nat, NEW I, I \subseteq 1..n, I # {}
    PROVE  Min(I) \in I /\ \A j \in 1..(Min(I) - 1) : j \notin I
<1>1. I \subseteq Nat
  OBVIOUS
<1>2. Min(I) \in I /\ \A y \in I : Min(I) <= y
  BY <1>1, MinIsLeast
<1>3. ASSUME NEW k \in I, \A y \in I : k <= y PROVE \A j \in 1..(k - 1) : j \notin I
  BY <1>1, <1>3
<1> QED
  BY <1>2, <1>3

(* "-D" deletes the first of the lines with the rule.                      *)
LEMMA DeleteRuleLine ==
    ASSUME NEW S, NEW s \in Seq(S), NEW r, RuleExists(s, r)
    PROVE  \E i \in 1..Len(s) : s[i] = r /\ DeleteRule(s, r) = RemoveAt(s, i)
<1> DEFINE I == {i \in 1..Len(s) : s[i] = r}
<1>1. I # {} /\ I \subseteq 1..Len(s) /\ Len(s) \in Nat
  BY DEF RuleExists, Contains
<1>2. Min(I) \in I
  <2> HIDE DEF I
  <2> QED
    BY <1>1, FirstPosition
<1>3. DeleteRule(s, r) = RemoveAt(s, Min(I))
  BY <1>1 DEF DeleteRule, RemoveFirst, SelectInSeq
<1> QED
  BY <1>2, <1>3

(* remove_by_comment lists a line with the comment.                        *)
LEMMA TaggedLineIs ==
    ASSUME NEW S, NEW s \in Seq(S), NEW tag, IsTagged(s, tag)
    PROVE  TaggedLine(s, tag) \in 1..Len(s) /\ s[TaggedLine(s, tag)].tag = tag
<1> DEFINE I == {i \in 1..Len(s) : s[i].tag = tag}
<1>1. I # {} /\ I \subseteq 1..Len(s) /\ Len(s) \in Nat
  BY DEF IsTagged
<1>2. Min(I) \in I
  <2> HIDE DEF I
  <2> QED
    BY <1>1, FirstPosition
<1>3. TaggedLine(s, tag) = Min(I)
  BY <1>1 DEF TaggedLine, SelectInSeq
<1> QED
  BY <1>2, <1>3

(* find_drop_line_number is the first DROP line, or zero without one.      *)
LEMMA DropLine ==
    ASSUME NEW S, NEW s \in Seq(S)
    PROVE  \/ /\ FindDropLineNumber(s) = 0
              /\ \A i \in 1..Len(s) : s[i].verdict # "DROP"
           \/ /\ FindDropLineNumber(s) \in 1..Len(s)
              /\ \A j \in 1..(FindDropLineNumber(s) - 1) : s[j].verdict # "DROP"
<1> DEFINE I == {i \in 1..Len(s) : s[i].verdict = "DROP"}
<1>1. FindDropLineNumber(s) = IF I # {} THEN Min(I) ELSE 0
  BY DEF FindDropLineNumber, SelectInSeq
<1>2. CASE I = {}
  BY <1>1, <1>2
<1>3. CASE I # {}
  <2>1. I \subseteq 1..Len(s) /\ Len(s) \in Nat
    OBVIOUS
  <2>2. Min(I) \in I /\ \A j \in 1..(Min(I) - 1) : j \notin I
    <3> HIDE DEF I
    <3> QED
      BY <1>3, <2>1, FirstPosition
  <2>3. \A j \in 1..(Min(I) - 1) : s[j].verdict # "DROP"
    BY <2>1, <2>2
  <2> QED
    BY <1>1, <1>3, <2>2, <2>3
<1> QED
  BY <1>2, <1>3

(* Lines that a deletion or an insertion does not touch keep their order.  *)
LEMMA RemoveAtSplits ==
    ASSUME NEW S, NEW s \in Seq(S), NEW i \in 1..Len(s)
    PROVE  LET a == SubSeq(s, 1, i - 1)
               b == SubSeq(s, i + 1, Len(s))
           IN  /\ a \in Seq(S) /\ b \in Seq(S)
               /\ s = (a \o <<s[i]>>) \o b /\ RemoveAt(s, i) = a \o b
<1> DEFINE a == SubSeq(s, 1, i - 1)
           b == SubSeq(s, i + 1, Len(s))
<1>0. Len(s) \in Nat /\ \A j \in 1..Len(s) : s[j] \in S
  OBVIOUS
<1>1. a \in Seq(S) /\ Len(a) = i - 1 /\ \A j \in 1..(i - 1) : a[j] = s[j]
  <2>1. \A j \in 1..(i - 1) : s[j] \in S
    BY <1>0
  <2> QED
    BY <2>1, <1>0, SubSeqProperties
<1>2. b \in Seq(S) /\ Len(b) = Len(s) - i /\ \A j \in 1..(Len(s) - i) : b[j] = s[j + i]
  <2>1. \A j \in (i + 1)..Len(s) : s[j] \in S
    BY <1>0
  <2> QED
    BY <2>1, <1>0, SubSeqProperties
<1>3. RemoveAt(s, i) = a \o b
  BY DEF RemoveAt
<1> HIDE DEF a, b
<1> DEFINE c == a \o <<s[i]>>
<1>4. /\ c \in Seq(S) /\ Len(c) = i /\ c[i] = s[i]
      /\ \A j \in 1..(i - 1) : c[j] = a[j]
  BY <1>0, <1>1
<1> HIDE DEF c
<1>5. /\ c \o b \in Seq(S) /\ Len(c \o b) = Len(c) + Len(b)
      /\ \A j \in 1..Len(c) : (c \o b)[j] = c[j]
      /\ \A j \in 1..Len(b) : (c \o b)[j + Len(c)] = b[j]
  <2>1. c \in Seq(S) /\ b \in Seq(S)
    BY <1>2, <1>4
  <2> QED
    BY <2>1, ConcatLines
<1> DEFINE d == c \o b
<1>6. /\ d \in Seq(S) /\ Len(d) = Len(c) + Len(b)
      /\ \A j \in 1..Len(c) : d[j] = c[j]
      /\ \A j \in 1..Len(b) : d[j + Len(c)] = b[j]
  BY <1>5
<1> HIDE DEF d
<1>7. ASSUME NEW j \in 1..Len(s) PROVE d[j] = s[j]
  <2>1. CASE j < i
    BY <1>1, <1>4, <1>6, <2>1
  <2>2. CASE j = i
    BY <1>4, <1>6, <2>2
  <2>3. CASE j > i
    <3>1. j - i \in 1..Len(b) /\ (j - i) + i = j
      BY <1>0, <1>2, <2>3
    <3>2. d[j] = b[j - i] /\ b[j - i] = s[j]
      BY <1>2, <1>4, <1>6, <3>1
    <3> QED
      BY <3>2
  <2> QED
    BY <2>1, <2>2, <2>3
<1>8. Len(d) = Len(s)
  BY <1>0, <1>2, <1>4, <1>6
<1>9. d = s
  BY <1>6, <1>7, <1>8
<1>10. /\ a \in Seq(S) /\ b \in Seq(S)
       /\ s = (a \o <<s[i]>>) \o b /\ RemoveAt(s, i) = a \o b
  BY <1>1, <1>2, <1>3, <1>9 DEF c, d
<1> QED
  BY <1>10 DEF a, b

LEMMA InsertFirstIsConcat ==
    ASSUME NEW S, NEW s \in Seq(S), NEW e \in S
    PROVE  InsertAt(s, 1, e) = <<e>> \o s
<1>1. SubSeq(s, 1, 1 - 1) = <<>>
  BY SubSeqEmpty
<1>2. SubSeq(s, 1, Len(s)) = s
  BY SubSeqFull
<1>3. <<>> \o <<e>> = <<e>>
  OBVIOUS
<1> QED
  BY <1>1, <1>2, <1>3 DEF InsertAt

-----------------------------------------------------------------------------
(* Lists without repetition                                                *)

Distinct(s) == \A i, j \in 1..Len(s) : s[i] = s[j] => i = j

LEMMA SetToSeqLists ==
    ASSUME NEW T, IsFiniteSet(T)
    PROVE  /\ SetToSeq(T) \in Seq(T)
           /\ ToSet(SetToSeq(T)) = T
           /\ Distinct(SetToSeq(T))
<1> DEFINE n == Cardinality(T)
           f == SetToSeq(T)
<1>1. n \in Nat /\ ExistsBijection(1..n, T)
  BY FS_CardinalityType
<1>2. \E g \in [1..n -> T] : IsInjective(g)
  BY <1>1 DEF ExistsBijection, Bijection, Injection
<1>3. f \in [1..n -> T] /\ IsInjective(f)
  <2>1. f = CHOOSE g \in [1..n -> T] : IsInjective(g)
    BY DEF SetToSeq
  <2> HIDE DEF f
  <2> QED
    BY <2>1, <1>2
<1>4. IsFiniteSet(1..n) /\ Cardinality(1..n) = n
  BY <1>1, FS_Interval
<1> HIDE DEF f
<1>5. f \in Injection(1..n, T)
  BY <1>3 DEF Injection
<1>6. f \in Surjection(1..n, T)
  <2>1. Cardinality(1..n) = Cardinality(T)
    BY <1>4
  <2> HIDE DEF n
  <2> QED
    BY <2>1, <1>5, FS_Injection
<1>7. f \in Seq(T) /\ Len(f) = n
  BY <1>1, <1>3
<1>8. Distinct(f)
  BY <1>3, <1>7 DEF Distinct, IsInjective
<1>9. \A t \in T : \E i \in 1..n : f[i] = t
  BY <1>6 DEF Surjection
<1>10. ToSet(f) = T
  BY <1>3, <1>9 DEF ToSet
<1> QED
  BY <1>7, <1>8, <1>10 DEF f

LEMMA DistinctJoin ==
    ASSUME NEW S, NEW s \in Seq(S), NEW t \in Seq(S), Distinct(s), Distinct(t),
           ToSet(s) \cap ToSet(t) = {}
    PROVE  Distinct(s \o t)
<1> DEFINE u == s \o t
<1>1. /\ u \in Seq(S) /\ Len(u) = Len(s) + Len(t)
      /\ \A i \in 1..Len(s) : u[i] = s[i]
      /\ \A i \in 1..Len(t) : u[i + Len(s)] = t[i]
      /\ Len(s) \in Nat /\ Len(t) \in Nat /\ Len(u) \in Nat
  BY ConcatLines
<1> HIDE DEF u
<1>2. ASSUME NEW i \in 1..Len(u), i > Len(s)
      PROVE  i - Len(s) \in 1..Len(t) /\ u[i] = t[i - Len(s)]
  <2>1. i - Len(s) \in 1..Len(t) /\ (i - Len(s)) + Len(s) = i
    BY <1>1, <1>2
  <2> QED
    BY <2>1, <1>1
<1>3. ASSUME NEW i \in 1..Len(u), i <= Len(s) PROVE i \in 1..Len(s) /\ u[i] = s[i]
  BY <1>1, <1>3
<1>4. ASSUME NEW i \in 1..Len(u), NEW j \in 1..Len(u), u[i] = u[j], i <= Len(s), j > Len(s)
      PROVE  FALSE
  <2>1. u[i] \in ToSet(s) /\ u[j] \in ToSet(t)
    BY <1>2, <1>3, <1>4, ToSetMember
  <2> QED
    BY <2>1, <1>4
<1>5. ASSUME NEW i \in 1..Len(u), NEW j \in 1..Len(u), u[i] = u[j] PROVE i = j
  <2>1. CASE i <= Len(s) /\ j <= Len(s)
    BY <2>1, <1>3, <1>5 DEF Distinct
  <2>2. CASE i > Len(s) /\ j > Len(s)
    <3>1. i - Len(s) = j - Len(s)
      BY <2>2, <1>2, <1>5 DEF Distinct
    <3> QED
      BY <3>1, <1>1
  <2> QED
    BY <2>1, <2>2, <1>1, <1>4, <1>5
<1> QED
  BY <1>5 DEF Distinct, u

(* Flattening lists that share no element.                                 *)
LEMMA DistinctFlatten ==
    ASSUME NEW S, NEW ss \in Seq(Seq(S)),
           \A i \in 1..Len(ss) : Distinct(ss[i]),
           \A i, j \in 1..Len(ss) : i # j => ToSet(ss[i]) \cap ToSet(ss[j]) = {}
    PROVE  Distinct(FlattenSeq(ss))
<1> DEFINE Apart(uu) == /\ \A i \in 1..Len(uu) : Distinct(uu[i])
                        /\ \A i, j \in 1..Len(uu) :
                              i # j => ToSet(uu[i]) \cap ToSet(uu[j]) = {}
           A == {uu \in Seq(Seq(S)) : Apart(uu) => Distinct(FlattenSeq(uu))}
<1>1. <<>> \in A
  <2>1. Distinct(<<>>) /\ <<>> \in Seq(Seq(S))
    BY DEF Distinct
  <2> QED
    BY <2>1, FlattenEmpty
<1>2. ASSUME NEW uu \in Seq(Seq(S)), uu \in A, NEW e \in Seq(S) PROVE Append(uu, e) \in A
  <2> DEFINE vv == Append(uu, e)
  <2>1. /\ vv \in Seq(Seq(S)) /\ Len(vv) = Len(uu) + 1 /\ vv[Len(uu) + 1] = e
        /\ \A i \in 1..Len(uu) : vv[i] = uu[i]
        /\ Len(uu) \in Nat
    BY AppendProperties
  <2>2. FlattenSeq(vv) = FlattenSeq(uu) \o e
    BY FlattenAppend
  <2>3. FlattenSeq(uu) \in Seq(S) /\ ToSet(FlattenSeq(uu)) = UNION {ToSet(s) : s \in ToSet(uu)}
    BY FlattenTyped, ToSetFlatten
  <2> HIDE DEF vv
  <2>4. ASSUME Apart(vv) PROVE Distinct(FlattenSeq(vv))
    <3>1. Apart(uu)
      <4>1. \A i \in 1..Len(uu) : i \in 1..Len(vv)
        BY <2>1
      <4> QED
        BY <2>1, <2>4, <4>1
    <3>2. Distinct(FlattenSeq(uu))
      BY <1>2, <3>1
    <3>3. Distinct(e)
      <4>1. Len(uu) + 1 \in 1..Len(vv)
        BY <2>1
      <4> QED
        BY <2>1, <2>4, <4>1
    <3>4. ASSUME NEW s \in ToSet(uu) PROVE ToSet(s) \cap ToSet(e) = {}
      <4>1. PICK i \in 1..Len(uu) : s = uu[i]
        BY ToSetMember
      <4>2. i \in 1..Len(vv) /\ Len(uu) + 1 \in 1..Len(vv) /\ i # Len(uu) + 1
        BY <2>1
      <4>3. ToSet(vv[i]) \cap ToSet(vv[Len(uu) + 1]) = {}
        BY <2>4, <4>2
      <4> QED
        BY <2>1, <4>1, <4>3
    <3>5. ToSet(FlattenSeq(uu)) \cap ToSet(e) = {}
      BY <2>3, <3>4
    <3> QED
      BY <2>2, <2>3, <3>2, <3>3, <3>5, DistinctJoin
  <2> QED
    BY <2>1, <2>4 DEF vv
<1>3. ss \in A
  <2> HIDE DEF A
  <2> QED
    BY <1>1, <1>2, SeqInduction
<1> QED
  BY <1>3

-----------------------------------------------------------------------------
(* A rule stays above others when the chain grows at its end               *)

LEMMA AboveConcat ==
    ASSUME NEW S, NEW s \in Seq(S), NEW t \in Seq(S), NEW r, NEW G, Above(s, r, G)
    PROVE  Above(s \o t, r, G)
<1> DEFINE u == s \o t
<1>1. /\ Len(u) = Len(s) + Len(t)
      /\ \A i \in 1..Len(s) : u[i] = s[i]
      /\ Len(s) \in Nat /\ Len(t) \in Nat
  BY ConcatLines
<1> HIDE DEF u
<1>2. PICK i \in 1..Len(s) : s[i] = r /\ \A j \in 1..(i - 1) : s[j] \in G
  BY DEF Above
<1>3. i \in 1..Len(u) /\ u[i] = r
  BY <1>1, <1>2
<1>4. \A j \in 1..(i - 1) : u[j] \in G
  <2> TAKE j \in 1..(i - 1)
  <2>1. j \in 1..Len(s)
    BY <1>1
  <2> QED
    BY <1>1, <1>2, <2>1
<1> QED
  BY <1>3, <1>4 DEF Above, u

LEMMA AboveAppend ==
    ASSUME NEW S, NEW s \in Seq(S), NEW e \in S, NEW r, NEW G, Above(s, r, G)
    PROVE  Above(Append(s, e), r, G)
<1>1. Append(s, e) = s \o <<e>>
  BY AppendIsConcat
<1>2. <<e>> \in Seq(S)
  OBVIOUS
<1> HIDE DEF Above
<1> QED
  BY <1>1, <1>2, AboveConcat

(* An element of a sequence of others and itself has a first position.     *)
LEMMA AboveFirst ==
    ASSUME NEW S, NEW s \in Seq(S), NEW r \in ToSet(s), NEW G, ToSet(s) \subseteq G \cup {r}
    PROVE  Above(s, r, G)
<1> DEFINE I == {i \in 1..Len(s) : s[i] = r}
           m == Min(I)
<1>1. /\ Len(s) \in Nat /\ \A i \in 1..Len(s) : s[i] \in ToSet(s)
      /\ \E i \in 1..Len(s) : s[i] = r
  BY ToSetMember
<1>2. I \subseteq 1..Len(s) /\ I # {}
  BY <1>1
<1> HIDE DEF I
<1>3. m \in I /\ \A j \in 1..(m - 1) : j \notin I
  BY <1>1, <1>2, FirstPosition
<1> HIDE DEF m
<1>4. m \in 1..Len(s) /\ s[m] = r
  BY <1>3 DEF I
<1>5. ASSUME NEW j \in 1..(m - 1) PROVE s[j] \in G
  <2>1. j \in 1..Len(s)
    BY <1>1, <1>4
  <2>2. s[j] # r
    BY <1>3, <1>5, <2>1 DEF I
  <2> QED
    BY <1>1, <2>1, <2>2
<1> QED
  BY <1>4, <1>5 DEF Above
=============================================================================
