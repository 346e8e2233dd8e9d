---------------------------- MODULE RulesProofs ----------------------------
(***************************************************************************)
(* Theorems about the allow rules, for every set of values an              *)
(* administrator may write, of labels that hosts are made of, and whatever *)
(* the patterns and regular expressions match.                             *)
(***************************************************************************)
EXTENDS Rules, ChainProofs

(* The characters of hosts, domains and what becomes of them.              *)
Alphabet == Characters \cup {"."} \cup {Upper[c] : c \in DOMAIN Upper}
                                 \cup {Lower[c] : c \in DOMAIN Lower}

-----------------------------------------------------------------------------
(* Texts                                                                   *)

LEMMA BlankIsNoDot == Blank # "."
  BY DEF Blank

(* A bounded non-empty set of positions has a greatest element, and Max is *)
(* it.                                                                     *)
LEMMA MaxIsGreatest ==
    ASSUME NEW n \in Nat, NEW I, I \subseteq 0..n, I # {}
    PROVE  Max(I) \in I /\ \A y \in I : y <= Max(I)
<1> DEFINE J == {n - i : i \in I}
<1>1. J \subseteq Nat /\ J # {}
  <2>1. \A i \in I : n - i \in Nat
    OBVIOUS
  <2> QED
    BY <2>1
<1>2. PICK m \in J : \A y \in J : m <= y
  <2> HIDE DEF J
  <2> QED
    BY <1>1, MinIsLeast
<1>3. PICK x \in I : m = n - x
  OBVIOUS
<1>4. ASSUME NEW y \in I PROVE x >= y
  <2>1. n - x <= n - y
    BY <1>2, <1>3
  <2> QED
    BY <2>1
<1> QED
  BY <1>3, <1>4 DEF Max

(* A suffix, by characters.                                                *)
LEMMA SuffixChars ==
    ASSUME NEW S, NEW s \in Seq(S), NEW t \in Seq(S)
    PROVE  IsSuffix(s, t) <=>
             /\ Len(s) <= Len(t)
             /\ \A i \in 1..Len(s) : s[i] = t[Len(t) - Len(s) + i]
<1> DEFINE rs == Reverse(s)
           rt == Reverse(t)
<1>1. rs \in Seq(S) /\ Len(rs) = Len(s) /\ \A i \in 1..Len(s) : rs[i] = s[(Len(s) - i) + 1]
  BY DEF Reverse
<1>2. rt \in Seq(S) /\ Len(rt) = Len(t) /\ \A i \in 1..Len(t) : rt[i] = t[(Len(t) - i) + 1]
  BY DEF Reverse
<1> HIDE DEF rs, rt
<1>3. IsPrefix(rs, rt) <=> Len(rs) <= Len(rt) /\ \A i \in 1..Len(rs) : rs[i] = rt[i]
  BY <1>1, <1>2 DEF IsPrefix
<1>4. ASSUME Len(s) <= Len(t), \A i \in 1..Len(s) : rs[i] = rt[i], NEW i \in 1..Len(s)
      PROVE  s[i] = t[Len(t) - Len(s) + i]
  <2> DEFINE j == (Len(s) - i) + 1
  <2>1. j \in 1..Len(s) /\ j \in 1..Len(t)
    BY <1>4
  <2>2. (Len(s) - j) + 1 = i /\ (Len(t) - j) + 1 = Len(t) - Len(s) + i
    BY <1>4
  <2> HIDE DEF j
  <2> QED
    BY <2>1, <2>2, <1>1, <1>2, <1>4
<1>5. ASSUME Len(s) <= Len(t), \A i \in 1..Len(s) : s[i] = t[Len(t) - Len(s) + i],
             NEW i \in 1..Len(s)
      PROVE  rs[i] = rt[i]
  <2> DEFINE j == (Len(s) - i) + 1
  <2>1. j \in 1..Len(s) /\ i \in 1..Len(t)
    BY <1>5
  <2>2. Len(t) - Len(s) + j = (Len(t) - i) + 1
    BY <1>5
  <2>3. rs[i] = s[j] /\ rt[i] = t[(Len(t) - i) + 1]
    BY <2>1, <1>1, <1>2
  <2> HIDE DEF j
  <2> QED
    BY <2>1, <2>2, <2>3, <1>5
<1>6. Len(s) \in Nat /\ Len(t) \in Nat
  OBVIOUS
<1> QED
  BY <1>1, <1>2, <1>3, <1>4, <1>5, <1>6 DEF IsSuffix, rs, rt

(* A suffix that is as long as the text is the text.                       *)
LEMMA SuffixOfSameLength ==
    ASSUME NEW S, NEW s \in Seq(S), NEW t \in Seq(S), IsSuffix(s, t), Len(s) = Len(t)
    PROVE  s = t
<1>1. \A i \in 1..Len(s) : s[i] = t[i]
  <2>1. \A i \in 1..Len(s) : s[i] = t[Len(t) - Len(s) + i]
    BY SuffixChars
  <2>2. \A i \in 1..Len(s) : Len(t) - Len(s) + i = i
    OBVIOUS
  <2> QED
    BY <2>1, <2>2
<1> QED
  BY <1>1

(* The second of two texts is a suffix of their concatenation; a suffix of *)
(* that is one of it if it is no longer, and otherwise starts in the first *)
(* text.                                                                   *)
LEMMA SuffixOfConcat ==
    ASSUME NEW S, NEW e \in Seq(S), NEW s \in Seq(S), NEW t \in Seq(S)
    PROVE  /\ IsSuffix(t, s \o t)
           /\ IsSuffix(e, s \o t) /\ Len(e) <= Len(t) => IsSuffix(e, t)
           /\ IsSuffix(e, s \o t) /\ Len(e) > Len(t) =>
                /\ (Len(s) + Len(t)) - Len(e) + 1 \in 1..Len(s)
                /\ e[1] = s[(Len(s) + Len(t)) - Len(e) + 1]
<1> DEFINE u == s \o t
<1>1. /\ u \in Seq(S) /\ Len(u) = Len(s) + Len(t)
      /\ \A i \in 1..Len(s) : u[i] = s[i]
      /\ \A i \in 1..Len(t) : u[i + Len(s)] = t[i]
  BY ConcatLines
<1> HIDE DEF u
<1>0. Len(s) \in Nat /\ Len(t) \in Nat /\ Len(e) \in Nat
  OBVIOUS
<1>2. IsSuffix(t, u)
  <2>1. \A i \in 1..Len(t) : t[i] = u[Len(u) - Len(t) + i]
    <3>1. \A i \in 1..Len(t) : Len(u) - Len(t) + i = i + Len(s)
      BY <1>0, <1>1
    <3> QED
      BY <3>1, <1>1
  <2>2. Len(t) <= Len(u)
    BY <1>0, <1>1
  <2> QED
    BY <2>1, <2>2, <1>1, SuffixChars
<1>3. ASSUME IsSuffix(e, u), Len(e) <= Len(t) PROVE IsSuffix(e, t)
  <2>1. \A i \in 1..Len(e) : e[i] = u[Len(u) - Len(e) + i]
    BY <1>1, <1>3, SuffixChars
  <2>2. ASSUME NEW i \in 1..Len(e) PROVE e[i] = t[Len(t) - Len(e) + i]
    <3>1. /\ Len(t) - Len(e) + i \in 1..Len(t)
          /\ Len(u) - Len(e) + i = (Len(t) - Len(e) + i) + Len(s)
      BY <1>0, <1>1, <1>3
    <3> QED
      BY <3>1, <2>1, <1>1
  <2> QED
    BY <2>2, <1>3, SuffixChars
<1>4. ASSUME IsSuffix(e, u), Len(e) > Len(t)
      PROVE  /\ (Len(s) + Len(t)) - Len(e) + 1 \in 1..Len(s)
             /\ e[1] = s[(Len(s) + Len(t)) - Len(e) + 1]
  <2>1. Len(e) <= Len(u) /\ \A i \in 1..Len(e) : e[i] = u[Len(u) - Len(e) + i]
    BY <1>1, <1>4, SuffixChars
  <2>2. 1 \in 1..Len(e) /\ Len(u) - Len(e) + 1 \in 1..Len(s)
    BY <2>1, <1>0, <1>1, <1>4
  <2> QED
    BY <2>1, <2>2, <1>1
<1> QED
  BY <1>2, <1>3, <1>4 DEF u

-----------------------------------------------------------------------------
(* Hosts                                                                   *)

(* A label has no dots.                                                    *)
LEMMA LabelTyped ==
    ASSUME NEW label \in Labels
    PROVE  /\ label \in Seq(Alphabet) /\ Len(label) \in Nat \ {0}
           /\ \A i \in 1..Len(label) :
                label[i] \notin {Blank, "."} /\ label[i] \notin DOMAIN Lower
<1>1. label \in Seq(Characters) /\ label # <<>>
  BY LabelsAssumption
<1>2. Characters \subseteq Alphabet
  BY DEF Alphabet
<1>3. ASSUME NEW i \in 1..Len(label) 
      PROVE  label[i] \notin {Blank, "."} /\ label[i] \notin DOMAIN Lower
  <2>1. label[i] \in ToSet(label)
    BY <1>1, ToSetMember
  <2> QED
    BY <2>1, LabelsAssumption
<1>4. label \in Seq(Alphabet)
  BY <1>1, <1>2
<1>5. Len(label) \in Nat \ {0}
  BY <1>1
<1> QED
  BY <1>3, <1>4, <1>5

(* A label and the dot before it.                                          *)
LEMMA PartTyped ==
    ASSUME NEW label \in Labels
    PROVE  /\ <<".">> \o label \in Seq(Alphabet)
           /\ Len(<<".">> \o label) = Len(label) + 1
           /\ (<<".">> \o label)[1] = "."
           /\ \A i \in 2..(Len(label) + 1) : (<<".">> \o label)[i] = label[i - 1]
<1> DEFINE d == <<".">>
<1>1. d \in Seq(Alphabet) /\ Len(d) = 1 /\ d[1] = "."
  BY DEF Alphabet
<1>2. label \in Seq(Alphabet) /\ Len(label) \in Nat
  BY LabelTyped
<1> HIDE DEF d
<1>3. /\ d \o label \in Seq(Alphabet) /\ Len(d \o label) = Len(d) + Len(label)
      /\ \A i \in 1..Len(d) : (d \o label)[i] = d[i]
      /\ \A i \in 1..Len(label) : (d \o label)[i + Len(d)] = label[i]
  BY <1>1, <1>2, ConcatLines
<1>4. ASSUME NEW i \in 2..(Len(label) + 1) PROVE (d \o label)[i] = label[i - 1]
  <2>1. i - 1 \in 1..Len(label) /\ i = (i - 1) + 1
    BY <1>2
  <2> QED
    BY <2>1, <1>1, <1>3
<1> QED
  BY <1>1, <1>2, <1>3, <1>4 DEF d

LEMMA DottedTyped ==
    ASSUME NEW labels \in Seq(Labels)
    PROVE  /\ [i \in DOMAIN labels |-> <<".">> \o labels[i]] \in Seq(Seq(Alphabet))
           /\ Dotted(labels) \in Seq(Alphabet)
<1>1. \A i \in DOMAIN labels : <<".">> \o labels[i] \in Seq(Alphabet)
  BY PartTyped
<1> DEFINE parts == [i \in DOMAIN labels |-> <<".">> \o labels[i]]
<1>2. parts \in Seq(Seq(Alphabet))
  <2>1. DOMAIN labels = 1..Len(labels) /\ Len(labels) \in Nat
    OBVIOUS
  <2>2. parts \in [1..Len(labels) -> Seq(Alphabet)]
    BY <1>1, <2>1
  <2> HIDE DEF parts
  <2> QED
    BY <2>1, <2>2, ListTyped
<1> HIDE DEF parts
<1>3. FlattenSeq(parts) \in Seq(Alphabet)
  BY <1>2, FlattenTyped
<1> QED
  BY <1>2, <1>3 DEF Dotted, parts

LEMMA DottedConcat ==
    ASSUME NEW a \in Seq(Labels), NEW b \in Seq(Labels)
    PROVE  Dotted(a \o b) = Dotted(a) \o Dotted(b)
<1> DEFINE D(l) == [i \in DOMAIN l |-> <<".">> \o l[i]]
<1>1. D(a) \in Seq(Seq(Alphabet)) /\ D(b) \in Seq(Seq(Alphabet))
  BY DottedTyped
<1>2. a \o b \in Seq(Labels)
  BY ConcatLines
<1>3. D(a \o b) \in Seq(Seq(Alphabet))
  BY <1>2, DottedTyped
<1>4. D(a \o b) = D(a) \o D(b)
  <2>1. Len(D(a)) = Len(a) /\ Len(D(b)) = Len(b) /\ Len(D(a \o b)) = Len(a) + Len(b)
    BY <1>2, ConcatLines
  <2>2. ASSUME NEW i \in 1..(Len(a) + Len(b)) PROVE D(a \o b)[i] = (D(a) \o D(b))[i]
    <3>0. Len(a) \in Nat /\ Len(b) \in Nat /\ i \in DOMAIN (a \o b)
      BY <1>2, ConcatLines
    <3>1. CASE i <= Len(a)
      <4>1. i \in 1..Len(a)
        BY <3>0, <3>1
      <4>2. (a \o b)[i] = a[i] /\ D(a)[i] = <<".">> \o a[i]
        BY <4>1, ConcatLines
      <4>3. (D(a) \o D(b))[i] = D(a)[i]
        <5> HIDE DEF D
        <5> QED
          BY <1>1, <2>1, <4>1, ConcatLines
      <4> QED
        BY <3>0, <4>2, <4>3
    <3>2. CASE i > Len(a)
      <4> DEFINE j == i - Len(a)
      <4>1. j \in 1..Len(b) /\ i = j + Len(a)
        BY <3>0, <3>2
      <4> HIDE DEF j
      <4>2. (a \o b)[i] = b[j] /\ D(b)[j] = <<".">> \o b[j]
        BY <4>1, ConcatLines
      <4>3. (D(a) \o D(b))[i] = D(b)[j]
        <5> HIDE DEF D
        <5> QED
          BY <1>1, <2>1, <4>1, ConcatLines
      <4> QED
        BY <3>0, <4>2, <4>3
    <3>3. i <= Len(a) \/ i > Len(a)
      BY <3>0
    <3> HIDE DEF D
    <3> QED
      BY <3>1, <3>2, <3>3
  <2> DEFINE da == D(a)
             db == D(b)
             dab == D(a \o b)
  <2>3. da \o db \in Seq(Seq(Alphabet)) /\ Len(da \o db) = Len(da) + Len(db)
    <3> HIDE DEF da, db
    <3>1. da \in Seq(Seq(Alphabet)) /\ db \in Seq(Seq(Alphabet))
      BY <1>1 DEF da, db
    <3> QED
      BY <3>1, ConcatLines
  <2>4. dab \in Seq(Seq(Alphabet)) /\ Len(dab) = Len(da \o db)
    BY <1>3, <2>1, <2>3
  <2>5. \A i \in 1..Len(dab) : dab[i] = (da \o db)[i]
    <3> HIDE DEF D
    <3> QED
      BY <2>1, <2>2
  <2> HIDE DEF da, db, dab
  <2>6. dab = da \o db
    BY <2>3, <2>4, <2>5, SeqEqual
  <2> QED
    BY <2>6 DEF da, db, dab
<1>5. FlattenSeq(D(a) \o D(b)) = FlattenSeq(D(a)) \o FlattenSeq(D(b))
  <2> HIDE DEF D
  <2> QED
    BY <1>1, FlattenConcat
<1> QED
  BY <1>4, <1>5 DEF Dotted

(* The labels from the k-th on begin with it and go on with the rest; they *)
(* follow those before them.                                               *)
LEMMA DottedRest ==
    ASSUME NEW labels \in Seq(Labels), NEW k \in 1..Len(labels)
    PROVE  /\ SubSeq(labels, k, Len(labels)) \in Seq(Labels)
           /\ SubSeq(labels, k + 1, Len(labels)) \in Seq(Labels)
           /\ Dotted(SubSeq(labels, k, Len(labels)))
                = (<<".">> \o labels[k]) \o Dotted(SubSeq(labels, k + 1, Len(labels)))
           /\ \E before \in Seq(Alphabet) :
                Dotted(labels) = before \o Dotted(SubSeq(labels, k, Len(labels)))
<1> DEFINE n == Len(labels)
           a == SubSeq(labels, 1, k - 1)
           b == SubSeq(labels, k, n)
           c == SubSeq(labels, k + 1, n)
           l == <<labels[k]>>
<1>0. n \in Nat /\ k \in 1..n /\ \A i \in 1..n : labels[i] \in Labels
  OBVIOUS
<1>1. a \in Seq(Labels) /\ Len(a) = k - 1 /\ \A i \in 1..(k - 1) : a[i] = labels[i]
  <2>1. \A i \in 1..(k - 1) : labels[i] \in Labels
    BY <1>0
  <2> QED
    BY <2>1, <1>0, SubSeqProperties
<1>2. b \in Seq(Labels) /\ Len(b) = (n - k) + 1
      /\ \A i \in 1..((n - k) + 1) : b[i] = labels[k + i - 1]
  <2>1. \A i \in k..n : labels[i] \in Labels
    BY <1>0
  <2> QED
    BY <2>1, <1>0, SubSeqProperties
<1>3. c \in Seq(Labels) /\ Len(c) = n - k /\ \A i \in 1..(n - k) : c[i] = labels[k + i]
  <2>1. \A i \in (k + 1)..n : labels[i] \in Labels
    BY <1>0
  <2> QED
    BY <2>1, <1>0, SubSeqProperties
<1>4. l \in Seq(Labels) /\ Len(l) = 1 /\ l[1] = labels[k]
  BY <1>0
<1> HIDE DEF a, b, c, l, n
<1>5. a \o b = labels
  <2>1. /\ a \o b \in Seq(Labels) /\ Len(a \o b) = Len(a) + Len(b)
        /\ \A i \in 1..Len(a) : (a \o b)[i] = a[i]
        /\ \A i \in 1..Len(b) : (a \o b)[i + Len(a)] = b[i]
    BY <1>1, <1>2, ConcatLines
  <2>2. Len(a \o b) = n
    BY <2>1, <1>0, <1>1, <1>2
  <2>3. ASSUME NEW i \in 1..n PROVE (a \o b)[i] = labels[i]
    <3>1. CASE i <= k - 1
      BY <3>1, <2>1, <1>0, <1>1
    <3>2. CASE i > k - 1
      <4>1. i - (k - 1) \in 1..((n - k) + 1) /\ i = (i - (k - 1)) + (k - 1)
        BY <3>2, <1>0
      <4>2. (a \o b)[i] = b[i - (k - 1)]
        BY <4>1, <2>1, <1>1, <1>2
      <4>3. k + (i - (k - 1)) - 1 = i
        BY <1>0
      <4> QED
        BY <4>1, <4>2, <4>3, <1>2
    <3>3. i <= k - 1 \/ i > k - 1
      BY <1>0
    <3> QED
      BY <3>1, <3>2, <3>3
  <2> QED
    BY <2>1, <2>2, <2>3, SeqEqual DEF n
<1>6. b = l \o c
  <2>1. /\ l \o c \in Seq(Labels) /\ Len(l \o c) = Len(l) + Len(c)
        /\ \A i \in 1..Len(l) : (l \o c)[i] = l[i]
        /\ \A i \in 1..Len(c) : (l \o c)[i + Len(l)] = c[i]
    <3>1. l \in Seq(Labels) /\ c \in Seq(Labels)
      BY <1>3, <1>4
    <3> QED
      BY <3>1, ConcatLines
  <2>2. Len(l \o c) = Len(b)
    BY <2>1, <1>0, <1>2, <1>3, <1>4
  <2>3. ASSUME NEW i \in 1..Len(b) PROVE b[i] = (l \o c)[i]
    <3>1. CASE i = 1
      <4>1. k + 1 - 1 = k /\ 1 \in 1..((n - k) + 1)
        BY <1>0
      <4>2. b[1] = labels[k + 1 - 1]
        BY <4>1, <1>2
      <4>3. (l \o c)[1] = l[1]
        BY <2>1, <1>4
      <4> QED
        BY <3>1, <4>1, <4>2, <4>3, <1>4
    <3>2. CASE i # 1
      <4>1. i - 1 \in 1..(n - k) /\ i = (i - 1) + 1
        BY <3>2, <1>0, <1>2
      <4>2. (l \o c)[i] = c[i - 1]
        BY <4>1, <2>1, <1>3, <1>4
      <4>3. k + (i - 1) = k + i - 1
        BY <1>0
      <4>4. c[i - 1] = labels[k + (i - 1)] /\ b[i] = labels[k + i - 1]
        BY <4>1, <1>2, <1>3
      <4> QED
        BY <4>2, <4>3, <4>4
    <3> QED
      BY <3>1, <3>2
  <2> QED
    BY <2>1, <2>2, <2>3, <1>2, SeqEqual
<1>7. Dotted(l) = <<".">> \o labels[k]
  <2> DEFINE p == <<".">> \o labels[k]
  <2>1. DOMAIN l = {1} /\ l[1] = labels[k]
    BY <1>4 DEF l
  <2>2. [i \in DOMAIN l |-> <<".">> \o l[i]] = <<p>>
    BY <2>1
  <2>3. p \in Seq(Alphabet)
    BY <1>0, PartTyped
  <2> HIDE DEF p
  <2>4. FlattenSeq(<<p>>) = p
    BY <2>3, FlattenSingle
  <2> QED
    BY <2>2, <2>4 DEF Dotted, p
<1>8. Dotted(l \o c) = Dotted(l) \o Dotted(c)
  BY <1>3, <1>4, DottedConcat
<1>9. Dotted(a \o b) = Dotted(a) \o Dotted(b) /\ Dotted(a) \in Seq(Alphabet)
  BY <1>1, <1>2, DottedConcat, DottedTyped
<1> QED
  BY <1>2, <1>3, <1>5, <1>6, <1>7, <1>8, <1>9 DEF b, c, n

(* A text that starts with a dot ends a list of labels only where a label  *)
(* begins.                                                                 *)
LEMMA LabelBoundary ==
    ASSUME NEW labels \in Seq(Labels), NEW e \in Seq(Alphabet), Len(e) > 0, e[1] = "."
    PROVE  IsSuffix(e, Dotted(labels)) <=>
             \E k \in 1..Len(labels) : e = Dotted(SubSeq(labels, k, Len(labels)))
<1> DEFINE n == Len(labels)
           R(k) == Dotted(SubSeq(labels, k, n))
           K == {k \in 1..n + 1 : IsSuffix(e, R(k))}
<1>0. n \in Nat
  OBVIOUS
<1>1. R(1) = Dotted(labels) /\ Dotted(labels) \in Seq(Alphabet)
  BY SubSeqFull, DottedTyped
<1>2. R(n + 1) = <<>>
  <2>1. SubSeq(labels, n + 1, n) = <<>>
    BY <1>0, SubSeqEmpty
  <2>2. [i \in DOMAIN <<>> |-> <<".">> \o <<>>[i]] = <<>>
    OBVIOUS
  <2> QED
    BY <2>1, <2>2, FlattenEmpty DEF Dotted
<1>3. ASSUME NEW k \in 1..n
      PROVE  /\ R(k) \in Seq(Alphabet) /\ R(k + 1) \in Seq(Alphabet)
             /\ R(k) = (<<".">> \o labels[k]) \o R(k + 1)
             /\ \E before \in Seq(Alphabet) : Dotted(labels) = before \o R(k)
  BY <1>3, DottedRest, DottedTyped
<1>4. ASSUME IsSuffix(e, Dotted(labels)) PROVE \E k \in 1..n : e = R(k)
  <2>1. 1 \in K /\ K \subseteq 0..(n + 1)
    BY <1>0, <1>1, <1>4
  <2>2. PICK k \in K : \A y \in K : y <= k
    <3> HIDE DEF K
    <3>1. n + 1 \in Nat /\ K # {}
      BY <1>0, <2>1
    <3> QED
      BY <2>1, <3>1, MaxIsGreatest
  <2>3. k \in 1..n + 1 /\ IsSuffix(e, R(k))
    OBVIOUS
  <2>4. k \in 1..n
    <3>1. CASE k = n + 1
      <4>1. <<>> \in Seq(Alphabet) /\ Len(<<>>) = 0
        OBVIOUS
      <4>2. IsSuffix(e, <<>>)
        BY <2>3, <3>1, <1>2
      <4>3. Len(e) <= Len(<<>>)
        BY <4>1, <4>2, SuffixChars
      <4> QED
        BY <4>1, <4>3
    <3> QED
      BY <3>1, <2>3, <1>0
  <2>5. ~IsSuffix(e, R(k + 1))
    <3>1. k + 1 \in 1..n + 1 /\ ~(k + 1 <= k)
      BY <2>4, <1>0
    <3>2. k + 1 \notin K
      <4> HIDE DEF K
      <4> QED
        BY <3>1, <2>2
    <3> QED
      BY <3>1, <3>2
  <2> DEFINE l == labels[k]
             p == <<".">> \o l
             r == R(k + 1)
  <2>6. l \in Labels
    BY <2>4
  <2> HIDE DEF l
  <2>7. /\ p \in Seq(Alphabet) /\ Len(p) = Len(l) + 1 /\ Len(l) \in Nat
        /\ \A i \in 2..(Len(l) + 1) : p[i] = l[i - 1] /\ l[i - 1] # "."
    <3>1. \A i \in 2..(Len(l) + 1) : p[i] = l[i - 1]
      BY <2>6, PartTyped
    <3>2. Len(l) \in Nat /\ \A i \in 1..Len(l) : l[i] # "."
      BY <2>6, LabelTyped
    <3>3. \A i \in 2..(Len(l) + 1) : i - 1 \in 1..Len(l)
      BY <3>2
    <3>4. p \in Seq(Alphabet) /\ Len(p) = Len(l) + 1
      BY <2>6, PartTyped
    <3> QED
      BY <3>1, <3>2, <3>3, <3>4
  <2>8. R(k) = p \o r /\ r \in Seq(Alphabet)
    BY <2>4, <1>3 DEF l
  <2>9. IsSuffix(e, p \o r) /\ ~IsSuffix(e, r)
    BY <2>3, <2>5, <2>8
  <2> HIDE DEF p, r, K
  <2>10. Len(e) > Len(r)
    <3>1. Len(e) \in Nat /\ Len(r) \in Nat
      BY <2>8
    <3>2. ~(Len(e) <= Len(r))
      BY <2>7, <2>8, <2>9, SuffixOfConcat
    <3> QED
      BY <3>1, <3>2
  <2>11. /\ (Len(p) + Len(r)) - Len(e) + 1 \in 1..Len(p)
         /\ p[(Len(p) + Len(r)) - Len(e) + 1] = "."
    BY <2>7, <2>8, <2>9, <2>10, SuffixOfConcat
  <2>12. (Len(p) + Len(r)) - Len(e) + 1 = 1
    <3> DEFINE j == (Len(p) + Len(r)) - Len(e) + 1
    <3> HIDE DEF j
    <3>1. j \in 1..(Len(l) + 1) /\ p[j] = "."
      BY <2>7, <2>11 DEF j
    <3>2. j \notin 2..(Len(l) + 1)
      BY <3>1, <2>7
    <3>3. j = 1
      BY <3>1, <3>2, <2>7
    <3> QED
      BY <3>3 DEF j
  <2>13. p \o r \in Seq(Alphabet) /\ Len(p \o r) = Len(e)
    <3>1. p \o r \in Seq(Alphabet) /\ Len(p \o r) = Len(p) + Len(r)
      BY <2>7, <2>8, ConcatLines
    <3>2. Len(p) \in Nat /\ Len(r) \in Nat /\ Len(e) \in Nat
      BY <2>7, <2>8
    <3> QED
      BY <3>1, <3>2, <2>12
  <2>14. e = p \o r
    BY <2>9, <2>13, SuffixOfSameLength
  <2> QED
    BY <2>4, <2>8, <2>14
<1>5. ASSUME NEW k \in 1..n, e = R(k) PROVE IsSuffix(e, Dotted(labels))
  <2>1. PICK before \in Seq(Alphabet) : Dotted(labels) = before \o R(k)
    BY <1>3
  <2> DEFINE r == R(k)
  <2>2. r \in Seq(Alphabet)
    BY <1>3
  <2> HIDE DEF r
  <2>3. IsSuffix(r, before \o r)
    BY <2>2, SuffixOfConcat
  <2> QED
    BY <2>1, <2>3, <1>5 DEF r
<1> QED
  BY <1>4, <1>5

(* A host: its characters, with the dot that the first label has before it *)
(* in Dotted.                                                              *)
LEMMA HostChars ==
    ASSUME NEW labels \in Seq(Labels), labels # <<>>
    PROVE  /\ Host(labels) \in Seq(Alphabet) /\ Len(Host(labels)) \in Nat \ {0}
           /\ Dotted(labels) = <<".">> \o Host(labels)
           /\ \A i \in 1..Len(Host(labels)) :
                Host(labels)[i] # Blank /\ Host(labels)[i] \notin DOMAIN Lower
           /\ Host(labels)[Len(Host(labels))] # "."
<1> DEFINE n == Len(labels)
           d == Dotted(labels)
           h == Tail(d)
           parts == [i \in DOMAIN labels |-> <<".">> \o labels[i]]
<1>0. n \in Nat \ {0} /\ n \in 1..n /\ 1 \in 1..n /\ \A i \in 1..n : labels[i] \in Labels
  OBVIOUS
<1>1. d \in Seq(Alphabet) /\ parts \in Seq(Seq(Alphabet)) /\ Len(parts) = n
  BY DottedTyped
<1>2. ASSUME NEW c \in ToSet(d) PROVE c = "." \/ (c # Blank /\ c \notin DOMAIN Lower)
  <2>1. c \in ToSet(FlattenSeq(parts))
    BY <1>2 DEF Dotted
  <2>2. PICK i \in 1..Len(parts) : c \in ToSet(parts[i])
    <3> HIDE DEF parts
    <3> QED
      BY <2>1, <1>1, FlattenMembers
  <2> DEFINE l == labels[i]
             p == <<".">> \o l
  <2>3. l \in Labels /\ parts[i] = p
    BY <2>2, <1>0, <1>1
  <2> HIDE DEF l
  <2>4. /\ p \in Seq(Alphabet) /\ Len(p) = Len(l) + 1 /\ p[1] = "."
        /\ \A j \in 2..(Len(l) + 1) : p[j] = l[j - 1]
    BY <2>3, PartTyped
  <2>5. /\ Len(l) \in Nat
        /\ \A j \in 1..Len(l) : l[j] # Blank /\ l[j] \notin DOMAIN Lower
    BY <2>3, LabelTyped
  <2> HIDE DEF p, parts
  <2>6. PICK j \in 1..Len(p) : c = p[j]
    BY <2>2, <2>3, <2>4, ToSetMember
  <2>7. CASE j = 1
    BY <2>4, <2>6, <2>7
  <2>8. CASE j # 1
    <3>0. Len(l) \in Nat /\ j \in 1..(Len(l) + 1)
      BY <2>4, <2>5
    <3>1. j \in 2..(Len(l) + 1) /\ j - 1 \in 1..Len(l)
      BY <3>0, <2>8
    <3> QED
      BY <3>1, <2>4, <2>5, <2>6
  <2> QED
    BY <2>7, <2>8
<1>3. d[1] = "." /\ Len(d) > 1
  <2> DEFINE l == labels[1]
             p == <<".">> \o l
             r == Dotted(SubSeq(labels, 1 + 1, n))
  <2>1. d = p \o r
    <3>1. Dotted(SubSeq(labels, 1, n)) = p \o r
      BY <1>0, DottedRest
    <3>2. SubSeq(labels, 1, n) = labels
      BY SubSeqFull
    <3> QED
      BY <3>1, <3>2
  <2>2. p \in Seq(Alphabet) /\ Len(p) = Len(l) + 1 /\ p[1] = "." /\ Len(l) \in Nat \ {0}
    <3>1. l \in Labels
      BY <1>0
    <3> HIDE DEF l
    <3> QED
      BY <3>1, PartTyped, LabelTyped
  <2>3. r \in Seq(Alphabet)
    <3>1. SubSeq(labels, 1 + 1, n) \in Seq(Labels)
      BY <1>0, DottedRest
    <3> QED
      BY <3>1, DottedTyped
  <2> HIDE DEF p, r, d, l
  <2>4. /\ Len(p \o r) = Len(p) + Len(r) /\ \A i \in 1..Len(p) : (p \o r)[i] = p[i]
    BY <2>2, <2>3, ConcatLines
  <2>5. Len(r) \in Nat /\ 1 \in 1..Len(p)
    BY <2>2, <2>3
  <2> QED
    BY <2>1, <2>2, <2>4, <2>5
<1>4. d[Len(d)] # "."
  <2> DEFINE l == labels[n]
             p == <<".">> \o l
             r == Dotted(SubSeq(labels, n + 1, n))
  <2>1. r = <<>>
    <3>1. SubSeq(labels, n + 1, n) = <<>>
      BY <1>0, SubSeqEmpty
    <3>2. [i \in DOMAIN <<>> |-> <<".">> \o <<>>[i]] = <<>>
      OBVIOUS
    <3> QED
      BY <3>1, <3>2, FlattenEmpty DEF Dotted
  <2>2. PICK before \in Seq(Alphabet) : d = before \o (p \o r)
    BY <1>0, DottedRest
  <2>3. /\ p \in Seq(Alphabet) /\ Len(p) = Len(l) + 1 /\ Len(l) \in Nat \ {0}
        /\ \A j \in 2..(Len(l) + 1) : p[j] = l[j - 1]
        /\ l[Len(l)] # "."
    <3>1. l \in Labels
      BY <1>0
    <3> HIDE DEF l
    <3>2. Len(l) \in 1..Len(l)
      <4>1. Len(l) \in Nat \ {0}
        BY <3>1, LabelTyped
      <4> QED
        BY <4>1
    <3> QED
      BY <3>1, <3>2, PartTyped, LabelTyped
  <2> HIDE DEF p, r, d, l
  <2>4. p \o r = p
    BY <2>1, <2>3
  <2>5. /\ Len(before \o p) = Len(before) + Len(p)
        /\ \A i \in 1..Len(p) : (before \o p)[i + Len(before)] = p[i]
    <3>1. p \in Seq(Alphabet)
      BY <2>3
    <3> QED
      BY <3>1, ConcatLines
  <2>6. Len(p) \in 1..Len(p) /\ Len(before) + Len(p) = Len(p) + Len(before)
    BY <2>3
  <2>7. d[Len(d)] = p[Len(p)]
    BY <2>2, <2>4, <2>5, <2>6
  <2>8. Len(l) + 1 \in 2..(Len(l) + 1) /\ (Len(l) + 1) - 1 = Len(l)
    BY <2>3
  <2> QED
    BY <2>3, <2>7, <2>8
<1> HIDE DEF d, parts
<1>5. /\ h \in Seq(Alphabet) /\ Len(h) = Len(d) - 1
      /\ \A i \in 1..Len(h) : h[i] = d[i + 1]
  <2>1. d # <<>>
    BY <1>3
  <2> QED
    BY <2>1, <1>1, HeadTailProperties
<1> HIDE DEF h
<1>6. Len(h) \in Nat \ {0} /\ Len(d) \in Nat
  BY <1>1, <1>3, <1>5
<1>7. ASSUME NEW i \in 1..Len(h) PROVE h[i] # Blank /\ h[i] \notin DOMAIN Lower
  <2>1. i + 1 \in 1..Len(d)
    BY <1>5, <1>6
  <2>2. h[i] \in ToSet(d)
    BY <2>1, <1>1, <1>5, ToSetMember
  <2> QED
    BY <2>2, <1>2, BlankIsNoDot, CaseAssumption
<1>8. h[Len(h)] # "."
  <2>1. Len(h) \in 1..Len(h) /\ Len(h) + 1 = Len(d)
    BY <1>5, <1>6
  <2> QED
    BY <2>1, <1>4, <1>5
<1>9. d = <<".">> \o h
  <2> DEFINE s == <<".">>
  <2>1. s \in Seq(Alphabet) /\ Len(s) = 1 /\ s[1] = "."
    BY DEF Alphabet
  <2> HIDE DEF s
  <2>2. /\ s \o h \in Seq(Alphabet) /\ Len(s \o h) = Len(s) + Len(h)
        /\ \A i \in 1..Len(s) : (s \o h)[i] = s[i]
        /\ \A i \in 1..Len(h) : (s \o h)[i + Len(s)] = h[i]
    <3>1. s \in Seq(Alphabet) /\ h \in Seq(Alphabet)
      BY <2>1, <1>5
    <3> QED
      BY <3>1, ConcatLines
  <2>3. Len(s \o h) = Len(d)
    BY <2>1, <2>2, <1>5, <1>6
  <2>4. ASSUME NEW i \in 1..Len(d) PROVE d[i] = (s \o h)[i]
    <3>1. CASE i = 1
      BY <3>1, <2>1, <2>2, <1>3
    <3>2. CASE i # 1
      <4>1. i - 1 \in 1..Len(h) /\ i = (i - 1) + 1
        BY <3>2, <1>5, <1>6
      <4> QED
        BY <4>1, <2>1, <2>2, <1>5
    <3> QED
      BY <3>1, <3>2
  <2>5. d = s \o h
    BY <2>2, <2>3, <2>4, <1>1, SeqEqual
  <2> QED
    BY <2>5 DEF s
<1>10. Host(labels) = h
  BY DEF Host, h, d
<1> QED
  BY <1>5, <1>6, <1>7, <1>8, <1>9, <1>10 DEF d

-----------------------------------------------------------------------------
(* Spellings                                                               *)

(* A text without blanks at its ends stays as it is.                       *)
LEMMA StripClean ==
    ASSUME NEW S, NEW t \in Seq(S), Len(t) > 0, t[1] # Blank, t[Len(t)] # Blank
    PROVE  Strip(t) = t
<1> DEFINE kept == {i \in DOMAIN t : t[i] # Blank}
           n == Len(t)
<1>0. n \in Nat /\ DOMAIN t = 1..n /\ 0 < n /\ t[1] # Blank /\ t[n] # Blank
  OBVIOUS
<1>7. SubSeq(t, 1, n) = t
  BY SubSeqFull
<1> HIDE DEF n
<1>1. n \in Nat /\ 1 \in kept /\ n \in kept /\ kept \subseteq 1..n
  BY <1>0
<1> HIDE DEF kept
<1>2. kept \subseteq Nat /\ kept \subseteq 0..n /\ kept # {}
  BY <1>1
<1>3. Min(kept) \in kept /\ \A y \in kept : Min(kept) <= y
  BY <1>2, MinIsLeast
<1>4. Max(kept) \in kept /\ \A y \in kept : y <= Max(kept)
  BY <1>1, <1>2, MaxIsGreatest
<1>5. Min(kept) = 1
  <2> DEFINE m == Min(kept)
  <2> HIDE DEF m
  <2>1. m \in 1..n /\ m <= 1
    BY <1>1, <1>3 DEF m
  <2>2. m = 1
    BY <2>1, <1>1
  <2> QED
    BY <2>2 DEF m
<1>6. Max(kept) = n
  <2> DEFINE m == Max(kept)
  <2> HIDE DEF m
  <2>1. m \in 1..n /\ n <= m
    BY <1>1, <1>4 DEF m
  <2>2. m = n
    BY <2>1, <1>1
  <2> QED
    BY <2>2 DEF m
<1> QED
  BY <1>2, <1>5, <1>6, <1>7 DEF Strip, kept

(* RStrip keeps what comes before the characters at the end.               *)
LEMMA RStripKeeps ==
    ASSUME NEW S, NEW t \in Seq(S), NEW n \in 1..Len(t), NEW char,
           t[n] # char, \A i \in (n + 1)..Len(t) : t[i] = char
    PROVE  RStrip(t, char) = SubSeq(t, 1, n)
<1> DEFINE kept == {0} \cup {i \in DOMAIN t : t[i] # char}
<1>1. kept \subseteq 0..Len(t) /\ Len(t) \in Nat /\ n \in kept
  OBVIOUS
<1>2. \A i \in kept : i <= n
  OBVIOUS
<1> HIDE DEF kept
<1>3. kept # {}
  BY <1>1
<1>4. Max(kept) \in kept /\ \A y \in kept : y <= Max(kept)
  BY <1>1, <1>3, MaxIsGreatest
<1>5. Max(kept) = n
  <2> DEFINE m == Max(kept)
  <2> HIDE DEF m
  <2>1. m \in 0..Len(t) /\ m <= n /\ n <= m
    BY <1>1, <1>2, <1>4 DEF m
  <2>2. m = n
    BY <2>1, <1>1
  <2> QED
    BY <2>2 DEF m
<1> QED
  BY <1>5 DEF RStrip, kept

(* The cases of a text.                                                    *)
LEMMA CasedTyped ==
    ASSUME NEW t \in Seq(Alphabet), NEW case \in {Upper, Lower}
    PROVE  /\ Cased(case, t) \in Seq(Alphabet) /\ Len(Cased(case, t)) = Len(t)
           /\ \A i \in 1..Len(t) : Cased(case, t)[i] =
                IF t[i] \in DOMAIN case THEN case[t[i]] ELSE t[i]
<1> DEFINE C(i) == IF t[i] \in DOMAIN case THEN case[t[i]] ELSE t[i]
           c == Cased(case, t)
<1>1. \A i \in 1..Len(t) : C(i) \in Alphabet
  BY DEF Alphabet
<1>2. c = [i \in 1..Len(t) |-> C(i)] /\ Len(t) \in Nat
  BY DEF Cased
<1>3. c \in [1..Len(t) -> Alphabet] /\ \A i \in 1..Len(t) : c[i] = C(i)
  <2> HIDE DEF C, c
  <2> QED
    BY <1>1, <1>2
<1> HIDE DEF c
<1>4. c \in Seq(Alphabet) /\ Len(c) = Len(t)
  BY <1>2, <1>3, ListTyped
<1> QED
  BY <1>3, <1>4 DEF c

(* A text in the upper or in the lower case of a host.                     *)
Spells(t, labels) ==
    /\ t \in Seq(Alphabet) /\ Len(t) \in Nat \ {0}
    /\ \A i \in 1..Len(t) : t[i] # Blank
    /\ t[Len(t)] # "."
    /\ Cased(Lower, t) = Host(labels)

LEMMA HostSpells ==
    ASSUME NEW labels \in Seq(Labels), labels # <<>>
    PROVE  Spells(Host(labels), labels) /\ Spells(Cased(Upper, Host(labels)), labels)
<1> DEFINE h == Host(labels)
           u == Cased(Upper, h)
<1>1. /\ h \in Seq(Alphabet) /\ Len(h) \in Nat \ {0}
      /\ \A i \in 1..Len(h) : h[i] # Blank /\ h[i] \notin DOMAIN Lower
      /\ h[Len(h)] # "."
  BY HostChars
<1> HIDE DEF h
<1>2. /\ u \in Seq(Alphabet) /\ Len(u) = Len(h)
      /\ \A i \in 1..Len(h) : u[i] = IF h[i] \in DOMAIN Upper THEN Upper[h[i]] ELSE h[i]
  BY <1>1, CasedTyped
<1> HIDE DEF u
<1>3. Cased(Lower, h) = h
  <2> DEFINE c == Cased(Lower, h)
  <2>1. /\ c \in Seq(Alphabet) /\ Len(c) = Len(h)
        /\ \A i \in 1..Len(h) : c[i] = IF h[i] \in DOMAIN Lower THEN Lower[h[i]] ELSE h[i]
    BY <1>1, CasedTyped
  <2> HIDE DEF c
  <2>2. \A i \in 1..Len(c) : c[i] = h[i]
    BY <2>1, <1>1
  <2>3. c = h
    BY <2>1, <2>2, <1>1, SeqEqual
  <2> QED
    BY <2>3 DEF c
<1>4. Cased(Lower, u) = h
  <2> DEFINE c == Cased(Lower, u)
  <2>1. /\ c \in Seq(Alphabet) /\ Len(c) = Len(u)
        /\ \A i \in 1..Len(u) : c[i] = IF u[i] \in DOMAIN Lower THEN Lower[u[i]] ELSE u[i]
    BY <1>2, CasedTyped
  <2> HIDE DEF c
  <2>2. ASSUME NEW i \in 1..Len(c) PROVE c[i] = h[i]
    <3>1. i \in 1..Len(h) /\ i \in 1..Len(u)
      BY <2>1, <1>2
    <3>2. CASE h[i] \in DOMAIN Upper
      <4>1. u[i] = Upper[h[i]]
        BY <3>1, <3>2, <1>2
      <4>2. Upper[h[i]] \in DOMAIN Lower /\ Lower[Upper[h[i]]] = h[i]
        BY <3>2, CaseAssumption
      <4> QED
        BY <3>1, <4>1, <4>2, <2>1
    <3>3. CASE h[i] \notin DOMAIN Upper
      BY <3>1, <3>3, <2>1, <1>1, <1>2
    <3> QED
      BY <3>2, <3>3
  <2>3. c = h
    BY <2>1, <2>2, <1>1, <1>2, SeqEqual
  <2> QED
    BY <2>3 DEF c
<1>5. ASSUME NEW i \in 1..Len(u) PROVE u[i] # Blank
  BY <1>1, <1>2, CaseAssumption
<1>6. u[Len(u)] # "."
  <2> DEFINE m == Len(h)
  <2> HIDE DEF m
  <2>0. m \in Nat \ {0} /\ Len(u) = m
    BY <1>1, <1>2 DEF m
  <2>1. Len(u) \in 1..Len(h)
    BY <2>0 DEF m
  <2> QED
    BY <2>1, <1>1, <1>2, CaseAssumption
<1> QED
  BY <1>1, <1>2, <1>3, <1>4, <1>5, <1>6 DEF Spells, h, u

(* A host is recognised in upper case, and with a root dot.                *)
LEMMA SpellingsNormalize ==
    ASSUME NEW labels \in Seq(Labels), labels # <<>>, NEW host \in Spellings(labels)
    PROVE  NormalizeHost(host) = Host(labels)
<1>1. PICK t : Spells(t, labels) /\ (host = t \/ host = Append(t, "."))
  BY HostSpells DEF Spellings
<1> DEFINE n == Len(t)
<1>2. /\ t \in Seq(Alphabet) /\ n \in Nat \ {0} /\ \A i \in 1..n : t[i] # Blank
      /\ t[n] # "." /\ Cased(Lower, t) = Host(labels)
  BY <1>1 DEF Spells
<1> HIDE DEF n
<1>3. /\ host \in Seq(Alphabet) /\ Len(host) \in {n, n + 1}
      /\ \A i \in 1..n : host[i] = t[i]
      /\ \A i \in (n + 1)..Len(host) : host[i] = "."
  <2>0. Len(t) = n
    BY DEF n
  <2>1. CASE host = t
    <3>1. (n + 1)..n = {}
      BY <1>2
    <3> QED
      BY <3>1, <2>0, <2>1, <1>2
  <2>2. CASE host = Append(t, ".")
    <3> DEFINE dot == "."
    <3>1. dot \in Alphabet
      BY DEF Alphabet
    <3> HIDE DEF dot
    <3>2. /\ Append(t, dot) \in Seq(Alphabet) /\ Len(Append(t, dot)) = n + 1
          /\ \A i \in 1..n : Append(t, dot)[i] = t[i]
          /\ Append(t, dot)[n + 1] = dot
      BY <3>1, <2>0, <1>2, AppendProperties
    <3>3. \A i \in (n + 1)..(n + 1) : i = n + 1
      BY <1>2
    <3> QED
      BY <3>2, <3>3, <2>2 DEF dot
  <2> QED
    BY <2>1, <2>2, <1>1
<1>4. Strip(host) = host
  <2>1. Len(host) > 0 /\ 1 \in 1..n
    BY <1>2, <1>3
  <2>2. host[1] # Blank
    BY <2>1, <1>2, <1>3
  <2>3. host[Len(host)] # Blank
    <3>1. CASE Len(host) = n
      <4>1. n \in 1..n
        BY <1>2
      <4> QED
        BY <3>1, <4>1, <1>2, <1>3
    <3>2. CASE Len(host) = n + 1
      <4>1. Len(host) \in (n + 1)..Len(host)
        BY <3>2, <1>2
      <4> QED
        BY <4>1, <1>3, BlankIsNoDot
    <3> QED
      BY <3>1, <3>2, <1>3
  <2> QED
    BY <2>1, <2>2, <2>3, <1>3, StripClean
<1>5. RStrip(host, ".") = t
  <2>1. n \in 1..Len(host) /\ n \in 1..n
    BY <1>2, <1>3
  <2>2. host[n] # "."
    BY <2>1, <1>2, <1>3
  <2>3. RStrip(host, ".") = SubSeq(host, 1, n)
    BY <2>1, <2>2, <1>3, RStripKeeps
  <2>4. /\ SubSeq(host, 1, n) \in Seq(Alphabet) /\ Len(SubSeq(host, 1, n)) = n
        /\ \A i \in 1..n : SubSeq(host, 1, n)[i] = host[i]
    BY <2>1, <1>2, <1>3
  <2>5. SubSeq(host, 1, n) = t
    BY <2>4, <1>2, <1>3, SeqEqual DEF n
  <2> QED
    BY <2>3, <2>5
<1> QED
  BY <1>2, <1>4, <1>5 DEF NormalizeHost

-----------------------------------------------------------------------------
(* Subdomains                                                              *)

LEMMA DotBefore ==
    ASSUME NEW a \in Seq(Alphabet)
    PROVE  /\ <<".">> \o a \in Seq(Alphabet) /\ Len(<<".">> \o a) = Len(a) + 1
           /\ (<<".">> \o a)[1] = "."
           /\ \A i \in 1..Len(a) : (<<".">> \o a)[i + 1] = a[i]
<1> DEFINE d == <<".">>
<1>1. d \in Seq(Alphabet) /\ Len(d) = 1 /\ d[1] = "."
  BY DEF Alphabet
<1> HIDE DEF d
<1>2. /\ d \o a \in Seq(Alphabet) /\ Len(d \o a) = Len(d) + Len(a)
      /\ \A i \in 1..Len(d) : (d \o a)[i] = d[i]
      /\ \A i \in 1..Len(a) : (d \o a)[i + Len(d)] = a[i]
  <2>1. d \in Seq(Alphabet) /\ a \in Seq(Alphabet)
    BY <1>1
  <2> QED
    BY <2>1, ConcatLines
<1>3. Len(a) \in Nat /\ 1 \in 1..Len(d)
  BY <1>1
<1> QED
  BY <1>1, <1>2, <1>3 DEF d

LEMMA DotCancels ==
    ASSUME NEW a \in Seq(Alphabet), NEW b \in Seq(Alphabet), <<".">> \o a = <<".">> \o b
    PROVE  a = b
<1> DEFINE x == <<".">> \o a
           y == <<".">> \o b
<1>1. Len(x) = Len(a) + 1 /\ \A i \in 1..Len(a) : x[i + 1] = a[i]
  BY DotBefore
<1>2. Len(y) = Len(b) + 1 /\ \A i \in 1..Len(b) : y[i + 1] = b[i]
  BY DotBefore
<1>3. x = y
  OBVIOUS
<1> HIDE DEF x, y
<1>4. Len(a) = Len(b)
  <2>1. Len(a) \in Nat /\ Len(b) \in Nat
    OBVIOUS
  <2> QED
    BY <2>1, <1>1, <1>2, <1>3
<1>5. \A i \in 1..Len(a) : a[i] = b[i]
  BY <1>1, <1>2, <1>3, <1>4
<1> QED
  BY <1>4, <1>5, SeqEqual

(* A suffix of the second of two texts is one of their concatenation.      *)
LEMMA SuffixAfter ==
    ASSUME NEW S, NEW e \in Seq(S), NEW s \in Seq(S), NEW t \in Seq(S), IsSuffix(e, t)
    PROVE  IsSuffix(e, s \o t)
<1> DEFINE u == s \o t
<1>1. u \in Seq(S) /\ Len(u) = Len(s) + Len(t) /\ \A i \in 1..Len(t) : u[i + Len(s)] = t[i]
  BY ConcatLines
<1> HIDE DEF u
<1>2. Len(e) <= Len(t) /\ \A i \in 1..Len(e) : e[i] = t[Len(t) - Len(e) + i]
  BY SuffixChars
<1>3. Len(s) \in Nat /\ Len(t) \in Nat /\ Len(e) \in Nat
  OBVIOUS
<1>4. ASSUME NEW i \in 1..Len(e) PROVE e[i] = u[Len(u) - Len(e) + i]
  <2>1. /\ Len(t) - Len(e) + i \in 1..Len(t)
        /\ Len(u) - Len(e) + i = (Len(t) - Len(e) + i) + Len(s)
    BY <1>1, <1>2, <1>3
  <2> QED
    BY <2>1, <1>1, <1>2
<1>5. Len(e) <= Len(u)
  BY <1>1, <1>2, <1>3
<1> QED
  BY <1>1, <1>4, <1>5, SuffixChars DEF u

(* A host ends with a dot and a domain where it ends with the labels of    *)
(* the domain, after others.                                               *)
LEMMA LabelSuffix ==
    ASSUME NEW labels \in Seq(Labels), labels # <<>>, NEW d \in Seq(Alphabet)
    PROVE  IsSuffix(<<".">> \o d, Host(labels)) <=>
             \E k \in 1..(Len(labels) - 1) :
                Host(SubSeq(labels, k + 1, Len(labels))) = d
<1> DEFINE n == Len(labels)
           h == Host(labels)
           e == <<".">> \o d
           R(k) == Dotted(SubSeq(labels, k, n))
<1>0. n \in Nat /\ 1 \in 1..n
  OBVIOUS
<1>1. h \in Seq(Alphabet) /\ Len(h) \in Nat /\ Dotted(labels) = <<".">> \o h
  BY HostChars
<1>2. e \in Seq(Alphabet) /\ Len(e) = Len(d) + 1 /\ e[1] = "." /\ Len(d) \in Nat
  BY DotBefore
<1>3. ASSUME NEW k \in 1..n
      PROVE  /\ SubSeq(labels, k, n) \in Seq(Labels) /\ SubSeq(labels, k, n) # <<>>
             /\ R(k) = <<".">> \o Host(SubSeq(labels, k, n))
             /\ Host(SubSeq(labels, k, n)) \in Seq(Alphabet)
  <2>1. SubSeq(labels, k, n) \in Seq(Labels)
    BY DottedRest
  <2>2. Len(SubSeq(labels, k, n)) = (n - k) + 1
    OBVIOUS
  <2>3. SubSeq(labels, k, n) # <<>>
    <3>1. Len(SubSeq(labels, k, n)) # 0
      BY <2>2, <1>0
    <3> QED
      BY <3>1
  <2> QED
    BY <2>1, <2>3, HostChars
<1>4. ASSUME IsSuffix(e, h) PROVE \E k \in 1..(n - 1) : Host(SubSeq(labels, k + 1, n)) = d
  <2>1. IsSuffix(e, Dotted(labels))
    <3> DEFINE s == <<".">>
    <3>1. s \in Seq(Alphabet)
      BY DEF Alphabet
    <3> HIDE DEF s, e, h
    <3>2. IsSuffix(e, s \o h)
      BY <3>1, <1>1, <1>2, <1>4, SuffixAfter
    <3> QED
      BY <3>2, <1>1 DEF s
  <2>2. PICK k \in 1..n : e = R(k)
    <3> HIDE DEF e
    <3>1. Len(e) > 0
      BY <1>2
    <3> QED
      BY <3>1, <2>1, <1>2, LabelBoundary
  <2>3. k # 1
    <3>1. ASSUME k = 1 PROVE FALSE
      <4>1. R(1) = Dotted(labels)
        BY SubSeqFull
      <4>2. Len(Dotted(labels)) = Len(h) + 1
        BY <1>1, DotBefore
      <4>3. Len(e) <= Len(h)
        <5> HIDE DEF e, h
        <5> QED
          BY <1>1, <1>2, <1>4, SuffixChars
      <4>4. Len(e) = Len(h) + 1
        BY <3>1, <4>1, <4>2, <2>2
      <4> HIDE DEF e, h
      <4> QED
        BY <4>3, <4>4, <1>1
    <3> QED
      BY <3>1
  <2>4. Host(SubSeq(labels, k, n)) = d
    <3> DEFINE a == Host(SubSeq(labels, k, n))
    <3>1. a \in Seq(Alphabet) /\ <<".">> \o d = <<".">> \o a
      BY <2>2, <1>3
    <3> HIDE DEF a
    <3>2. a = d
      BY <3>1, DotCancels
    <3> QED
      BY <3>2 DEF a
  <2>5. k - 1 \in 1..(n - 1) /\ (k - 1) + 1 = k
    BY <2>3, <1>0
  <2> QED
    BY <2>4, <2>5
<1>5. ASSUME NEW k \in 1..(n - 1), Host(SubSeq(labels, k + 1, n)) = d PROVE IsSuffix(e, h)
  <2>1. k \in 1..n /\ k + 1 \in 1..n
    BY <1>0
  <2>2. e = R(k + 1)
    BY <2>1, <1>3, <1>5
  <2>3. IsSuffix(e, Dotted(labels))
    <3> HIDE DEF e
    <3>1. Len(e) > 0
      BY <1>2
    <3> QED
      BY <3>1, <2>1, <2>2, <1>2, LabelBoundary
  <2> DEFINE p == <<".">> \o labels[k]
  <2>4. PICK before \in Seq(Alphabet) : Dotted(labels) = before \o (p \o e)
    BY <2>1, <2>2, DottedRest
  <2>5. p \in Seq(Alphabet) /\ Len(p) > 0
    <3>1. labels[k] \in Labels
      BY <2>1
    <3> DEFINE l == labels[k]
    <3> HIDE DEF l
    <3>2. l \in Seq(Alphabet) /\ Len(l) \in Nat
      BY <3>1, LabelTyped DEF l
    <3>3. Len(<<".">> \o l) = Len(l) + 1 /\ <<".">> \o l \in Seq(Alphabet)
      BY <3>2, DotBefore
    <3> QED
      BY <3>2, <3>3 DEF l
  <2> HIDE DEF p, e, h
  <2>6. Len(Dotted(labels)) = Len(before) + (Len(p) + Len(e))
    <3>1. p \o e \in Seq(Alphabet) /\ Len(p \o e) = Len(p) + Len(e)
      BY <2>5, <1>2, ConcatLines
    <3>2. Len(before \o (p \o e)) = Len(before) + Len(p \o e)
      BY <3>1, ConcatLines
    <3> QED
      BY <3>1, <3>2, <2>4
  <2>7. Len(Dotted(labels)) = Len(h) + 1
    BY <1>1, DotBefore
  <2>8. Len(e) <= Len(h)
    <3>1. Len(before) \in Nat /\ Len(p) \in Nat /\ Len(e) \in Nat
      BY <2>5, <1>2
    <3> QED
      BY <3>1, <2>5, <2>6, <2>7, <1>1
  <2>9. IsSuffix(e, <<".">> \o h)
    BY <2>3, <1>1
  <2> DEFINE s == <<".">>
  <2>10. s \in Seq(Alphabet)
    BY DEF Alphabet
  <2> HIDE DEF s
  <2>11. IsSuffix(e, s \o h)
    BY <2>9 DEF s
  <2> QED
    BY <2>8, <2>10, <2>11, <1>1, <1>2, SuffixOfConcat
<1> QED
  BY <1>4, <1>5

-----------------------------------------------------------------------------
(* Domains                                                                 *)

LEMMA StripTyped ==
    ASSUME NEW S, NEW t \in Seq(S)
    PROVE  Strip(t) \in Seq(S)
<1> DEFINE kept == {i \in DOMAIN t : t[i] # Blank}
           n == Len(t)
<1>1. n \in Nat /\ kept \subseteq 1..n /\ \A i \in 1..n : t[i] \in S
  OBVIOUS
<1> HIDE DEF kept
<1>2. CASE kept = {}
  <2>1. Strip(t) = <<>>
    BY <1>2 DEF Strip, kept
  <2> QED
    BY <2>1
<1>3. CASE kept # {}
  <2> DEFINE a == Min(kept)
             b == Max(kept)
  <2>1. kept \subseteq Nat /\ kept \subseteq 0..n
    BY <1>1
  <2>2. a \in kept /\ b \in kept
    <3>1. a \in kept
      BY <1>3, <2>1, MinIsLeast
    <3>2. b \in kept
      BY <1>1, <1>3, <2>1, MaxIsGreatest
    <3> QED
      BY <3>1, <3>2
  <2> HIDE DEF a, b, n
  <2>3. a \in Int /\ b \in Int /\ \A i \in a..b : t[i] \in S
    BY <2>2, <1>1
  <2>4. SubSeq(t, a, b) \in Seq(S)
    BY <2>3, SubSeqProperties
  <2> QED
    BY <1>3, <2>4 DEF Strip, kept, a, b
<1> QED
  BY <1>2, <1>3

LEMMA RStripTyped ==
    ASSUME NEW S, NEW t \in Seq(S), NEW char
    PROVE  RStrip(t, char) \in Seq(S)
<1> DEFINE kept == {0} \cup {i \in DOMAIN t : t[i] # char}
           n == Len(t)
<1>1. n \in Nat /\ kept \subseteq 0..n /\ kept # {} /\ \A i \in 1..n : t[i] \in S
  OBVIOUS
<1> HIDE DEF kept
<1> DEFINE b == Max(kept)
<1>2. b \in kept
  BY <1>1, MaxIsGreatest
<1> HIDE DEF b, n
<1>3. 1 \in Int /\ b \in Int /\ \A i \in 1..b : t[i] \in S
  BY <1>2, <1>1
<1>4. SubSeq(t, 1, b) \in Seq(S)
  BY <1>3, SubSeqProperties
<1> QED
  BY <1>4 DEF RStrip, kept, b

LEMMA NormalizeTyped ==
    ASSUME NEW t \in Seq(Alphabet)
    PROVE  NormalizeHost(t) \in Seq(Alphabet)
<1>1. Strip(t) \in Seq(Alphabet)
  BY StripTyped
<1>2. RStrip(Strip(t), ".") \in Seq(Alphabet)
  BY <1>1, RStripTyped
<1> QED
  BY <1>2, CasedTyped DEF NormalizeHost

(* The table holds values that an administrator may write.                 *)
Written(t) ==
    /\ DOMAIN t \subseteq DOMAIN Values
    /\ \A key \in DOMAIN t : t[key] \in Values[key]

(* An array that is accepted has texts, one at least.                      *)
LEMMA ArrayItems ==
    ASSUME NEW t, Written(t), NEW key \in DOMAIN t, key # "inject_headers",
           HasTomlArray(t[key])
    PROVE  /\ t[key].items \in Seq(Seq(Characters)) /\ Len(t[key].items) > 0
<1> DEFINE v == t[key]
<1>1. key \in DOMAIN Values /\ v \in Values[key]
  BY DEF Written
<1>2. v.items \in Seq(Seq(Characters)) /\ (v.type = "string" => Len(v.items) = 1)
  BY <1>1, ValuesAssumption
<1>3. v.type = "string" \/ (v.type = "list" /\ v.items # <<>>)
  BY DEF HasTomlArray
<1>4. Len(v.items) > 0
  <2> DEFINE items == v.items
  <2>1. items \in Seq(Seq(Characters)) /\ (Len(items) = 1 \/ items # <<>>)
    BY <1>2, <1>3
  <2> HIDE DEF items
  <2>2. Len(items) \in Nat /\ (items # <<>> => Len(items) # 0)
    BY <2>1, EmptySeq
  <2> DEFINE n == Len(items)
  <2> HIDE DEF n
  <2>3. n \in Nat /\ (n = 1 \/ n # 0)
    BY <2>1, <2>2 DEF n
  <2>4. n > 0
    BY <2>3
  <2> HIDE DEF v
  <2> QED
    BY <2>4 DEF n, items
<1> QED
  BY <1>2, <1>3, <1>4

(* A domain rule that is accepted.                                         *)
LEMMA DomainRuleIs ==
    ASSUME NEW t, Written(t), ParseRule(t).ok, ~ParseRule(t).value.isRegex
    PROVE  /\ "domain" \in DOMAIN t /\ t["domain"].items \in Seq(Seq(Characters))
           /\ Len(t["domain"].items) > 0
           /\ ParseRule(t).value.domain =
                [i \in DOMAIN t["domain"].items |-> NormalizeHost(t["domain"].items[i])]
           /\ ParseRule(t).value.includeSubdomains = Flag(t, "include_subdomains")
<1>1. "domain" \in DOMAIN t /\ ParseDomainValue(t).ok
  <2>1. "domain_regex" \notin DOMAIN t
    BY DEF ParseRule, Accepted, Refused
  <2>2. "domain" \in DOMAIN t \/ "domain_regex" \in DOMAIN t
    BY DEF ParseRule, Accepted, Refused
  <2>3. "domain" \in DOMAIN t
    BY <2>1, <2>2
  <2> QED
    BY <2>3 DEF ParseRule, Accepted, Refused
<1>2. /\ ParseRule(t).value.domain = ParseDomainValue(t).value
      /\ ParseRule(t).value.includeSubdomains = Flag(t, "include_subdomains")
  BY <1>1 DEF ParseRule, Accepted, Refused
<1>3. HasTomlArray(t["domain"])
  BY <1>1 DEF ParseDomainValue, Accepted, Refused
<1>4. /\ t["domain"].items \in Seq(Seq(Characters))
      /\ Len(t["domain"].items) > 0
  BY <1>1, <1>3, ArrayItems
<1>5. ParseDomainValue(t).value =
        [i \in DOMAIN t["domain"].items |-> NormalizeHost(t["domain"].items[i])]
  BY <1>3, <1>4 DEF ParseDomainValue, Accepted
<1> QED
  BY <1>1, <1>2, <1>4, <1>5

(* A host is a domain, or a subdomain of it, as its labels say.            *)
LEMMA HostOrSubdomain ==
    ASSUME NEW labels \in Seq(Labels), labels # <<>>, NEW d \in Seq(Alphabet), NEW wide
    PROVE  (Host(labels) = d \/ (wide /\ IsSuffix(<<".">> \o d, Host(labels)))) <=>
             \E k \in 0..(Len(labels) - 1) :
                /\ k = 0 \/ wide
                /\ Host(SubSeq(labels, k + 1, Len(labels))) = d
<1> DEFINE n == Len(labels)
           H(k) == Host(SubSeq(labels, k + 1, n))
<1>1. n \in Nat \ {0} /\ 0 \in 0..(n - 1)
  <2>1. n \in Nat \ {0}
    BY EmptySeq
  <2> HIDE DEF n
  <2> QED
    BY <2>1
<1>2. H(0) = Host(labels)
  <2>1. SubSeq(labels, 1, n) = labels
    BY SubSeqFull
  <2>2. 0 + 1 = 1
    OBVIOUS
  <2> QED
    BY <2>1, <2>2
<1>3. IsSuffix(<<".">> \o d, Host(labels)) <=> \E k \in 1..(n - 1) : H(k) = d
  BY LabelSuffix
<1>4. \A k : k \in 0..(n - 1) <=> (k = 0 \/ k \in 1..(n - 1))
  <2> HIDE DEF n
  <2> QED
    BY <1>1
<1> HIDE DEF n, H
<1>5. (Host(labels) = d \/ (wide /\ \E k \in 1..(n - 1) : H(k) = d)) <=>
        \E k \in 0..(n - 1) : (k = 0 \/ wide) /\ H(k) = d
  <2>1. ASSUME NEW k \in 0..(n - 1), k = 0 \/ wide, H(k) = d
        PROVE  Host(labels) = d \/ (wide /\ \E j \in 1..(n - 1) : H(j) = d)
    <3>1. CASE k = 0
      BY <3>1, <2>1, <1>2
    <3>2. CASE k # 0
      <4>1. k \in 1..(n - 1) /\ wide
        BY <3>2, <2>1, <1>4
      <4> QED
        BY <4>1, <2>1
    <3> QED
      BY <3>1, <3>2
  <2>2. ASSUME Host(labels) = d PROVE \E k \in 0..(n - 1) : (k = 0 \/ wide) /\ H(k) = d
    BY <2>2, <1>1, <1>2
  <2>3. ASSUME wide, NEW k \in 1..(n - 1), H(k) = d
        PROVE  \E j \in 0..(n - 1) : (j = 0 \/ wide) /\ H(j) = d
    <3>1. k \in 0..(n - 1)
      BY <1>4
    <3> QED
      BY <3>1, <2>3
  <2> QED
    BY <2>1, <2>2, <2>3
<1> QED
  BY <1>3, <1>5 DEF n, H

(* A domain rule is of the hosts its domains name.                         *)
LEMMA MatchesByLabel ==
    ASSUME NEW t, Written(t), ParseRule(t).ok, ~ParseRule(t).value.isRegex,
           NEW labels \in Seq(Labels), labels # <<>>, NEW host \in Spellings(labels)
    PROVE  MatchesHost(ParseRule(t).value, host) <=>
             \E domain \in ToSet(t["domain"].items) :
                \E k \in 0..(Len(labels) - 1) :
                    /\ k = 0 \/ Flag(t, "include_subdomains")
                    /\ Host(SubSeq(labels, k + 1, Len(labels))) = HostOf(domain)
<1> DEFINE rule == ParseRule(t).value
           items == t["domain"].items
           wide == Flag(t, "include_subdomains")
           Named(domain) == \E k \in 0..(Len(labels) - 1) :
                                /\ k = 0 \/ wide
                                /\ Host(SubSeq(labels, k + 1, Len(labels))) = HostOf(domain)
           Hit(domain) == \/ Host(labels) = HostOf(domain)
                          \/ wide /\ IsSuffix(<<".">> \o HostOf(domain), Host(labels))
<1>1. /\ items \in Seq(Seq(Characters)) /\ rule.includeSubdomains = wide
      /\ rule.domain = [i \in DOMAIN items |-> NormalizeHost(items[i])]
  BY DomainRuleIs
<1>2. NormalizeHost(host) = Host(labels)
  BY SpellingsNormalize
<1>3. /\ DOMAIN rule.domain = DOMAIN items
      /\ \A i \in DOMAIN items : NormalizeHost(rule.domain[i]) = HostOf(items[i])
  BY <1>1 DEF HostOf
<1>4. ~rule.isRegex
  OBVIOUS
<1>5. ASSUME NEW domain \in ToSet(items) PROVE Hit(domain) <=> Named(domain)
  <2>1. domain \in Seq(Characters)
    BY <1>1, ToSetMember
  <2>2. Characters \subseteq Alphabet
    BY DEF Alphabet
  <2>3. domain \in Seq(Alphabet)
    BY <2>1, <2>2, SeqMonotonic
  <2> DEFINE d == HostOf(domain)
  <2>4. d \in Seq(Alphabet)
    <3>1. NormalizeHost(domain) \in Seq(Alphabet)
      BY <2>3, NormalizeTyped
    <3> QED
      BY <3>1, NormalizeTyped DEF HostOf
  <2> HIDE DEF d, wide
  <2>5. (Host(labels) = d \/ (wide /\ IsSuffix(<<".">> \o d, Host(labels)))) <=>
          \E k \in 0..(Len(labels) - 1) :
                /\ k = 0 \/ wide
                /\ Host(SubSeq(labels, k + 1, Len(labels))) = d
    BY <2>4, HostOrSubdomain
  <2> QED
    BY <2>5 DEF d
<1>6. ToSet(items) = {items[i] : i \in DOMAIN items}
  BY DEF ToSet
<1> HIDE DEF items, wide, rule, Named
<1>7. MatchesHost(rule, host) <=> \E i \in DOMAIN items : Hit(items[i])
  BY <1>1, <1>2, <1>3, <1>4 DEF MatchesHost
<1> HIDE DEF Hit
<1>8. (\E i \in DOMAIN items : Hit(items[i])) <=> \E domain \in ToSet(items) : Named(domain)
  BY <1>5, <1>6
<1> QED
  BY <1>7, <1>8 DEF items, wide, rule, Named

LEMMA HostLabelsTyped ==
    ASSUME NEW labels \in HostLabels
    PROVE  labels \in Seq(Labels) /\ labels # <<>>
<1>1. PICK m \in 0..MaxLabels : labels \in [1..m -> Labels]
  BY DEF HostLabels, BoundedSeq, SeqOf
<1>2. m \in Nat
  BY BoundsAssumption
<1>3. labels \in Seq(Labels)
  BY <1>1, <1>2, ListTyped
<1> QED
  BY <1>3 DEF HostLabels

LEMMA WrittenMatches ==
    ASSUME Written(table)
    PROVE  HostsMatchByLabel
<1> SUFFICES ASSUME ParseRule(table).ok, ~ParseRule(table).value.isRegex,
                    NEW labels \in HostLabels, NEW host \in Spellings(labels)
             PROVE  MatchesHost(ParseRule(table).value, host) <=>
                      \E domain \in ToSet(table["domain"].items) :
                        \E k \in 0..(Len(labels) - 1) :
                            /\ k = 0 \/ Flag(table, "include_subdomains")
                            /\ Host(SubSeq(labels, k + 1, Len(labels))) = HostOf(domain)
  BY DEF HostsMatchByLabel, RulesOf
<1>1. labels \in Seq(Labels) /\ labels # <<>>
  BY HostLabelsTyped
<1> QED
  BY <1>1, MatchesByLabel

-----------------------------------------------------------------------------
(* What an accepted rule is                                                *)

LEMMA DefaultMethods ==
    /\ DefaultAllowedMethods # {} /\ <<>> \notin DefaultAllowedMethods
    /\ AnyMethod \notin DefaultAllowedMethods /\ AnyMethod # <<>>
<1> DEFINE g == <<"G">>
           h == <<"H">>
<1>1. Len(g) = 1 /\ Len(h) = 1 /\ Len(AnyMethod) = 3 /\ Len(<<>>) = 0
  BY DEF AnyMethod
<1>2. DefaultAllowedMethods = {g, h}
  BY DEF DefaultAllowedMethods
<1> HIDE DEF g, h
<1> QED
  BY <1>1, <1>2

LEMMA MethodsParsed ==
    ASSUME NEW t, ParseMethods(t).ok
    PROVE  LET methods == ParseMethods(t).value
           IN  /\ methods # {} /\ <<>> \notin methods
               /\ AnyMethod \in methods => methods = {AnyMethod}
<1> DEFINE value == t["methods"]
           listed == {NormalizeMethod(value.items[i]) : i \in DOMAIN value.items}
<1>1. CASE "methods" \notin DOMAIN t
  <2>1. ParseMethods(t).value = DefaultAllowedMethods
    BY <1>1 DEF ParseMethods, Accepted
  <2> QED
    BY <2>1, DefaultMethods
<1>2. CASE "methods" \in DOMAIN t
  <2> HIDE DEF listed
  <2>1. ParseMethods(t) =
          CASE value.type = "string" /\ listed = {AnyMethod} -> Accepted({AnyMethod})
            [] value.type = "list" /\ listed # {} /\ listed \cap {AnyMethod, <<>>} = {} ->
                 Accepted(listed)
            [] OTHER -> Refused
    BY <1>2 DEF ParseMethods, listed
  <2>2. CASE value.type = "string" /\ listed = {AnyMethod}
    <3>1. value.type # "list"
      BY <2>2
    <3>2. ParseMethods(t).value = {AnyMethod}
      BY <2>1, <2>2, <3>1 DEF Accepted
    <3> QED
      BY <3>2, DefaultMethods
  <2>3. CASE value.type = "list" /\ listed # {} /\ listed \cap {AnyMethod, <<>>} = {}
    <3>1. value.type # "string"
      BY <2>3
    <3>2. ParseMethods(t).value = listed
      BY <2>1, <2>3, <3>1 DEF Accepted
    <3> QED
      BY <3>2, <2>3
  <2>4. CASE /\ ~(value.type = "string" /\ listed = {AnyMethod})
             /\ ~(value.type = "list" /\ listed # {} /\ listed \cap {AnyMethod, <<>>} = {})
    <3>1. ParseMethods(t) = Refused
      BY <2>1, <2>4
    <3> QED
      BY <3>1 DEF Refused
  <2> QED
    BY <2>2, <2>3, <2>4
<1> QED
  BY <1>1, <1>2

LEMMA HeadersParsed ==
    ASSUME NEW t, ParseInjectHeaders(t).ok
    PROVE  LET headers == ParseInjectHeaders(t).value
           IN  \A i \in DOMAIN headers :
                 headers[i][1] # <<>> /\ ToSet(headers[i][2]) \cap {"\r", "\n"} = {}
<1> DEFINE value == t["inject_headers"]
<1>1. CASE "inject_headers" \notin DOMAIN t
  <2>1. ParseInjectHeaders(t).value = <<>>
    BY <1>1 DEF ParseInjectHeaders, Accepted
  <2>2. DOMAIN <<>> = {}
    OBVIOUS
  <2> QED
    BY <2>1, <2>2
<1>2. CASE "inject_headers" \in DOMAIN t
  <2> DEFINE parsed == [i \in DOMAIN value.items |->
                          <<Strip(value.items[i].name), value.items[i].value>>]
  <2>1. /\ ParseInjectHeaders(t).value = parsed
        /\ \A i \in DOMAIN value.items : IsInjectedHeader(value.items[i])
    BY <1>2 DEF ParseInjectHeaders, Accepted, Refused
  <2>2. ASSUME NEW i \in DOMAIN value.items
        PROVE  parsed[i][1] # <<>> /\ ToSet(parsed[i][2]) \cap {"\r", "\n"} = {}
    <3> DEFINE header == value.items[i]
    <3>1. ~IsBlank(header.name) /\ ToSet(header.value) \cap {"\r", "\n"} = {}
      BY <2>1 DEF IsInjectedHeader
    <3>2. parsed[i][1] = Strip(header.name) /\ parsed[i][2] = header.value
      OBVIOUS
    <3> QED
      BY <3>1, <3>2 DEF IsBlank
  <2> QED
    BY <2>1, <2>2
<1> QED
  BY <1>1, <1>2

LEMMA FlagTyped ==
    ASSUME NEW t, Written(t), NEW key, IsBooleanIfSet(t, key)
    PROVE  Flag(t, key) \in BOOLEAN
<1>1. CASE key \in DOMAIN t
  <2>1. key \in DOMAIN Values /\ t[key] \in Values[key] /\ t[key].type = "boolean"
    BY <1>1 DEF Written, IsBooleanIfSet
  <2>2. t[key].value \in BOOLEAN
    BY <2>1, ValuesAssumption
  <2> QED
    BY <1>1, <2>2 DEF Flag
<1>2. CASE key \notin DOMAIN t
  BY <1>2 DEF Flag
<1> QED
  BY <1>1, <1>2

(* A rule of regular expressions that is accepted.                         *)
LEMMA RegexRuleIs ==
    ASSUME NEW t, Written(t), "domain_regex" \in DOMAIN t, ParseDomainRegexValue(t).ok
    PROVE  DOMAIN ParseDomainRegexValue(t).value # {}
<1> DEFINE items == t["domain_regex"].items
           patterns == [i \in DOMAIN items |-> ReCompileIgnoringCase(items[i])]
<1>1. /\ HasTomlArray(t["domain_regex"])
      /\ ParseDomainRegexValue(t).value = [i \in DOMAIN patterns |-> patterns[i].value]
  BY DEF ParseDomainRegexValue, Accepted, Refused
<1>2. items \in Seq(Seq(Characters)) /\ Len(items) > 0
  BY <1>1, ArrayItems
<1>3. DOMAIN ParseDomainRegexValue(t).value = DOMAIN items
  BY <1>1
<1> HIDE DEF items
<1>4. 1 \in DOMAIN items
  BY <1>2
<1> QED
  BY <1>3, <1>4

(* What a rule is made of.                                                 *)
LEMMA RuleIs ==
    ASSUME NEW t, ParseRule(t).ok
    PROVE  LET rule == ParseRule(t).value
               hasDomain == "domain" \in DOMAIN t
               hasRegex == "domain_regex" \in DOMAIN t
           IN  /\ DOMAIN t \subseteq AllowRuleKeys
               /\ hasDomain \/ hasRegex
               /\ ~(hasDomain /\ hasRegex)
               /\ hasRegex => "include_subdomains" \notin DOMAIN t
               /\ rule.isRegex = hasRegex
               /\ hasDomain => ParseDomainValue(t).ok /\ rule.domain = ParseDomainValue(t).value
               /\ hasRegex => /\ ParseDomainRegexValue(t).ok
                              /\ rule.domain = ParseDomainRegexValue(t).value
               /\ IsBooleanIfSet(t, "stream") /\ IsBooleanIfSet(t, "include_subdomains")
               /\ rule.stream = Flag(t, "stream")
               /\ rule.includeSubdomains = Flag(t, "include_subdomains")
               /\ ParseMethods(t).ok /\ rule.methods = ParseMethods(t).value
               /\ ParsePathnameFilters(t).ok
               /\ rule.pathnameFilters = ParsePathnameFilters(t).value
               /\ ParseInjectHeaders(t).ok
               /\ rule.injectHeaders = ParseInjectHeaders(t).value
<1>1. "domain" \in DOMAIN t \/ "domain_regex" \in DOMAIN t
  BY DEF ParseRule, Accepted, Refused
<1>2. ~("domain" \in DOMAIN t /\ "domain_regex" \in DOMAIN t)
  BY DEF ParseRule, Accepted, Refused
<1>3. /\ DOMAIN t \subseteq AllowRuleKeys
      /\ "domain" \notin DOMAIN t => "include_subdomains" \notin DOMAIN t
  BY DEF ParseRule, Accepted, Refused
<1>4. /\ ParseRule(t).value.isRegex = ("domain_regex" \in DOMAIN t)
      /\ ParseRule(t).value.stream = Flag(t, "stream")
      /\ ParseRule(t).value.includeSubdomains = Flag(t, "include_subdomains")
  BY DEF ParseRule, Accepted, Refused
<1>5. IsBooleanIfSet(t, "stream") /\ IsBooleanIfSet(t, "include_subdomains")
  BY DEF ParseRule, Refused
<1>6. /\ ParseMethods(t).ok /\ ParseRule(t).value.methods = ParseMethods(t).value
      /\ ParsePathnameFilters(t).ok
      /\ ParseRule(t).value.pathnameFilters = ParsePathnameFilters(t).value
      /\ ParseInjectHeaders(t).ok
      /\ ParseRule(t).value.injectHeaders = ParseInjectHeaders(t).value
  BY DEF ParseRule, Accepted, Refused
<1>7. ASSUME "domain" \in DOMAIN t
      PROVE  ParseDomainValue(t).ok /\ ParseRule(t).value.domain = ParseDomainValue(t).value
  BY <1>7 DEF ParseRule, Accepted, Refused
<1>8. ASSUME "domain" \notin DOMAIN t
      PROVE  /\ ParseDomainRegexValue(t).ok
             /\ ParseRule(t).value.domain = ParseDomainRegexValue(t).value
  BY <1>8 DEF ParseRule, Accepted, Refused
<1> QED
  BY <1>1, <1>2, <1>3, <1>4, <1>5, <1>6, <1>7, <1>8

LEMMA RuleTyped ==
    ASSUME NEW t, Written(t), ParseRule(t).ok
    PROVE  LET rule == ParseRule(t).value
           IN  /\ DOMAIN rule.domain # {}
               /\ rule.isRegex \in BOOLEAN /\ rule.stream \in BOOLEAN
               /\ rule.includeSubdomains \in BOOLEAN
               /\ rule.isRegex => ~rule.includeSubdomains
               /\ rule.methods # {} /\ <<>> \notin rule.methods
               /\ AnyMethod \in rule.methods => rule.methods = {AnyMethod}
               /\ \A i \in DOMAIN rule.injectHeaders :
                    /\ rule.injectHeaders[i][1] # <<>>
                    /\ ToSet(rule.injectHeaders[i][2]) \cap {"\r", "\n"} = {}
<1> DEFINE rule == ParseRule(t).value
<1>0. /\ rule.isRegex \in BOOLEAN /\ rule.stream \in BOOLEAN
      /\ rule.includeSubdomains = Flag(t, "include_subdomains")
      /\ rule.includeSubdomains \in BOOLEAN
      /\ rule.methods # {} /\ <<>> \notin rule.methods
      /\ AnyMethod \in rule.methods => rule.methods = {AnyMethod}
      /\ \A i \in DOMAIN rule.injectHeaders :
           /\ rule.injectHeaders[i][1] # <<>>
           /\ ToSet(rule.injectHeaders[i][2]) \cap {"\r", "\n"} = {}
  <2>1. rule.isRegex \in BOOLEAN
    <3>1. rule.isRegex = ("domain_regex" \in DOMAIN t)
      BY RuleIs
    <3> QED
      BY <3>1
  <2>2. /\ rule.stream = Flag(t, "stream") /\ IsBooleanIfSet(t, "stream")
        /\ rule.includeSubdomains = Flag(t, "include_subdomains")
        /\ IsBooleanIfSet(t, "include_subdomains")
    BY RuleIs
  <2>3. Flag(t, "stream") \in BOOLEAN /\ Flag(t, "include_subdomains") \in BOOLEAN
    BY <2>2, FlagTyped
  <2>4. ParseMethods(t).ok /\ rule.methods = ParseMethods(t).value
    BY RuleIs
  <2>5. /\ rule.methods # {} /\ <<>> \notin rule.methods
        /\ AnyMethod \in rule.methods => rule.methods = {AnyMethod}
    BY <2>4, MethodsParsed
  <2>6. ParseInjectHeaders(t).ok /\ rule.injectHeaders = ParseInjectHeaders(t).value
    BY RuleIs
  <2>7. \A i \in DOMAIN rule.injectHeaders :
           /\ rule.injectHeaders[i][1] # <<>>
           /\ ToSet(rule.injectHeaders[i][2]) \cap {"\r", "\n"} = {}
    BY <2>6, HeadersParsed
  <2> HIDE DEF rule
  <2> QED
    BY <2>1, <2>2, <2>3, <2>5, <2>7
<1>1. CASE "domain_regex" \in DOMAIN t
  <2>1. DOMAIN rule.domain # {}
    BY <1>1, RuleIs, RegexRuleIs
  <2>2. ~Flag(t, "include_subdomains")
    BY <1>1, RuleIs DEF Flag
  <2> QED
    BY <2>1, <2>2, <1>0
<1>2. CASE "domain_regex" \notin DOMAIN t
  <2>1. ~rule.isRegex
    BY <1>2, RuleIs
  <2>2. DOMAIN rule.domain # {}
    <3> DEFINE items == t["domain"].items
    <3>1. /\ items \in Seq(Seq(Characters)) /\ Len(items) > 0
          /\ rule.domain = [i \in DOMAIN items |-> NormalizeHost(items[i])]
      BY <2>1, DomainRuleIs
    <3> HIDE DEF items, rule
    <3>2. 1 \in DOMAIN items /\ DOMAIN rule.domain = DOMAIN items
      BY <3>1
    <3> QED
      BY <3>2
  <2> QED
    BY <2>1, <2>2, <1>0
<1> QED
  BY <1>1, <1>2

-----------------------------------------------------------------------------
(* The tables an administrator writes                                      *)

LEMMA SetKeyTable ==
    ASSUME NEW key \in DOMAIN Values, NEW value \in Values[key], SetKey(key, value)
    PROVE  /\ DOMAIN table' = DOMAIN table \cup {key} /\ key \notin DOMAIN table
           /\ \A k \in DOMAIN table : table'[k] = table[k]
           /\ table'[key] = value
  BY DEF SetKey

(* The invariant: a table has at most MaxKeys keys, and values that may be *)
(* written.                                                                *)
IInv ==
    /\ Written(table)
    /\ IsFiniteSet(DOMAIN table) /\ Cardinality(DOMAIN table) <= MaxKeys

LEMMA InitInv == Init => IInv
<1> SUFFICES ASSUME Init PROVE IInv
  OBVIOUS
<1>1. DOMAIN table = {}
  BY DEF Init
<1>2. IsFiniteSet({}) /\ Cardinality({}) = 0 /\ 0 <= MaxKeys
  BY FS_EmptySet, BoundsAssumption
<1> QED
  BY <1>1, <1>2 DEF IInv, Written

LEMMA NextInv == IInv /\ [Next]_table => IInv'
<1> SUFFICES ASSUME IInv, [Next]_table PROVE IInv'
  OBVIOUS
<1>1. ASSUME NEW key \in DOMAIN Values, NEW value \in Values[key], SetKey(key, value)
      PROVE  IInv'
  <2>1. /\ DOMAIN table' = DOMAIN table \cup {key} /\ key \notin DOMAIN table
        /\ \A k \in DOMAIN table : table'[k] = table[k]
        /\ table'[key] = value
    BY <1>1, SetKeyTable
  <2>2. Written(table)'
    BY <2>1 DEF IInv, Written
  <2>3. /\ IsFiniteSet(DOMAIN table')
        /\ Cardinality(DOMAIN table') = Cardinality(DOMAIN table) + 1
    BY <2>1, FS_AddElement DEF IInv
  <2>4. Cardinality(DOMAIN table) < MaxKeys /\ Cardinality(DOMAIN table) \in Nat
    BY <1>1, FS_CardinalityType DEF SetKey, IInv
  <2>5. Cardinality(DOMAIN table') <= MaxKeys
    <3> DEFINE c == Cardinality(DOMAIN table)
    <3> HIDE DEF c
    <3>1. c \in Nat /\ c < MaxKeys /\ MaxKeys \in Nat
      BY <2>4, BoundsAssumption DEF c
    <3>2. c + 1 <= MaxKeys
      BY <3>1
    <3> QED
      BY <2>3, <3>2 DEF c
  <2> QED
    BY <2>2, <2>3, <2>5 DEF IInv
<1>2. CASE UNCHANGED table
  BY <1>2 DEF IInv, Written
<1> QED
  BY <1>1, <1>2 DEF Next

THEOREM Invariant == Spec => []IInv
<1> QED
  BY InitInv, NextInv, PTL DEF Spec

(* A rule is accepted only with hosts and methods it is for, one kind of   *)
(* domain, and headers on a line of their own.                             *)
THEOREM TypeCorrect == Spec => []TypeOK
<1>1. IInv => TypeOK
  BY RuleTyped DEF IInv, TypeOK, Written, RulesOf
<1> QED
  BY <1>1, Invariant, PTL

(* Domains match whole labels, whatever the labels, the domains and the    *)
(* spelling of either.                                                     *)
THEOREM DomainsMatchLabels == Spec => []HostsMatchByLabel
<1>1. IInv => HostsMatchByLabel
  BY WrittenMatches DEF IInv
<1> QED
  BY <1>1, Invariant, PTL

-----------------------------------------------------------------------------
(* What a key adds                                                         *)

(* Two tables agree on a key.                                              *)
Agree(t, u, key) ==
    /\ key \in DOMAIN t <=> key \in DOMAIN u
    /\ key \in DOMAIN t => t[key] = u[key]

LEMMA SameMethods ==
    ASSUME NEW t, NEW u, Agree(t, u, "methods")
    PROVE  ParseMethods(t) = ParseMethods(u)
<1>1. CASE "methods" \in DOMAIN t
  <2>1. "methods" \in DOMAIN u /\ t["methods"] = u["methods"]
    BY <1>1 DEF Agree
  <2> QED
    BY <1>1, <2>1 DEF ParseMethods
<1>2. CASE "methods" \notin DOMAIN t
  <2>1. "methods" \notin DOMAIN u
    BY <1>2 DEF Agree
  <2> QED
    BY <1>2, <2>1 DEF ParseMethods
<1> QED
  BY <1>1, <1>2

LEMMA SameFlag ==
    ASSUME NEW t, NEW u, NEW key, Agree(t, u, key)
    PROVE  Flag(t, key) <=> Flag(u, key)
  BY DEF Flag, Agree

LEMMA SameDomain ==
    ASSUME NEW t, NEW u, Agree(t, u, "domain"), Agree(t, u, "domain_regex"),
           ParseRule(t).ok, ParseRule(u).ok
    PROVE  /\ ParseRule(t).value.domain = ParseRule(u).value.domain
           /\ ParseRule(t).value.isRegex <=> ParseRule(u).value.isRegex
<1>1. /\ ParseRule(t).value.isRegex <=> "domain_regex" \in DOMAIN t
      /\ ParseRule(u).value.isRegex <=> "domain_regex" \in DOMAIN u
  <2>1. ParseRule(t).value.isRegex = ("domain_regex" \in DOMAIN t)
    BY RuleIs
  <2>2. ParseRule(u).value.isRegex = ("domain_regex" \in DOMAIN u)
    BY RuleIs
  <2> QED
    BY <2>1, <2>2
<1>2. CASE "domain" \in DOMAIN t
  <2>1. "domain" \in DOMAIN u /\ t["domain"] = u["domain"]
    BY <1>2 DEF Agree
  <2>2. ParseDomainValue(t) = ParseDomainValue(u)
    BY <2>1 DEF ParseDomainValue
  <2>3. /\ ParseRule(t).value.domain = ParseDomainValue(t).value
        /\ ParseRule(u).value.domain = ParseDomainValue(u).value
    BY <1>2, <2>1, RuleIs
  <2> QED
    BY <1>1, <2>2, <2>3 DEF Agree
<1>3. CASE "domain" \notin DOMAIN t
  <2>1. "domain_regex" \in DOMAIN t
    BY <1>3, RuleIs
  <2>2. "domain_regex" \in DOMAIN u /\ t["domain_regex"] = u["domain_regex"]
    BY <2>1 DEF Agree
  <2>3. ParseDomainRegexValue(t) = ParseDomainRegexValue(u)
    BY <2>2 DEF ParseDomainRegexValue
  <2>4. /\ ParseRule(t).value.domain = ParseDomainRegexValue(t).value
        /\ ParseRule(u).value.domain = ParseDomainRegexValue(u).value
    BY <2>1, <2>2, RuleIs
  <2> QED
    BY <1>1, <2>3, <2>4 DEF Agree
<1> QED
  BY <1>2, <1>3

(* The filters of a rule are those of its two keys, and a key that is set  *)
(* has one at least.                                                       *)
LEMMA FiltersAre ==
    ASSUME NEW t, Written(t), ParsePathnameFilters(t).ok
    PROVE  /\ ParsePathnameFilters(t).value =
                FiltersIfSet(t, "pathname_regex").value \cup
                FiltersIfSet(t, "pathname_pattern").value
           /\ \A key \in PathnameKeys :
                FiltersIfSet(t, key).value = {} <=> key \notin DOMAIN t
<1>1. /\ FiltersIfSet(t, "pathname_regex").ok /\ FiltersIfSet(t, "pathname_pattern").ok
      /\ ParsePathnameFilters(t).value =
           FiltersIfSet(t, "pathname_regex").value \cup FiltersIfSet(t, "pathname_pattern").value
  BY DEF ParsePathnameFilters, Accepted, Refused
<1>2. ASSUME NEW key \in PathnameKeys, key \notin DOMAIN t
      PROVE  FiltersIfSet(t, key).value = {}
  BY <1>2 DEF FiltersIfSet, Accepted
<1>3. ASSUME NEW key \in PathnameKeys, key \in DOMAIN t
      PROVE  FiltersIfSet(t, key).value # {}
  <2> DEFINE items == t[key].items
             compiled == {Compiled(key, source) : source \in ToSet(items)}
  <2>1. FiltersIfSet(t, key).ok
    BY <1>1 DEF PathnameKeys
  <2>2. /\ HasTomlArray(t[key])
        /\ FiltersIfSet(t, key).value =
             {[usesSearch |-> key = "pathname_regex", source |-> result.value] :
                result \in compiled}
    BY <2>1, <1>3 DEF FiltersIfSet, ParsePathnameFilterValue, Accepted, Refused
  <2>3. items \in Seq(Seq(Characters)) /\ Len(items) > 0
    BY <1>3, <2>2, ArrayItems DEF PathnameKeys
  <2>4. Compiled(key, items[1]) \in compiled
    <3> HIDE DEF items
    <3>1. 1 \in DOMAIN items
      BY <2>3
    <3> QED
      BY <3>1 DEF ToSet
  <2> HIDE DEF compiled
  <2> QED
    BY <2>2, <2>4
<1> QED
  BY <1>1, <1>2, <1>3

LEMMA SameFilters ==
    ASSUME NEW t, NEW u, NEW key, Agree(t, u, key)
    PROVE  FiltersIfSet(t, key) = FiltersIfSet(u, key)
<1>1. CASE key \in DOMAIN t
  <2>1. key \in DOMAIN u /\ t[key] = u[key]
    BY <1>1 DEF Agree
  <2> QED
    BY <1>1, <2>1 DEF FiltersIfSet
<1>2. CASE key \notin DOMAIN t
  <2>1. key \notin DOMAIN u
    BY <1>2 DEF Agree
  <2> QED
    BY <1>2, <2>1 DEF FiltersIfSet
<1> QED
  BY <1>1, <1>2

(* A rule that is at least as wide matches what the other matches.         *)
Wider(a, b) ==
    /\ a.domain = b.domain /\ (a.isRegex <=> b.isRegex)
    /\ a.includeSubdomains => b.includeSubdomains
    /\ a.methods = b.methods
    /\ \/ b.pathnameFilters = {}
       \/ a.pathnameFilters # {} /\ a.pathnameFilters \subseteq b.pathnameFilters

LEMMA WiderMatches ==
    ASSUME NEW a, NEW b, Wider(a, b), NEW host, NEW method, NEW path,
           Matches(a, host, method, path)
    PROVE  Matches(b, host, method, path)
<1>1. MatchesHost(b, host)
  <2>1. MatchesHost(a, host)
    BY DEF Matches
  <2> QED
    BY <2>1 DEF Wider, MatchesHost
<1>2. \/ b.pathnameFilters = {}
      \/ \E filter \in b.pathnameFilters : FilterMatches(filter, RequestPathname(path))
  BY DEF Wider, Matches
<1>3. MethodMatches(b.methods, method)
  BY DEF Wider, Matches
<1> QED
  BY <1>1, <1>2, <1>3 DEF Matches

LEMMA WiderAllows ==
    ASSUME NEW t, NEW u, ParseRule(t).ok, ParseRule(u).ok,
           Wider(ParseRule(t).value, ParseRule(u).value)
    PROVE  Allowed(t) \subseteq Allowed(u)
<1> SUFFICES ASSUME NEW request \in Allowed(t) PROVE request \in Allowed(u)
  OBVIOUS
<1>1. Matches(ParseRule(t).value, request[1], request[2], request[3])
  BY DEF Allowed
<1>2. Matches(ParseRule(u).value, request[1], request[2], request[3])
  BY <1>1, WiderMatches
<1> QED
  BY <1>2 DEF Allowed

(* Rules that differ in their methods allow the same hosts and paths.      *)
LEMMA MethodsAllowed ==
    ASSUME NEW t, NEW u, ParseRule(t).ok, ParseRule(u).ok,
           ParseRule(t).value.domain = ParseRule(u).value.domain,
           ParseRule(t).value.isRegex <=> ParseRule(u).value.isRegex,
           ParseRule(t).value.includeSubdomains <=> ParseRule(u).value.includeSubdomains,
           ParseRule(t).value.pathnameFilters = ParseRule(u).value.pathnameFilters,
           NEW request \in Allowed(u), NEW method \in RequestMethods,
           NormalizeMethod(method) \in ParseRule(t).value.methods
    PROVE  <<request[1], method, request[3]>> \in Allowed(t)
<1> DEFINE a == ParseRule(t).value
           b == ParseRule(u).value
           hosts == {Host(labels) : labels \in HostLabels}
<1>1. /\ Matches(b, request[1], request[2], request[3])
      /\ request \in hosts \X RequestMethods \X RequestPaths
  BY DEF Allowed
<1> HIDE DEF a, b
<1>2. MatchesHost(a, request[1])
  <2>1. MatchesHost(b, request[1])
    BY <1>1 DEF Matches
  <2> QED
    BY <2>1 DEF MatchesHost, a, b
<1>3. Matches(a, request[1], method, request[3])
  BY <1>1, <1>2 DEF Matches, MethodMatches, a, b
<1> HIDE DEF hosts
<1>4. <<request[1], method, request[3]>> \in hosts \X RequestMethods \X RequestPaths
  BY <1>1
<1> DEFINE r == <<request[1], method, request[3]>>
<1>5. r[1] = request[1] /\ r[2] = method /\ r[3] = request[3]
  OBVIOUS
<1> HIDE DEF r
<1>6. Matches(a, r[1], r[2], r[3])
  BY <1>3, <1>5
<1>7. r \in hosts \X RequestMethods \X RequestPaths
  BY <1>4 DEF r
<1>8. r \in Allowed(t)
  BY <1>6, <1>7 DEF Allowed, a, hosts
<1> QED
  BY <1>8 DEF r

(* One key more.                                                           *)
LEMMA KeyNarrows ==
    ASSUME NEW t, NEW u, NEW key, Written(t), Written(u),
           DOMAIN u = DOMAIN t \cup {key}, key \notin DOMAIN t,
           \A k \in DOMAIN t : u[k] = t[k], ParseRule(t).ok
    PROVE  \/ Allowed(u) = {}
           \/ Widens(t, key) /\ Allowed(t) \subseteq Allowed(u)
           \/ key \in {"stream", "inject_headers"} /\ Allowed(u) = Allowed(t)
           \/ key \in PathnameKeys /\ ~Widens(t, key) /\ Allowed(u) \subseteq Allowed(t)
           \/ key = "methods" /\ ByDefault(Allowed(u)) \subseteq Allowed(t)
<1>1. CASE ~ParseRule(u).ok
  BY <1>1 DEF Allowed
<1>2. CASE ParseRule(u).ok
  <2> DEFINE a == ParseRule(t).value
             b == ParseRule(u).value
  <2>1. \A k : k # key => Agree(t, u, k)
    BY DEF Agree
  <2>2. key \in AllowRuleKeys
    BY <1>2, RuleIs
  <2>3. key # "domain" /\ key # "domain_regex"
    <3>1. "domain" \in DOMAIN t \/ "domain_regex" \in DOMAIN t
      BY RuleIs
    <3>2. ~("domain" \in DOMAIN u /\ "domain_regex" \in DOMAIN u)
      BY <1>2, RuleIs
    <3> QED
      BY <3>1, <3>2
  <2>4. a.domain = b.domain /\ (a.isRegex <=> b.isRegex)
    BY <1>2, <2>1, <2>3, SameDomain
  <2>5. /\ a.includeSubdomains = Flag(t, "include_subdomains")
        /\ b.includeSubdomains = Flag(u, "include_subdomains")
    BY <1>2, RuleIs
  <2>6. key # "include_subdomains" => (a.includeSubdomains <=> b.includeSubdomains)
    BY <2>1, <2>5, SameFlag
  <2>7. key = "include_subdomains" => ~a.includeSubdomains
    BY <2>5 DEF Flag
  <2>8. key # "methods" => a.methods = b.methods
    <3>1. a.methods = ParseMethods(t).value /\ b.methods = ParseMethods(u).value
      BY <1>2, RuleIs
    <3> QED
      BY <2>1, <3>1, SameMethods
  <2> DEFINE Filters(k) == FiltersIfSet(t, k).value
             NewFilters(k) == FiltersIfSet(u, k).value
  <2>9. /\ a.pathnameFilters = Filters("pathname_regex") \cup Filters("pathname_pattern")
        /\ b.pathnameFilters = NewFilters("pathname_regex") \cup NewFilters("pathname_pattern")
        /\ Filters("pathname_regex") = {} <=> "pathname_regex" \notin DOMAIN t
        /\ Filters("pathname_pattern") = {} <=> "pathname_pattern" \notin DOMAIN t
        /\ NewFilters("pathname_regex") = {} <=> "pathname_regex" \notin DOMAIN u
        /\ NewFilters("pathname_pattern") = {} <=> "pathname_pattern" \notin DOMAIN u
    <3>1. /\ ParsePathnameFilters(t).ok /\ a.pathnameFilters = ParsePathnameFilters(t).value
          /\ ParsePathnameFilters(u).ok /\ b.pathnameFilters = ParsePathnameFilters(u).value
      BY <1>2, RuleIs
    <3> QED
      BY <3>1, FiltersAre DEF PathnameKeys
  <2>10. /\ key # "pathname_regex" => Filters("pathname_regex") = NewFilters("pathname_regex")
         /\ key # "pathname_pattern" =>
              Filters("pathname_pattern") = NewFilters("pathname_pattern")
    BY <2>1, SameFilters
  <2> HIDE DEF a, b, Filters, NewFilters
  <2>11. CASE key \in {"stream", "inject_headers"}
    <3>1. Wider(a, b) /\ Wider(b, a)
      BY <2>4, <2>6, <2>8, <2>9, <2>10, <2>11 DEF Wider
    <3>2. Allowed(t) \subseteq Allowed(u) /\ Allowed(u) \subseteq Allowed(t)
      BY <3>1, <1>2, WiderAllows DEF a, b
    <3> QED
      BY <3>2, <2>11
  <2>12. CASE key = "include_subdomains"
    <3>1. Wider(a, b)
      BY <2>4, <2>7, <2>8, <2>9, <2>10, <2>12 DEF Wider
    <3>2. Allowed(t) \subseteq Allowed(u)
      BY <3>1, <1>2, WiderAllows DEF a, b
    <3> QED
      BY <3>2, <2>12 DEF Widens
  <2>13. CASE key = "pathname_regex"
    <3>1. key # "include_subdomains" /\ key # "methods" /\ key # "pathname_pattern"
      BY <2>13
    <3>2. CASE "pathname_pattern" \in DOMAIN t
      <4>1. Wider(a, b)
        BY <3>1, <3>2, <2>4, <2>6, <2>8, <2>9, <2>10, <2>13 DEF Wider
      <4>2. Allowed(t) \subseteq Allowed(u)
        BY <4>1, <1>2, WiderAllows DEF a, b
      <4>3. Widens(t, key)
        BY <3>2, <2>13 DEF Widens, PathnameKeys
      <4> QED
        BY <4>2, <4>3
    <3>3. CASE "pathname_pattern" \notin DOMAIN t
      <4>1. a.pathnameFilters = {}
        BY <3>3, <2>9, <2>13
      <4>2. Wider(b, a)
        BY <3>1, <4>1, <2>4, <2>6, <2>8 DEF Wider
      <4>3. Allowed(u) \subseteq Allowed(t)
        BY <4>2, <1>2, WiderAllows DEF a, b
      <4>4. key \in PathnameKeys /\ ~Widens(t, key)
        BY <3>3, <2>13 DEF Widens, PathnameKeys
      <4> QED
        BY <4>3, <4>4
    <3> QED
      BY <3>2, <3>3
  <2>14. CASE key = "pathname_pattern"
    <3>1. key # "include_subdomains" /\ key # "methods" /\ key # "pathname_regex"
      BY <2>14
    <3>2. CASE "pathname_regex" \in DOMAIN t
      <4>1. Wider(a, b)
        BY <3>1, <3>2, <2>4, <2>6, <2>8, <2>9, <2>10, <2>14 DEF Wider
      <4>2. Allowed(t) \subseteq Allowed(u)
        BY <4>1, <1>2, WiderAllows DEF a, b
      <4>3. Widens(t, key)
        BY <3>2, <2>14 DEF Widens, PathnameKeys
      <4> QED
        BY <4>2, <4>3
    <3>3. CASE "pathname_regex" \notin DOMAIN t
      <4>1. a.pathnameFilters = {}
        BY <3>3, <2>9, <2>14
      <4>2. Wider(b, a)
        BY <3>1, <4>1, <2>4, <2>6, <2>8 DEF Wider
      <4>3. Allowed(u) \subseteq Allowed(t)
        BY <4>2, <1>2, WiderAllows DEF a, b
      <4>4. key \in PathnameKeys /\ ~Widens(t, key)
        BY <3>3, <2>14 DEF Widens, PathnameKeys
      <4> QED
        BY <4>3, <4>4
    <3> QED
      BY <3>2, <3>3
  <2>15. CASE key = "methods"
    <3>1. /\ a.domain = b.domain /\ (a.isRegex <=> b.isRegex)
          /\ (a.includeSubdomains <=> b.includeSubdomains)
          /\ a.pathnameFilters = b.pathnameFilters
      BY <2>4, <2>6, <2>9, <2>10, <2>15
    <3>2. a.methods = DefaultAllowedMethods
      <4>1. "methods" \notin DOMAIN t /\ a.methods = ParseMethods(t).value
        BY <2>15, RuleIs DEF a
      <4> QED
        BY <4>1 DEF ParseMethods, Accepted
    <3>3. ASSUME NEW request \in Allowed(u), NEW method \in RequestMethods,
                 NormalizeMethod(method) \in DefaultAllowedMethods
          PROVE  <<request[1], method, request[3]>> \in Allowed(t)
      BY <3>1, <3>2, <3>3, <1>2, MethodsAllowed DEF a, b
    <3> QED
      BY <2>15, <3>3 DEF ByDefault
  <2> QED
    BY <2>2, <2>3, <2>11, <2>12, <2>13, <2>14, <2>15 DEF AllowRuleKeys
<1> QED
  BY <1>1, <1>2

(* Only include_subdomains, methods and a second kind of pathname filter   *)
(* let more through, whatever the filters match.                           *)
THEOREM KeysOnlyNarrow == Spec => KeysNarrow
<1> DEFINE Narrows ==
      \A key \in DOMAIN table' \ DOMAIN table :
         ParseRule(table).ok =>
           LET before == Allowed(table)  after == Allowed(table')
           IN  \/ after = {}
               \/ Widens(table, key) /\ before \subseteq after
               \/ key \in {"stream", "inject_headers"} /\ after = before
               \/ key \in PathnameKeys /\ ~Widens(table, key) /\ after \subseteq before
               \/ key = "methods" /\ ByDefault(after) \subseteq before
<1>1. ASSUME IInv, [Next]_table PROVE [Narrows]_table
  <2>1. CASE UNCHANGED table
    BY <2>1
  <2>2. ASSUME NEW key \in DOMAIN Values, NEW value \in Values[key], SetKey(key, value)
        PROVE  Narrows
    <3>1. /\ DOMAIN table' = DOMAIN table \cup {key} /\ key \notin DOMAIN table
          /\ \A k \in DOMAIN table : table'[k] = table[k]
      BY <2>2, SetKeyTable
    <3>2. IInv'
      BY <1>1, NextInv
    <3> DEFINE u == table'
    <3>3. Written(table) /\ Written(u)
      BY <1>1, <3>2 DEF IInv, Written
    <3>4. DOMAIN u \ DOMAIN table = {key}
      BY <3>1
    <3>5. ASSUME ParseRule(table).ok
          PROVE  \/ Allowed(u) = {}
                 \/ Widens(table, key) /\ Allowed(table) \subseteq Allowed(u)
                 \/ key \in {"stream", "inject_headers"} /\ Allowed(u) = Allowed(table)
                 \/ /\ key \in PathnameKeys /\ ~Widens(table, key)
                    /\ Allowed(u) \subseteq Allowed(table)
                 \/ key = "methods" /\ ByDefault(Allowed(u)) \subseteq Allowed(table)
      <4>1. /\ DOMAIN u = DOMAIN table \cup {key} /\ key \notin DOMAIN table
            /\ \A k \in DOMAIN table : u[k] = table[k]
        BY <3>1
      <4> HIDE DEF u
      <4> QED
        BY <4>1, <3>3, <3>5, KeyNarrows
    <3> QED
      BY <3>4, <3>5
  <2> QED
    BY <1>1, <2>1, <2>2 DEF Next
<1> QED
  BY <1>1, Invariant, PTL DEF Spec, KeysNarrow
=============================================================================
