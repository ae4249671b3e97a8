---------------------------- MODULE PolicyProofs ----------------------------
(***************************************************************************)
(* What the egress proxy decides by: the patterns of the allowlist and the *)
(* guard on addresses say what their reference definitions say, for names  *)
(* of any length.                                                          *)
(***************************************************************************)
EXTENDS NetPolicy, WellFoundedInduction, SequenceTheorems, FiniteSetTheorems, TLAPS

-----------------------------------------------------------------------------
(* The allowlist, for names of any length.                                 *)

\* Induction over the naturals, as a statement about a set.
LEMMA Counting ==
    ASSUME NEW S, 0 \in S, \A n \in Nat : n \in S => n + 1 \in S
    PROVE  Nat \subseteq S
<1> DEFINE T == Nat \ S
           R == {p \in Nat \X Nat : p[1] < p[2]}
<1>1. IsWellFoundedOn(R, Nat)
  BY NatLessThanWellFounded, Zenon DEF OpToRel
<1>2. SUFFICES ASSUME T # {} PROVE FALSE
  BY Zenon
<1> HIDE DEF R
<1>3. PICK x \in T : \A y \in T : ~(<<y, x>> \in R)
  BY <1>1, <1>2, WFMin, T \subseteq Nat, Zenon
<1>4. x \in Nat /\ x \notin S /\ x # 0 /\ x - 1 \in Nat /\ (x - 1) + 1 = x
  BY <1>3
<1>5. x - 1 \in T
  BY <1>4, Zenon
<1>6. <<x - 1, x>> \in R
  BY <1>4 DEF R
<1> QED
  BY <1>3, <1>5, <1>6, Zenon

\* What holds of the empty name, and of a name with one more character when it
\* holds of the name, holds of every name.

\* Induction over sequences: what holds of the empty one and survives Append
\* holds of all.
LEMMA NameByName ==
    ASSUME NEW C, NEW S, <<>> \in S,
           \A s \in Seq(C), c \in C : s \in S => Append(s, c) \in S
    PROVE  Seq(C) \subseteq S
<1> DEFINE T == {n \in Nat : \A s \in Seq(C) : Len(s) = n => s \in S}
<1>1. 0 \in T
  <2>1. \A s \in Seq(C) : Len(s) = 0 => s = <<>>
    BY EmptySeq, Zenon
  <2> QED  BY <2>1, Zenon
<1>2. ASSUME NEW n \in Nat, n \in T
      PROVE  n + 1 \in T
  <2>1. ASSUME NEW s \in Seq(C), Len(s) = n + 1
        PROVE  s \in S
    <3> DEFINE p == SubSeq(s, 1, n)
    <3>1. p \in Seq(C) /\ Len(p) = n /\ s[n + 1] \in C
      BY <2>1
    <3>2. s = Append(p, s[n + 1])
      BY <2>1
    <3> HIDE DEF p
    <3>3. p \in S
      BY <1>2, <3>1, Zenon
    <3>4. Append(p, s[n + 1]) \in S
      BY <3>1, <3>3, Zenon
    <3> QED  BY <3>2, <3>4, Zenon
  <2> QED  BY <2>1
<1>3. Nat \subseteq T
  <2> HIDE DEF T
  <2> QED  BY <1>1, <1>2, Counting, Zenon
<1> QED  BY <1>3

\* f[i] is the list of labels of the first i characters of s.
Splits(f, s, n) ==
    f = [i \in 0..n |-> IF i = 0 THEN <<(<<>>)>> ELSE Extend(f[i - 1], s[i])]

\* The labels of a name can be read off one character at a time.
LEMMA SplitExists ==
    ASSUME NEW s, NEW n \in Nat
    PROVE  \E f : Splits(f, s, n)
<1> DEFINE S == {m \in Nat : \E f : Splits(f, s, m)}
<1>1. 0 \in S
  <2>1. Splits([i \in 0..0 |-> <<(<<>>)>>], s, 0)
    BY DEF Splits
  <2> QED
    BY <2>1, Zenon
<1>2. ASSUME NEW m \in Nat, m \in S
      PROVE  m + 1 \in S
  <2>1. PICK f : Splits(f, s, m)
    BY <1>2, Zenon
  <2> DEFINE g == [i \in 0..(m + 1) |-> IF i <= m THEN f[i] ELSE Extend(f[i - 1], s[i])]
  <2>2. \A i \in 0..m : f[i] = IF i = 0 THEN <<(<<>>)>> ELSE Extend(f[i - 1], s[i])
    BY <2>1, Zenon DEF Splits
  <2>3. ASSUME NEW i \in 0..(m + 1)
        PROVE  g[i] = IF i = 0 THEN <<(<<>>)>> ELSE Extend(g[i - 1], s[i])
    <3>1. CASE i = 0
      BY <2>2, <3>1
    <3>2. CASE i # 0
      <4>1. i - 1 \in 0..(m + 1) /\ i - 1 <= m
        BY <3>2
      <4>2. g[i - 1] = f[i - 1]
        BY <4>1, Zenon
      <4>3. g[i] = Extend(f[i - 1], s[i])
        BY <2>2, <3>2
      <4> QED
        BY <3>2, <4>2, <4>3, Zenon
    <3> QED
      BY <3>1, <3>2, Zenon
  <2>4. g = [i \in 0..(m + 1) |-> IF i = 0 THEN <<(<<>>)>> ELSE Extend(g[i - 1], s[i])]
    <3> HIDE DEF g
    <3> QED
      BY <2>3, Zenon DEF g
  <2>5. Splits(g, s, m + 1)
    <3> HIDE DEF g
    <3> QED
      BY <2>4, Zenon DEF Splits
  <2> QED
    BY <2>5
<1>3. Nat \subseteq S
  <2> HIDE DEF S
  <2> QED
    BY <1>1, <1>2, Counting, Zenon
<1> QED
  BY <1>3, Zenon

\* Two names that agree up to some character have the same labels up to there.
LEMMA SplitsAgree ==
    ASSUME NEW s, NEW t, NEW n \in Nat, NEW m \in Nat, m <= n, NEW f, NEW g,
           Splits(f, s, n), Splits(g, t, m), \A i \in 1..m : s[i] = t[i]
    PROVE  f[m] = g[m]
<1> DEFINE S == {k \in Nat : k <= m => f[k] = g[k]}
<1>1. \A i \in 0..n : f[i] = IF i = 0 THEN <<(<<>>)>> ELSE Extend(f[i - 1], s[i])
  BY Zenon DEF Splits
<1>2. \A i \in 0..m : g[i] = IF i = 0 THEN <<(<<>>)>> ELSE Extend(g[i - 1], t[i])
  BY Zenon DEF Splits
<1>3. 0 \in S
  BY <1>1, <1>2
<1>4. ASSUME NEW k \in Nat, k \in S
      PROVE  k + 1 \in S
  <2> SUFFICES ASSUME k + 1 <= m
               PROVE  f[k + 1] = g[k + 1]
    OBVIOUS
  <2>1. k + 1 \in 0..n /\ k + 1 \in 0..m /\ k + 1 # 0 /\ (k + 1) - 1 = k /\ k + 1 \in 1..m
    OBVIOUS
  <2>2. f[k] = g[k] /\ s[k + 1] = t[k + 1]
    BY <1>4, <2>1
  <2>3. f[k + 1] = Extend(f[k], s[k + 1])
    BY <1>1, <2>1, Zenon
  <2>4. g[k + 1] = Extend(g[k], t[k + 1])
    BY <1>2, <2>1, Zenon
  <2> QED  BY <2>2, <2>3, <2>4, Zenon
<1>5. Nat \subseteq S
  <2> HIDE DEF S
  <2> QED  BY <1>3, <1>4, Counting, Zenon
<1> QED  BY <1>5

\* Labels is what that reading arrives at.
LEMMA LabelsSplit ==
    ASSUME NEW s, Len(s) \in Nat
    PROVE  \E f : Splits(f, s, Len(s)) /\ Labels(s) = f[Len(s)]
<1> DEFINE upTo == CHOOSE f : Splits(f, s, Len(s))
<1>1. Labels(s) = upTo[Len(s)]
  BY Zenon DEF Labels, Splits
<1>2. \E f : Splits(f, s, Len(s))
  BY SplitExists, Zenon
<1>3. Splits(upTo, s, Len(s))
  BY <1>2, Zenon
<1> QED  BY <1>1, <1>3, Zenon

\* The empty name, which normalize_host makes of a lone dot, is one empty label.
LEMMA NoLabels == Labels(<<>>) = <<(<<>>)>>
<1>1. PICK f : Splits(f, <<>>, Len(<<>>)) /\ Labels(<<>>) = f[Len(<<>>)]
  BY LabelsSplit, Zenon
<1>2. Len(<<>>) = 0
  BY Zenon
<1>3. f = [i \in 0..0 |-> IF i = 0 THEN <<(<<>>)>> ELSE Extend(f[i - 1], <<>>[i])]
  BY <1>1, <1>2, Zenon DEF Splits
<1> QED  BY <1>1, <1>2, <1>3

\* One more character of a host name extends the list of labels.
LEMMA LabelsStep ==
    ASSUME NEW C, NEW s \in Seq(C), NEW c \in C
    PROVE  Labels(Append(s, c)) = Extend(Labels(s), c)
<1> DEFINE t == Append(s, c)
           n == Len(s)
<1>1. t \in Seq(C) /\ n \in Nat /\ Len(t) = n + 1 /\ t[n + 1] = c /\ \A i \in 1..n : t[i] = s[i]
  OBVIOUS
<1> HIDE DEF t
<1>2. PICK f : Splits(f, t, n + 1) /\ Labels(t) = f[n + 1]
  BY <1>1, LabelsSplit
<1>3. PICK g : Splits(g, s, n) /\ Labels(s) = g[n]
  BY <1>1, LabelsSplit, Zenon
<1>4. f[n] = g[n]
  BY <1>1, <1>2, <1>3, SplitsAgree
<1>5. f[n + 1] = Extend(f[n], t[n + 1])
  <2>1. \A i \in 0..(n + 1) : f[i] = IF i = 0 THEN <<(<<>>)>> ELSE Extend(f[i - 1], t[i])
    BY <1>2, Zenon DEF Splits
  <2>2. n + 1 \in 0..(n + 1) /\ n + 1 # 0 /\ (n + 1) - 1 = n
    BY <1>1
  <2> QED  BY <2>1, <2>2, Zenon
<1> QED  BY <1>1, <1>2, <1>3, <1>4, <1>5, Zenon DEF t

\* The lists of labels of names over C; a name has at least one.
LabelLists(C) == {ls \in Seq(Seq(C)) : Len(ls) >= 1}

\* A dot starts a new label and keeps the others.
LEMMA ExtendedByDot ==
    ASSUME NEW C, NEW ls \in LabelLists(C)
    PROVE  /\ Extend(ls, ".") \in LabelLists(C)
           /\ Len(Extend(ls, ".")) = Len(ls) + 1
           /\ Extend(ls, ".")[Len(ls) + 1] = <<>>
           /\ \A i \in 1..Len(ls) : Extend(ls, ".")[i] = ls[i]
<1>1. ls \in Seq(Seq(C)) /\ Len(ls) \in Nat /\ Len(ls) >= 1
  BY DEF LabelLists
<1>2. Extend(ls, ".") = Append(ls, <<>>)
  BY Zenon DEF Extend
<1>3. <<>> \in Seq(C)
  OBVIOUS
<1>4. /\ Append(ls, <<>>) \in Seq(Seq(C)) /\ Len(Append(ls, <<>>)) = Len(ls) + 1
      /\ Append(ls, <<>>)[Len(ls) + 1] = <<>>
      /\ \A i \in 1..Len(ls) : Append(ls, <<>>)[i] = ls[i]
  BY <1>1, <1>3
<1>5. Len(ls) + 1 >= 1
  BY <1>1
<1> QED  BY <1>2, <1>4, <1>5, Zenon DEF LabelLists

\* Any other character goes to the last label and keeps the others.
LEMMA ExtendedByChar ==
    ASSUME NEW C, NEW ls \in LabelLists(C), NEW c \in C, c # "."
    PROVE  /\ Extend(ls, c) \in LabelLists(C)
           /\ Len(Extend(ls, c)) = Len(ls)
           /\ Extend(ls, c)[Len(ls)] = Append(ls[Len(ls)], c)
           /\ \A i \in 1..(Len(ls) - 1) : Extend(ls, c)[i] = ls[i]
<1>1. ls \in Seq(Seq(C)) /\ Len(ls) \in Nat /\ Len(ls) >= 1
  BY DEF LabelLists
<1> DEFINE k == Len(ls)
           x == Append(ls[k], c)
<1>2. Extend(ls, c) = [ls EXCEPT ![k] = x]
  BY Zenon DEF Extend
<1>3. ls[k] \in Seq(C)
  BY <1>1
<1>4. x \in Seq(C)
  BY <1>3
<1> HIDE DEF x
<1>5. /\ [ls EXCEPT ![k] = x] \in Seq(Seq(C)) /\ Len([ls EXCEPT ![k] = x]) = k
      /\ [ls EXCEPT ![k] = x][k] = x
      /\ \A i \in 1..(k - 1) : [ls EXCEPT ![k] = x][i] = ls[i]
  BY <1>1, <1>4
<1> QED  BY <1>1, <1>2, <1>5, Zenon DEF LabelLists, x

\* Extending a list of labels gives one.
LEMMA ExtendTyped ==
    ASSUME NEW C, NEW ls \in LabelLists(C), NEW c \in C
    PROVE  Extend(ls, c) \in LabelLists(C)
BY ExtendedByDot, ExtendedByChar, Zenon

\* The labels of a name are a list of labels.
LEMMA LabelsTyped ==
    ASSUME NEW C
    PROVE  \A s \in Seq(C) : Labels(s) \in LabelLists(C)
<1> DEFINE S == {s \in Seq(C) : Labels(s) \in LabelLists(C)}
<1>1. <<>> \in S
  <2>1. <<(<<>>)>> \in LabelLists(C)
    BY DEF LabelLists
  <2> QED  BY <2>1, NoLabels
<1>2. ASSUME NEW s \in Seq(C), NEW c \in C, s \in S
      PROVE  Append(s, c) \in S
  <2>1. Labels(Append(s, c)) = Extend(Labels(s), c)
    BY LabelsStep, Zenon
  <2>2. Labels(s) \in LabelLists(C)
    BY <1>2, Zenon
  <2>3. Extend(Labels(s), c) \in LabelLists(C)
    BY <2>2, ExtendTyped, Zenon
  <2>4. Append(s, c) \in Seq(C)
    OBVIOUS
  <2> QED  BY <2>1, <2>3, <2>4, Zenon
<1>3. Seq(C) \subseteq S
  <2> HIDE DEF S
  <2> QED  BY <1>1, <1>2, NameByName, Zenon
<1> QED  BY <1>3, Zenon

\* Lists of labels with the same elements are equal.
LEMMA SameLists ==
    ASSUME NEW C, NEW ls \in LabelLists(C), NEW ms \in LabelLists(C),
           Len(ls) = Len(ms), \A i \in 1..Len(ls) : ls[i] = ms[i]
    PROVE  ls = ms
<1>1. ls \in Seq(Seq(C)) /\ ms \in Seq(Seq(C))
  BY Zenon DEF LabelLists
<1> QED  BY <1>1, SeqEqual, Zenon

\* The extended list determines the list and the character it was extended by.
LEMMA ExtendInjective ==
    ASSUME NEW C, NEW ls \in LabelLists(C), NEW ms \in LabelLists(C), NEW c \in C, NEW d \in C,
           Extend(ls, c) = Extend(ms, d)
    PROVE  ls = ms /\ c = d
<1>0. /\ ls \in Seq(Seq(C)) /\ Len(ls) \in Nat /\ Len(ls) >= 1
      /\ ms \in Seq(Seq(C)) /\ Len(ms) \in Nat /\ Len(ms) >= 1
  BY DEF LabelLists
<1> DEFINE x == Extend(ls, c)
<1>1. /\ ls[Len(ls)] \in Seq(C) /\ ms[Len(ms)] \in Seq(C)
  BY <1>0
<1>2. /\ Append(ls[Len(ls)], c) # <<>> /\ Append(ms[Len(ms)], d) # <<>>
  BY <1>1
<1> DEFINE Ends(ys) == ys[Len(ys)] = <<>>
<1>3. c = "." <=> Ends(Extend(ls, c))
  <2>1. CASE c = "."
    BY <2>1, ExtendedByDot, Zenon
  <2>2. CASE c # "."
    BY <1>2, <2>2, ExtendedByChar
  <2> QED  BY <2>1, <2>2, Zenon
<1>4. d = "." <=> Ends(Extend(ms, d))
  <2>1. CASE d = "."
    BY <2>1, ExtendedByDot, Zenon
  <2>2. CASE d # "."
    BY <1>2, <2>2, ExtendedByChar
  <2> QED  BY <2>1, <2>2, Zenon
<1>5. CASE c = "."
  <2>1. d = "."
    BY <1>3, <1>4, <1>5, Zenon
  <2>2. Len(x) = Len(ls) + 1 /\ \A i \in 1..Len(ls) : x[i] = ls[i]
    BY <1>5, ExtendedByDot, Zenon
  <2>3. Len(x) = Len(ms) + 1 /\ \A i \in 1..Len(ms) : x[i] = ms[i]
    BY <2>1, ExtendedByDot, Zenon
  <2>4. Len(ls) = Len(ms) /\ \A i \in 1..Len(ls) : ls[i] = ms[i]
    <3> HIDE DEF x
    <3> QED  BY <1>0, <2>2, <2>3
  <2> QED  BY <1>5, <2>1, <2>4, SameLists, Zenon
<1>6. CASE c # "."
  <2>1. d # "."
    BY <1>3, <1>4, <1>6, Zenon
  <2>2. Len(x) = Len(ls) /\ x[Len(ls)] = Append(ls[Len(ls)], c) /\
        \A i \in 1..(Len(ls) - 1) : x[i] = ls[i]
    BY <1>6, ExtendedByChar, Zenon
  <2>3. Len(x) = Len(ms) /\ x[Len(ms)] = Append(ms[Len(ms)], d) /\
        \A i \in 1..(Len(ms) - 1) : x[i] = ms[i]
    BY <2>1, ExtendedByChar
  <2> HIDE DEF x
  <2>4. Len(ls) = Len(ms) /\ \A i \in 1..(Len(ls) - 1) : ls[i] = ms[i]
    BY <1>0, <2>2, <2>3, Zenon
  <2>5. Append(ls[Len(ls)], c) = Append(ms[Len(ms)], d)
    BY <2>2, <2>3, Zenon
  <2>6. ls[Len(ls)] = ms[Len(ms)] /\ c = d
    <3> DEFINE u == ls[Len(ls)]
               v == ms[Len(ms)]
    <3>1. u \in Seq(C) /\ v \in Seq(C) /\ Append(u, c) = Append(v, d)
      BY <1>1, <2>5, Zenon
    <3> HIDE DEF u, v
    <3>2. u = v /\ c = d
      BY <3>1, AppendInjective
    <3> QED  BY <3>2, Zenon DEF u, v
  <2>7. \A i \in 1..Len(ls) : ls[i] = ms[i]
    BY <1>0, <2>4, <2>6
  <2> QED  BY <2>4, <2>6, <2>7, SameLists, Zenon
<1> QED  BY <1>5, <1>6, Zenon

\* Extending acts on the second of two lists put together.
LEMMA ExtendConcat ==
    ASSUME NEW C, NEW ks \in LabelLists(C), NEW ls \in LabelLists(C), NEW c \in C
    PROVE  Extend(ks \o ls, c) = ks \o Extend(ls, c)
<1>0. /\ ks \in Seq(Seq(C)) /\ Len(ks) \in Nat /\ Len(ks) >= 1
      /\ ls \in Seq(Seq(C)) /\ Len(ls) \in Nat /\ Len(ls) >= 1
  BY DEF LabelLists
<1> DEFINE m == Len(ks)
           n == Len(ls)
           y == ks \o ls
           z == Extend(ls, c)
<1>1. /\ y \in Seq(Seq(C)) /\ Len(y) = m + n
      /\ \A i \in 1..m : y[i] = ks[i]
      /\ \A i \in 1..n : y[m + i] = ls[i]
  BY <1>0
<1>2. y \in LabelLists(C)
  BY <1>0, <1>1 DEF LabelLists
<1>3. z \in LabelLists(C) /\ z \in Seq(Seq(C)) /\ Len(z) \in Nat
  BY ExtendTyped DEF LabelLists
<1> HIDE DEF y, z
<1>4. Extend(y, c) \in LabelLists(C)
  BY <1>2, ExtendTyped, Zenon
<1> DEFINE w == Extend(y, c)
<1>w. w \in Seq(Seq(C)) /\ Len(w) \in Nat
  BY <1>4 DEF LabelLists
<1> HIDE DEF w
<1>m. m \in Nat /\ n \in Nat /\ m >= 1 /\ n >= 1
  BY <1>0, Zenon
<1>5. /\ ks \o z \in Seq(Seq(C)) /\ Len(ks \o z) = m + Len(z)
      /\ \A i \in 1..(m + Len(z)) : (ks \o z)[i] = IF i <= m THEN ks[i] ELSE z[i - m]
  BY <1>0, <1>3, ConcatProperties, Zenon
<1> HIDE DEF m, n
<1>6. CASE c = "."
  <2>1. Len(z) = n + 1 /\ z[n + 1] = <<>> /\ \A i \in 1..n : z[i] = ls[i]
    BY <1>6, ExtendedByDot, Zenon DEF z, n
  <2>2. Len(w) = m + n + 1 /\ w[m + n + 1] = <<>> /\ \A i \in 1..(m + n) : w[i] = y[i]
    <3>1. Len(y) = m + n
      BY <1>1, Zenon
    <3>2. /\ Len(Extend(y, ".")) = Len(y) + 1 /\ Extend(y, ".")[Len(y) + 1] = <<>>
          /\ \A i \in 1..Len(y) : Extend(y, ".")[i] = y[i]
      BY <1>2, ExtendedByDot, Zenon
    <3> QED  BY <1>6, <3>1, <3>2, Zenon DEF w
  <2>3. ASSUME NEW i \in 1..(m + n + 1)
        PROVE  w[i] = (ks \o z)[i]
    <3>0. i \in 1..(m + Len(z))
      BY <1>m, <2>1
    <3>1. CASE i <= m
      <4>1. i \in 1..(m + n) /\ i \in 1..m
        BY <1>m, <3>1
      <4>2. w[i] = ks[i]
        BY <1>1, <2>2, <4>1, Zenon
      <4>3. (ks \o z)[i] = ks[i]
        BY <1>5, <3>0, <3>1, Zenon
      <4> QED  BY <4>2, <4>3, Zenon
    <3>2. CASE i > m /\ i <= m + n
      <4>1. i - m \in 1..n /\ m + (i - m) = i /\ i \in 1..(m + n)
        BY <1>m, <3>2
      <4>2. w[i] = ls[i - m] /\ z[i - m] = ls[i - m]
        BY <1>1, <2>1, <2>2, <4>1, Zenon
      <4>3. (ks \o z)[i] = z[i - m]
        BY <1>m, <1>5, <3>0, <3>2
      <4> QED  BY <4>2, <4>3, Zenon
    <3>3. CASE i = m + n + 1
      <4>1. i - m = n + 1 /\ ~(i <= m)
        BY <1>m, <3>3
      <4>2. (ks \o z)[i] = z[n + 1]
        BY <1>5, <3>0, <4>1, Zenon
      <4> QED  BY <2>1, <2>2, <3>3, <4>2, Zenon
    <3>4. i <= m \/ (i > m /\ i <= m + n) \/ i = m + n + 1
      BY <1>m
    <3> QED  BY <3>1, <3>2, <3>3, <3>4, Zenon
  <2>4. Len(w) = Len(ks \o z)
    BY <1>m, <1>5, <2>1, <2>2
  <2>5. w \in Seq(Seq(C))
    BY <1>w, Zenon
  <2>6. \A i \in 1..Len(w) : w[i] = (ks \o z)[i]
    BY <2>2, <2>3, Zenon
  <2>7. w = ks \o z
    BY <1>5, <2>4, <2>5, <2>6, SeqEqual, Zenon
  <2> QED  BY <2>7, Zenon DEF w, y, z
<1>7. CASE c # "."
  <2>1. Len(z) = n /\ z[n] = Append(ls[n], c) /\ \A i \in 1..(n - 1) : z[i] = ls[i]
    BY <1>7, ExtendedByChar, Zenon DEF z, n
  <2>2. /\ Len(w) = m + n /\ w[m + n] = Append(y[m + n], c)
        /\ \A i \in 1..(m + n - 1) : w[i] = y[i]
    <3>1. Len(y) = m + n
      BY <1>1, Zenon
    <3>2. /\ Len(Extend(y, c)) = Len(y) /\ Extend(y, c)[Len(y)] = Append(y[Len(y)], c)
          /\ \A i \in 1..(Len(y) - 1) : Extend(y, c)[i] = y[i]
      BY <1>2, <1>7, ExtendedByChar, Zenon
    <3>3. Len(w) = Len(y) /\ w[Len(y)] = Append(y[Len(y)], c)
      BY <3>2, Zenon DEF w
    <3>4. \A i \in 1..(Len(y) - 1) : w[i] = y[i]
      BY <3>2, Zenon DEF w
    <3>5. Len(w) = m + n
      BY <3>1, <3>3, Zenon
    <3>6. w[m + n] = Append(y[m + n], c)
      BY <3>1, <3>3, Zenon
    <3>7. ASSUME NEW i \in 1..(m + n - 1)
          PROVE  w[i] = y[i]
      <4>1. i \in 1..(Len(y) - 1)
        BY <1>m, <3>1
      <4> QED  BY <3>4, <4>1, Zenon
    <3> QED  BY <3>5, <3>6, <3>7, Zenon
  <2>3. ASSUME NEW i \in 1..(m + n)
        PROVE  w[i] = (ks \o z)[i]
    <3>0. i \in 1..(m + Len(z))
      BY <1>m, <2>1, Zenon
    <3>1. CASE i <= m
      <4>1. i \in 1..(m + n - 1) /\ i \in 1..m
        BY <1>m, <3>1
      <4> QED  BY <1>1, <1>5, <2>2, <3>0, <3>1, <4>1, Zenon
    <3>2. CASE i > m /\ i < m + n
      <4>1. i - m \in 1..n /\ i - m \in 1..(n - 1) /\ m + (i - m) = i /\ i \in 1..(m + n - 1)
        BY <1>m, <3>2
      <4>2. w[i] = ls[i - m] /\ z[i - m] = ls[i - m]
        BY <1>1, <2>1, <2>2, <4>1, Zenon
      <4>3. (ks \o z)[i] = z[i - m]
        BY <1>m, <1>5, <3>0, <3>2
      <4> QED  BY <4>2, <4>3, Zenon
    <3>3. CASE i = m + n
      <4>1. i - m = n /\ ~(i <= m) /\ n \in 1..n
        BY <1>m, <3>3
      <4>2. (ks \o z)[i] = z[n]
        BY <1>5, <3>0, <4>1, Zenon
      <4>3. y[m + n] = ls[n]
        BY <1>1, <4>1, Zenon
      <4> QED  BY <2>1, <2>2, <3>3, <4>2, <4>3, Zenon
    <3>4. i <= m \/ (i > m /\ i < m + n) \/ i = m + n
      BY <1>m
    <3> QED  BY <3>1, <3>2, <3>3, <3>4, Zenon
  <2>4. Len(w) = Len(ks \o z)
    BY <1>m, <1>5, <2>1, <2>2, Zenon
  <2>5. w \in Seq(Seq(C))
    BY <1>w, Zenon
  <2>6. \A i \in 1..Len(w) : w[i] = (ks \o z)[i]
    BY <2>2, <2>3, Zenon
  <2>7. w = ks \o z
    BY <1>5, <2>4, <2>5, <2>6, SeqEqual, Zenon
  <2> QED  BY <2>7, Zenon DEF w, y, z
<1> QED  BY <1>6, <1>7, Zenon

\* Appending to the second of two sequences put together.
LEMMA ConcatAppend ==
    ASSUME NEW C, NEW p \in Seq(C), NEW b \in Seq(C), NEW c \in C
    PROVE  p \o Append(b, c) = Append(p \o b, c) /\ p \o b \in Seq(C) /\ Append(b, c) \in Seq(C)
OBVIOUS

\* The labels of two names joined by a dot are the labels of the one and then of
\* the other: what the wildcard's test for a dot before the suffix relies on.
LEMMA LabelsConcat ==
    ASSUME NEW C, "." \in C, NEW a \in Seq(C)
    PROVE  \A b \in Seq(C) : Labels(Append(a, ".") \o b) = Labels(a) \o Labels(b)
<1> DEFINE S == {b \in Seq(C) : Labels(Append(a, ".") \o b) = Labels(a) \o Labels(b)}
<1>a. Labels(a) \in LabelLists(C) /\ Labels(a) \in Seq(Seq(C))
  BY LabelsTyped, Zenon DEF LabelLists
<1>d. Append(a, ".") \in Seq(C)
  OBVIOUS
<1>1. <<>> \in S
  <2>1. Append(a, ".") \o <<>> = Append(a, ".")
    BY <1>d
  <2>2. Labels(Append(a, ".")) = Append(Labels(a), <<>>)
    BY LabelsStep, Zenon DEF Extend
  <2>3. Labels(a) \o <<(<<>>)>> = Append(Labels(a), <<>>)
    BY <1>a
  <2>4. Labels(Append(a, ".") \o <<>>) = Labels(a) \o Labels(<<>>)
    BY <2>1, <2>2, <2>3, NoLabels, Zenon
  <2>5. <<>> \in Seq(C)
    OBVIOUS
  <2> QED  BY <2>4, <2>5, Zenon
<1>2. ASSUME NEW b \in Seq(C), NEW c \in C, b \in S
      PROVE  Append(b, c) \in S
  <2> DEFINE p == Append(a, ".")
  <2>1. p \o Append(b, c) = Append(p \o b, c) /\ p \o b \in Seq(C)
    BY <1>d, ConcatAppend
  <2> HIDE DEF p
  <2>2. Labels(p \o Append(b, c)) = Extend(Labels(p \o b), c)
    BY <2>1, LabelsStep, Zenon
  <2>3. Labels(p \o b) = Labels(a) \o Labels(b)
    BY <1>2, Zenon DEF p
  <2>4. Labels(b) \in LabelLists(C)
    BY LabelsTyped, Zenon
  <2>5. Extend(Labels(a) \o Labels(b), c) = Labels(a) \o Extend(Labels(b), c)
    BY <1>a, <2>4, ExtendConcat
  <2>6. Labels(Append(b, c)) = Extend(Labels(b), c)
    BY LabelsStep, Zenon
  <2>7. Labels(p \o Append(b, c)) = Labels(a) \o Labels(Append(b, c))
    BY <2>2, <2>3, <2>5, <2>6, Zenon
  <2>8. Append(b, c) \in Seq(C)
    OBVIOUS
  <2> QED  BY <2>7, <2>8, Zenon DEF p
<1>3. Seq(C) \subseteq S
  <2> HIDE DEF S
  <2> QED  BY <1>1, <1>2, NameByName, Zenon
<1> QED  BY <1>3, Zenon

\* A name is determined by its labels, so that comparing names is comparing labels.
LEMMA LabelsInjective ==
    ASSUME NEW C
    PROVE  \A s, t \in Seq(C) : Labels(s) = Labels(t) => s = t
<1> DEFINE S == {s \in Seq(C) : \A t \in Seq(C) : Labels(s) = Labels(t) => s = t}
<1>0. ASSUME NEW s \in Seq(C), NEW c \in C
      PROVE  Labels(Append(s, c)) # <<(<<>>)>>
  <2> DEFINE x == <<(<<>>)>>
             ls == Labels(s)
  <2>1. ls \in LabelLists(C) /\ ls \in Seq(Seq(C)) /\ Len(ls) \in Nat /\ Len(ls) >= 1
    BY LabelsTyped DEF LabelLists
  <2>2. Labels(Append(s, c)) = Extend(ls, c)
    BY LabelsStep, Zenon
  <2>3. Len(x) = 1 /\ x[1] = <<>>
    BY Zenon
  <2> HIDE DEF x, ls
  <2>4. CASE c = "."
    <3>1. Len(Extend(ls, c)) = Len(ls) + 1
      BY <2>1, <2>4, ExtendedByDot, Zenon
    <3> QED  BY <2>1, <2>2, <2>3, <3>1 DEF x
  <2>5. CASE c # "."
    <3>1. Len(Extend(ls, c)) = Len(ls) /\ Extend(ls, c)[Len(ls)] = Append(ls[Len(ls)], c)
      BY <2>1, <2>5, ExtendedByChar, Zenon
    <3>2. ls[Len(ls)] \in Seq(C)
      BY <2>1
    <3>3. Append(ls[Len(ls)], c) # <<>>
      BY <3>2
    <3>4. Extend(ls, c) # x
      BY <2>1, <2>3, <3>1, <3>3, Zenon
    <3> QED  BY <2>2, <3>4, Zenon DEF x
  <2> QED  BY <2>4, <2>5, Zenon
<1>1. <<>> \in S
  <2>1. ASSUME NEW t \in Seq(C), Labels(<<>>) = Labels(t)
        PROVE  <<>> = t
    <3>1. SUFFICES ASSUME t # <<>> PROVE FALSE
      BY Zenon
    <3>2. PICK s \in Seq(C), c \in C : t = Append(s, c)
      BY <3>1, SequenceEmptyOrAppend, Zenon
    <3> QED  BY <1>0, <2>1, <3>2, NoLabels, Zenon
  <2> QED  BY <2>1
<1>2. ASSUME NEW s \in Seq(C), NEW c \in C, s \in S
      PROVE  Append(s, c) \in S
  <2>1. ASSUME NEW t \in Seq(C), Labels(Append(s, c)) = Labels(t)
        PROVE  Append(s, c) = t
    <3>1. t # <<>>
      BY <1>0, <2>1, NoLabels, Zenon
    <3>2. PICK u \in Seq(C), d \in C : t = Append(u, d)
      BY <3>1, SequenceEmptyOrAppend, Zenon
    <3>3. Extend(Labels(s), c) = Extend(Labels(u), d)
      BY <2>1, <3>2, LabelsStep, Zenon
    <3>4. Labels(s) \in LabelLists(C) /\ Labels(u) \in LabelLists(C)
      BY LabelsTyped, Zenon
    <3>5. Labels(s) = Labels(u) /\ c = d
      BY <3>3, <3>4, ExtendInjective
    <3>6. s = u
      BY <1>2, <3>5, Zenon
    <3> QED  BY <3>2, <3>5, <3>6, Zenon
  <2>2. Append(s, c) \in Seq(C)
    OBVIOUS
  <2> QED  BY <2>1, <2>2, Zenon
<1>3. Seq(C) \subseteq S
  <2> HIDE DEF S
  <2> QED  BY <1>1, <1>2, NameByName, Zenon
<1> QED  BY <1>3, Zenon

\* A name of more than n labels is cut by a dot after the n-th.
LEMMA LabelsCut ==
    ASSUME NEW C, "." \in C
    PROVE  \A s \in Seq(C), n \in Nat :
              n >= 1 /\ n < Len(Labels(s)) =>
                 \E a, b \in Seq(C) : s = Append(a, ".") \o b /\ Len(Labels(a)) = n
<1> DEFINE Cut(s, n) == \E a, b \in Seq(C) : s = Append(a, ".") \o b /\ Len(Labels(a)) = n
           S == {s \in Seq(C) : \A n \in Nat : n >= 1 /\ n < Len(Labels(s)) => Cut(s, n)}
<1>1. <<>> \in S
  <2>1. Len(Labels(<<>>)) = 1
    BY NoLabels
  <2>2. \A n \in Nat : ~(n >= 1 /\ n < 1)
    OBVIOUS
  <2>3. <<>> \in Seq(C)
    OBVIOUS
  <2> HIDE DEF Cut
  <2> QED  BY <2>1, <2>2, <2>3, Zenon
<1>2. ASSUME NEW s \in Seq(C), NEW c \in C, s \in S
      PROVE  Append(s, c) \in S
  <2> DEFINE ls == Labels(s)
             t == Append(s, c)
  <2>1. ls \in LabelLists(C) /\ Len(ls) \in Nat /\ Len(ls) >= 1
    BY LabelsTyped DEF LabelLists
  <2>2. Labels(t) = Extend(ls, c)
    BY LabelsStep, Zenon
  <2>3. t \in Seq(C)
    OBVIOUS
  <2>4. ASSUME NEW n \in Nat, Cut(s, n)
        PROVE  Cut(t, n)
    <3>1. PICK a \in Seq(C), b \in Seq(C) : s = Append(a, ".") \o b /\ Len(Labels(a)) = n
      BY <2>4, Zenon
    <3> DEFINE p == Append(a, ".")
    <3>2. p \in Seq(C)
      OBVIOUS
    <3> HIDE DEF p
    <3>3. p \o Append(b, c) = Append(p \o b, c) /\ Append(b, c) \in Seq(C)
      BY <3>2, ConcatAppend
    <3>4. t = p \o Append(b, c)
      BY <3>1, <3>3, Zenon DEF p
    <3> QED  BY <3>1, <3>3, <3>4, Zenon DEF p
  <2>5. ASSUME NEW n \in Nat, n >= 1, n < Len(Labels(t))
        PROVE  Cut(t, n)
    <3>1. CASE n < Len(ls)
      <4>1. Cut(s, n)
        BY <1>2, <2>5, <3>1, Zenon
      <4> HIDE DEF Cut
      <4> QED  BY <2>4, <4>1, Zenon
    <3>2. CASE ~(n < Len(ls))
      <4>1. c = "."
        <5>1. c # "." => Len(Extend(ls, c)) = Len(ls)
          BY <2>1, ExtendedByChar, Zenon
        <5>2. Len(Extend(ls, c)) # Len(ls)
          BY <2>2, <2>5, <3>2, Zenon
        <5> QED  BY <5>1, <5>2, Zenon
      <4>2. Len(Labels(t)) = Len(ls) + 1
        BY <2>1, <2>2, <4>1, ExtendedByDot, Zenon
      <4>3. n = Len(ls)
        BY <2>1, <2>5, <3>2, <4>2
      <4>4. t = Append(s, ".") \o <<>> /\ <<>> \in Seq(C)
        BY <4>1
      <4> QED  BY <4>3, <4>4, Zenon
    <3> QED  BY <3>1, <3>2, Zenon
  <2> HIDE DEF Cut, t
  <2> QED  BY <2>3, <2>5, Zenon DEF t
<1>3. Seq(C) \subseteq S
  <2> HIDE DEF S
  <2> QED  BY <1>1, <1>2, NameByName, Zenon
<1> QED  BY <1>3, Zenon

\* strip_prefix compares elements from the front.
LEMMA PrefixIs ==
    ASSUME NEW C, NEW s \in Seq(C), NEW t \in Seq(C)
    PROVE  IsPrefix(s, t) <=> Len(s) <= Len(t) /\ \A i \in 1..Len(s) : s[i] = t[i]
<1>1. Len(s) \in Nat /\ Len(t) \in Nat
  OBVIOUS
<1>2. ASSUME Len(s) <= Len(t)
      PROVE  (SubSeq(s, 1, Len(s)) = SubSeq(t, 1, Len(s))) <=> \A i \in 1..Len(s) : s[i] = t[i]
  <2> DEFINE u == SubSeq(s, 1, Len(s))
             v == SubSeq(t, 1, Len(s))
  <2>1. u \in Seq(C) /\ Len(u) = Len(s) /\ \A i \in 1..Len(s) : u[i] = s[i]
    BY <1>1
  <2>2. v \in Seq(C) /\ Len(v) = Len(s) /\ \A i \in 1..Len(s) : v[i] = t[i]
    BY <1>1, <1>2
  <2> HIDE DEF u, v
  <2>3. (\A i \in 1..Len(s) : s[i] = t[i]) => u = v
    BY <2>1, <2>2, SeqEqual, Zenon
  <2>4. u = v => \A i \in 1..Len(s) : s[i] = t[i]
    BY <2>1, <2>2, Zenon
  <2> QED  BY <2>3, <2>4, Zenon DEF u, v
<1> QED  BY <1>2, Zenon DEF IsPrefix

\* strip_suffix compares elements from the back.
LEMMA SuffixIs ==
    ASSUME NEW C, NEW s \in Seq(C), NEW t \in Seq(C)
    PROVE  IsSuffix(s, t) <=>
              /\ Len(s) <= Len(t)
              /\ \A i \in 1..Len(s) : s[i] = t[Len(t) - Len(s) + i]
<1> DEFINE u == Reverse(s)
           v == Reverse(t)
<1>0. Len(s) \in Nat /\ Len(t) \in Nat
  OBVIOUS
<1>1. u \in Seq(C) /\ Len(u) = Len(s) /\ \A i \in 1..Len(s) : u[i] = s[(Len(s) - i) + 1]
  <2>1. u \in [1..Len(s) -> C]
    BY <1>0 DEF Reverse
  <2> QED  BY <1>0, <2>1 DEF Reverse
<1>2. v \in Seq(C) /\ Len(v) = Len(t) /\ \A i \in 1..Len(t) : v[i] = t[(Len(t) - i) + 1]
  <2>1. v \in [1..Len(t) -> C]
    BY <1>0 DEF Reverse
  <2> QED  BY <1>0, <2>1 DEF Reverse
<1> HIDE DEF u, v
<1>3. IsSuffix(s, t) <=> Len(s) <= Len(t) /\ \A i \in 1..Len(s) : u[i] = v[i]
  <2>1. IsPrefix(u, v) <=> Len(u) <= Len(v) /\ \A i \in 1..Len(u) : u[i] = v[i]
    BY <1>1, <1>2, PrefixIs
  <2>2. IsSuffix(s, t) <=> IsPrefix(u, v)
    BY Zenon DEF IsSuffix, u, v
  <2> QED  BY <1>1, <1>2, <2>1, <2>2, Zenon
<1>4. ASSUME Len(s) <= Len(t), \A i \in 1..Len(s) : u[i] = v[i], NEW i \in 1..Len(s)
      PROVE  s[i] = t[Len(t) - Len(s) + i]
  <2> DEFINE k == Len(s) - i + 1
  <2>1. k \in 1..Len(s) /\ k \in 1..Len(t) /\ (Len(s) - k) + 1 = i /\
        (Len(t) - k) + 1 = Len(t) - Len(s) + i
    BY <1>0, <1>4
  <2> HIDE DEF k
  <2>2. u[k] = s[i] /\ v[k] = t[Len(t) - Len(s) + i]
    BY <1>1, <1>2, <2>1, Zenon
  <2> QED  BY <1>4, <2>1, <2>2, Zenon
<1>5. ASSUME Len(s) <= Len(t), \A i \in 1..Len(s) : s[i] = t[Len(t) - Len(s) + i],
             NEW i \in 1..Len(s)
      PROVE  u[i] = v[i]
  <2> DEFINE k == Len(s) - i + 1
  <2>1. k \in 1..Len(s) /\ i \in 1..Len(t) /\ (Len(s) - i) + 1 = k /\
        (Len(t) - i) + 1 = Len(t) - Len(s) + k
    BY <1>0, <1>5
  <2> HIDE DEF k
  <2>2. u[i] = s[k] /\ v[i] = t[Len(t) - Len(s) + k]
    BY <1>1, <1>2, <2>1, Zenon
  <2> QED  BY <1>5, <2>1, <2>2, Zenon
<1> QED  BY <1>3, <1>4, <1>5, Zenon

\* strip_suffix leaves what comes before the suffix, and nothing else does.
LEMMA SuffixConcat ==
    ASSUME NEW C, NEW s \in Seq(C), NEW t \in Seq(C)
    PROVE  /\ IsSuffix(s, t) =>
                /\ SubSeq(t, 1, Len(t) - Len(s)) \in Seq(C)
                /\ t = SubSeq(t, 1, Len(t) - Len(s)) \o s
           /\ \A p \in Seq(C) : t = p \o s =>
                /\ IsSuffix(s, t) /\ SubSeq(t, 1, Len(t) - Len(s)) = p
<1>0. Len(s) \in Nat /\ Len(t) \in Nat
  OBVIOUS
<1>1. ASSUME IsSuffix(s, t)
      PROVE  /\ SubSeq(t, 1, Len(t) - Len(s)) \in Seq(C)
             /\ t = SubSeq(t, 1, Len(t) - Len(s)) \o s
  <2> DEFINE m == Len(t) - Len(s)
             p == SubSeq(t, 1, m)
  <2>1. Len(s) <= Len(t) /\ \A i \in 1..Len(s) : s[i] = t[m + i]
    BY <1>1, SuffixIs, Zenon
  <2>2. m \in Nat /\ m <= Len(t) /\ m + Len(s) = Len(t)
    BY <1>0, <2>1
  <2> HIDE DEF m
  <2>3. p \in Seq(C) /\ Len(p) = m /\ \A i \in 1..m : p[i] = t[i]
    BY <2>2
  <2> HIDE DEF p
  <2>4. /\ p \o s \in Seq(C) /\ Len(p \o s) = m + Len(s)
        /\ \A i \in 1..(m + Len(s)) : (p \o s)[i] = IF i <= m THEN p[i] ELSE s[i - m]
    BY <2>3, ConcatProperties, Zenon
  <2>5. ASSUME NEW i \in 1..Len(t)
        PROVE  t[i] = (p \o s)[i]
    <3>1. CASE i <= m
      <4>1. i \in 1..m /\ i \in 1..(m + Len(s))
        BY <1>0, <2>2, <3>1
      <4> QED  BY <2>3, <2>4, <3>1, <4>1, Zenon
    <3>2. CASE ~(i <= m)
      <4>1. i - m \in 1..Len(s) /\ i \in 1..(m + Len(s)) /\ m + (i - m) = i
        BY <1>0, <2>2, <3>2
      <4>2. (p \o s)[i] = s[i - m]
        BY <2>4, <3>2, <4>1, Zenon
      <4> QED  BY <2>1, <4>1, <4>2, Zenon
    <3> QED  BY <3>1, <3>2, Zenon
  <2>6. t = p \o s
    BY <2>2, <2>4, <2>5, SeqEqual, Zenon
  <2> QED  BY <2>3, <2>6, Zenon DEF p, m
<1>2. ASSUME NEW p \in Seq(C), t = p \o s
      PROVE  IsSuffix(s, t) /\ SubSeq(t, 1, Len(t) - Len(s)) = p
  <2>1. /\ Len(t) = Len(p) + Len(s) /\ Len(p) \in Nat
        /\ \A i \in 1..(Len(p) + Len(s)) : t[i] = IF i <= Len(p) THEN p[i] ELSE s[i - Len(p)]
    BY <1>2, ConcatProperties
  <2>2. Len(t) - Len(s) = Len(p) /\ Len(s) <= Len(t)
    BY <1>0, <2>1
  <2>3. ASSUME NEW i \in 1..Len(s)
        PROVE  s[i] = t[Len(p) + i]
    <3>1. Len(p) + i \in 1..(Len(p) + Len(s)) /\ ~(Len(p) + i <= Len(p)) /\
          (Len(p) + i) - Len(p) = i
      BY <1>0, <2>1
    <3> QED  BY <2>1, <3>1, Zenon
  <2>4. IsSuffix(s, t)
    BY <2>2, <2>3, SuffixIs, Zenon
  <2> DEFINE q == SubSeq(t, 1, Len(p))
  <2>5. q \in Seq(C) /\ Len(q) = Len(p) /\ \A i \in 1..Len(p) : q[i] = t[i]
    BY <1>0, <2>1, <2>2
  <2>6. \A i \in 1..Len(p) : t[i] = p[i]
    BY <1>0, <2>1
  <2> HIDE DEF q
  <2>7. q = p
    BY <2>5, <2>6, SeqEqual, Zenon
  <2> QED  BY <2>2, <2>4, <2>7, Zenon DEF q
<1> QED  BY <1>1, <1>2, Zenon

\* normalize_host gives a host name.
LEMMA HostTyped ==
    ASSUME NEW s \in Seq(Chars)
    PROVE  NormalizeHost(s) \in Seq(Chars)
<1>1. ASSUME NEW t \in Seq(Chars)
      PROVE  Lower(t) \in Seq(Chars)
  <2>1. DOMAIN t = 1..Len(t) /\ Len(t) \in Nat /\ \A i \in 1..Len(t) : t[i] \in Chars
    OBVIOUS
  <2>2. Lower(t) \in [1..Len(t) -> Chars]
    BY <2>1, Zenon DEF Lower, Chars
  <2> QED  BY <2>1, <2>2, SeqDef
<1>2. s # <<>> => Front(s) \in Seq(Chars)
  BY DEF Front
<1> QED  BY <1>1, <1>2, Zenon DEF NormalizeHost

\* A lone star is a single label.
LEMMA Starred ==
    Labels(<<"*">>) = << <<"*">> >>
<1>1. <<"*">> = Append(<<>>, "*") /\ <<>> \in Seq(Chars) /\ "*" \in Chars
  BY DEF Chars
<1>2. Labels(<<"*">>) = Extend(<<(<<>>)>>, "*")
  BY <1>1, LabelsStep, NoLabels, Zenon
<1>3. <<(<<>>)>> \in LabelLists(Chars)
  BY DEF LabelLists
<1> DEFINE x == Extend(<<(<<>>)>>, "*")
<1>4. x \in Seq(Seq(Chars)) /\ Len(x) = 1 /\ x[1] = Append(<<>>, "*")
  BY <1>1, <1>3, ExtendedByChar, ZenonT(40) DEF LabelLists
<1> HIDE DEF x
<1>5. x = << <<"*">> >>
  BY <1>4
<1> QED  BY <1>2, <1>5, Zenon DEF x

\* Equal sequences cut at the same place have equal ends.
LEMMA ConcatCancel ==
    ASSUME NEW C, NEW p \in Seq(C), NEW q \in Seq(C), NEW u \in Seq(C), NEW v \in Seq(C),
           p \o u = q \o v, Len(p) = Len(q)
    PROVE  u = v
<1>1. Len(u) = Len(v)
  OBVIOUS
<1>2. ASSUME NEW i \in 1..Len(u)
      PROVE  u[i] = v[i]
  <2>1. (p \o u)[Len(p) + i] = u[i]
    OBVIOUS
  <2>2. (q \o v)[Len(q) + i] = v[i]
    BY <1>1
  <2> QED  BY <2>1, <2>2, Zenon
<1> QED  BY <1>1, <1>2, SeqEqual, Zenon

\* DomainAllowlist::allows for a wildcard entry: the host is the suffix, or ends
\* with it after a dot, exactly when its labels end with those of the suffix.
LEMMA WildcardByLabels ==
    ASSUME NEW x \in Seq(Chars), NEW h \in Seq(Chars)
    PROVE  LET prefix == SubSeq(h, 1, Len(h) - Len(x)) IN
           (h = x \/ (IsSuffix(x, h) /\ prefix # <<>> /\ Last(prefix) = "."))
              <=> IsSuffix(Labels(x), Labels(h))
<1> DEFINE prefix == SubSeq(h, 1, Len(h) - Len(x))
           Match == h = x \/ (IsSuffix(x, h) /\ prefix # <<>> /\ Last(prefix) = ".")
           L == Seq(Chars)
<1>0. Labels(x) \in Seq(L) /\ Labels(h) \in Seq(L) /\ "." \in Chars /\ Len(Labels(x)) >= 1
  BY LabelsTyped, Zenon DEF LabelLists, Chars
<1>1. ASSUME h = x
      PROVE  IsSuffix(Labels(x), Labels(h))
  <2>1. Labels(h) = <<>> \o Labels(x) /\ <<>> \in Seq(L)
    BY <1>0, <1>1
  <2> QED  BY <1>0, <2>1, SuffixConcat, Zenon
<1>2. ASSUME IsSuffix(x, h), prefix # <<>>, Last(prefix) = "."
      PROVE  IsSuffix(Labels(x), Labels(h))
  <2>1. prefix \in Seq(Chars) /\ h = prefix \o x
    BY <1>2, SuffixConcat, Zenon
  <2> HIDE DEF prefix
  <2>2. PICK p \in Seq(Chars), c \in Chars : prefix = Append(p, c)
    BY <1>2, <2>1, SequenceEmptyOrAppend, Zenon
  <2>3. c = "."
    BY <1>2, <2>2 DEF Last
  <2>4. Labels(h) = Labels(p) \o Labels(x)
    BY <1>0, <2>1, <2>2, <2>3, LabelsConcat, Zenon
  <2>5. Labels(p) \in Seq(L)
    BY LabelsTyped, Zenon DEF LabelLists
  <2> QED  BY <1>0, <2>4, <2>5, SuffixConcat, Zenon
<1>3. ASSUME IsSuffix(Labels(x), Labels(h))
      PROVE  Match
  <2> DEFINE n == Len(Labels(h)) - Len(Labels(x))
             ks == SubSeq(Labels(h), 1, n)
  <2>1. ks \in Seq(L) /\ Labels(h) = ks \o Labels(x)
    BY <1>0, <1>3, SuffixConcat, Zenon
  <2>2. n \in Nat /\ Len(Labels(h)) = n + Len(Labels(x)) /\ Len(ks) = n
    BY <1>0, <2>1
  <2> HIDE DEF n, ks
  <2>3. CASE n = 0
    <3>1. ks = <<>>
      BY <2>1, <2>2, <2>3
    <3>2. Labels(h) = Labels(x)
      BY <1>0, <2>1, <3>1
    <3>3. h = x
      BY <3>2, LabelsInjective, Zenon
    <3> QED  BY <3>3, Zenon
  <2>4. CASE n # 0
    <3>1. n >= 1 /\ n < Len(Labels(h))
      BY <1>0, <2>2, <2>4
    <3>2. PICK a \in Seq(Chars), b \in Seq(Chars) :
             h = Append(a, ".") \o b /\ Len(Labels(a)) = n
      BY <1>0, <2>2, <3>1, LabelsCut, Zenon
    <3>3. Labels(h) = Labels(a) \o Labels(b) /\ Labels(a) \in Seq(L) /\ Labels(b) \in Seq(L)
      BY <1>0, <3>2, LabelsConcat, LabelsTyped, Zenon DEF LabelLists
    <3>4. Labels(b) = Labels(x)
      BY <1>0, <2>1, <2>2, <3>2, <3>3, ConcatCancel, Zenon
    <3>5. b = x
      BY <3>4, LabelsInjective, Zenon
    <3>6. Append(a, ".") \in Seq(Chars) /\ Append(a, ".") # <<>> /\ Last(Append(a, ".")) = "."
      <4>1. Append(a, ".") \in Seq(Chars) /\ Append(a, ".") # <<>>
        BY <1>0, AppendProperties, ZenonT(40)
      <4>2. Len(Append(a, ".")) = Len(a) + 1 /\ Append(a, ".")[Len(a) + 1] = "."
        BY <1>0, AppendProperties, Zenon
      <4> QED  BY <4>1, <4>2, Zenon DEF Last
    <3>7. IsSuffix(x, h) /\ prefix = Append(a, ".")
      BY <3>2, <3>5, <3>6, SuffixConcat, Zenon
    <3> HIDE DEF prefix
    <3> QED  BY <3>6, <3>7, Zenon
  <2> QED  BY <2>3, <2>4, Zenon
<1> QED  BY <1>1, <1>2, <1>3, Zenon

\* Length and elements of a sequence that was appended to.
LEMMA AppendFacts ==
    ASSUME NEW C, NEW y \in Seq(C), NEW c \in C
    PROVE  /\ Append(y, c) \in Seq(C) /\ Len(Append(y, c)) = Len(y) + 1
           /\ \A i \in 1..Len(y) : Append(y, c)[i] = y[i]
           /\ Append(y, c)[Len(y) + 1] = c
BY AppendProperties

\* Length and elements of two sequences put together.
LEMMA ConcatFacts ==
    ASSUME NEW C, NEW y \in Seq(C), NEW x \in Seq(C)
    PROVE  /\ y \o x \in Seq(C) /\ Len(y \o x) = Len(y) + Len(x)
           /\ \A i \in 1..(Len(y) + Len(x)) :
                 (y \o x)[i] = IF i <= Len(y) THEN y[i] ELSE x[i - Len(y)]
BY ConcatProperties, Zenon

\* The prefix that marks a wildcard entry, as a sequence of two characters.
LEMMA StarDot ==
    LET sd == <<"*", ".">> IN
    /\ sd \in Seq(Chars) /\ Len(sd) = 2 /\ sd[1] = "*" /\ sd[2] = "."
    /\ <<"*">> \in Seq(Chars) /\ Append(<<"*">>, ".") = sd
<1> DEFINE sd == <<"*", ".">>
           x == Append(<<"*">>, ".")
<1>0. "*" \in Chars /\ "." \in Chars
  BY Zenon DEF Chars
<1>1. sd \in Seq(Chars) /\ Len(sd) = 2 /\ sd[1] = "*" /\ sd[2] = "."
  BY <1>0
<1>2. <<"*">> \in Seq(Chars) /\ Len(<<"*">>) = 1 /\ <<"*">>[1] = "*"
  BY <1>0
<1>3. x \in Seq(Chars) /\ Len(x) = 2 /\ x[1] = "*" /\ x[2] = "."
  <2> DEFINE y == <<"*">>
  <2>1. y \in Seq(Chars) /\ Len(y) = 1 /\ y[1] = "*"
    BY <1>2, Zenon
  <2> HIDE DEF y
  <2>2. LET z == Append(y, ".") IN z \in Seq(Chars) /\ Len(z) = 2 /\ z[1] = "*" /\ z[2] = "."
    <3>1. /\ Append(y, ".") \in Seq(Chars) /\ Len(Append(y, ".")) = Len(y) + 1
          /\ \A i \in 1..Len(y) : Append(y, ".")[i] = y[i]
          /\ Append(y, ".")[Len(y) + 1] = "."
      BY <1>0, <2>1, AppendFacts, Zenon
    <3>2. Len(y) + 1 = 2 /\ 1 \in 1..Len(y)
      BY <2>1
    <3> QED  BY <2>1, <3>1, <3>2, Zenon
  <2> QED  BY <2>2, Zenon DEF y
<1> HIDE DEF sd, x
<1>4. \A i \in 1..2 : x[i] = sd[i]
  BY <1>1, <1>3
<1>5. x = sd
  BY <1>1, <1>3, <1>4, SeqEqual, Zenon
<1> QED  BY <1>1, <1>2, <1>5, Zenon DEF sd, x

\* strip_prefix of two elements compares the first two.
LEMMA PrefixOfTwo ==
    ASSUME NEW C, NEW t \in Seq(C), NEW s \in Seq(C), Len(s) = 2
    PROVE  IsPrefix(s, t) <=> Len(t) >= 2 /\ s[1] = t[1] /\ s[2] = t[2]
<1> DEFINE same == \A i \in 1..Len(s) : s[i] = t[i]
<1>1. IsPrefix(s, t) <=> Len(s) <= Len(t) /\ same
  <2>1. ASSUME IsPrefix(s, t)
        PROVE  Len(s) <= Len(t) /\ same
    BY <2>1, PrefixIs, ZenonT(40)
  <2>2. ASSUME Len(s) <= Len(t), same
        PROVE  IsPrefix(s, t)
    BY <2>2, PrefixIs, ZenonT(40)
  <2> HIDE DEF same
  <2> QED  BY <2>1, <2>2, Zenon
<1>2. same <=> s[1] = t[1] /\ s[2] = t[2]
  <2>1. 1..Len(s) = {1, 2}
    OBVIOUS
  <2> QED  BY <2>1, Zenon
<1>3. Len(s) <= Len(t) <=> Len(t) >= 2
  OBVIOUS
<1> HIDE DEF same
<1> QED  BY <1>1, <1>2, <1>3, Zenon

\* DomainAllowlist::new looks at two characters to tell a wildcard entry.
LEMMA StarPrefix ==
    ASSUME NEW e \in Seq(Chars)
    PROVE  IsPrefix(<<"*", ".">>, e) <=> Len(e) >= 2 /\ e[1] = "*" /\ e[2] = "."
<1> DEFINE sd == <<"*", ".">>
<1>1. sd \in Seq(Chars) /\ Len(sd) = 2 /\ sd[1] = "*" /\ sd[2] = "."
  BY StarDot, Zenon
<1> HIDE DEF sd
<1>2. sd \in Seq(Chars) /\ Len(sd) = 2
  BY <1>1, Zenon
<1>3. IsPrefix(sd, e) <=> Len(e) >= 2 /\ sd[1] = e[1] /\ sd[2] = e[2]
  BY <1>2, PrefixOfTwo, Zenon
<1>4. sd[1] = "*" /\ sd[2] = "."
  BY <1>1, Zenon
<1>5. IsPrefix(sd, e) <=> Len(e) >= 2 /\ e[1] = "*" /\ e[2] = "."
  BY <1>3, <1>4, Zenon
<1> QED  BY <1>5, Zenon DEF sd

\* A wildcard entry is a star, a dot and the suffix that is kept.
LEMMA StarSplit ==
    ASSUME NEW e \in Seq(Chars), Len(e) >= 2, e[1] = "*", e[2] = "."
    PROVE  /\ SubSeq(e, 3, Len(e)) \in Seq(Chars)
           /\ e = Append(<<"*">>, ".") \o SubSeq(e, 3, Len(e))
<1> DEFINE x == SubSeq(e, 3, Len(e))
           sd == <<"*", ".">>
<1>0. Len(e) \in Nat
  OBVIOUS
<1>1. x \in Seq(Chars) /\ Len(x) = Len(e) - 2
  <2>1. 3 \in 1..(Len(e) + 1) /\ Len(e) \in (3 - 1)..Len(e) /\ (Len(e) - 3) + 1 = Len(e) - 2
    BY <1>0
  <2>2. x \in Seq(Chars) /\ Len(x) = (Len(e) - 3) + 1
    BY <2>1, SubSeqProperties
  <2> QED  BY <2>1, <2>2, Zenon
<1>2. \A i \in 1..Len(x) : x[i] = e[2 + i]
  BY <1>0
<1>3. sd \in Seq(Chars) /\ Len(sd) = 2 /\ sd[1] = "*" /\ sd[2] = "."
  BY StarDot, Zenon
<1> HIDE DEF x, sd
<1>c. /\ sd \o x \in Seq(Chars) /\ Len(sd \o x) = Len(sd) + Len(x)
      /\ \A i \in 1..(Len(sd) + Len(x)) :
            (sd \o x)[i] = IF i <= Len(sd) THEN sd[i] ELSE x[i - Len(sd)]
  BY <1>1, <1>3, ConcatFacts, Zenon
<1>4. sd \o x \in Seq(Chars) /\ Len(sd \o x) = 2 + Len(x)
  BY <1>3, <1>c, Zenon
<1>5. \A i \in 1..(2 + Len(x)) : (sd \o x)[i] = IF i <= 2 THEN sd[i] ELSE x[i - 2]
  BY <1>3, <1>c, Zenon
<1>6. ASSUME NEW i \in 1..Len(e)
      PROVE  e[i] = (sd \o x)[i]
  <2>0. i \in 1..(2 + Len(x))
    BY <1>0, <1>1
  <2>1. CASE i > 2
    <3>1. i - 2 \in 1..Len(x) /\ 2 + (i - 2) = i /\ ~(i <= 2)
      BY <1>0, <1>1, <2>1
    <3>2. x[i - 2] = e[i]
      BY <1>2, <3>1, Zenon
    <3> QED  BY <1>5, <2>0, <3>1, <3>2, Zenon
  <2>2. CASE ~(i > 2)
    <3>1. (i = 1 \/ i = 2) /\ i <= 2
      BY <1>0, <2>2
    <3>2. (sd \o x)[i] = sd[i]
      BY <1>5, <2>0, <3>1, Zenon
    <3> QED  BY <1>3, <3>1, <3>2, Zenon
  <2> QED  BY <2>1, <2>2, Zenon
<1>7. Len(e) = Len(sd \o x)
  BY <1>0, <1>1, <1>4
<1>8. e = sd \o x
  BY <1>4, <1>6, <1>7, SeqEqual, Zenon
<1> QED  BY <1>1, <1>8, StarDot, Zenon DEF sd, x

\* An entry whose first label of several is a star starts with the two characters
\* that DomainAllowlist::new looks for.
LEMMA StarByLabels ==
    ASSUME NEW e \in Seq(Chars), Head(Labels(e)) = <<"*">>, Len(Labels(e)) > 1
    PROVE  Len(e) >= 2 /\ e[1] = "*" /\ e[2] = "."
<1> DEFINE star == <<"*">>
<1>0. star \in Seq(Chars) /\ Labels(star) = <<star>> /\ Append(star, ".") = <<"*", ".">> /\
      "." \in Chars
  BY StarDot, Starred, Zenon DEF Chars
<1>1. Labels(e) \in Seq(Seq(Chars)) /\ Len(Labels(e)) \in Nat
  BY LabelsTyped DEF LabelLists
<1>2. PICK a \in Seq(Chars), b \in Seq(Chars) : e = Append(a, ".") \o b /\ Len(Labels(a)) = 1
  <2>1. 1 \in Nat /\ 1 >= 1 /\ 1 < Len(Labels(e))
    BY <1>1
  <2> HIDE DEF star
  <2>2. \A s \in Seq(Chars), n \in Nat :
           n >= 1 /\ n < Len(Labels(s)) =>
              \E a, b \in Seq(Chars) : s = Append(a, ".") \o b /\ Len(Labels(a)) = n
    BY <1>0, LabelsCut, Zenon
  <2>3. 1 >= 1 /\ 1 < Len(Labels(e)) =>
           \E a, b \in Seq(Chars) : e = Append(a, ".") \o b /\ Len(Labels(a)) = 1
    BY <2>1, <2>2, Zenon
  <2> QED  BY <2>1, <2>3, Zenon
<1> DEFINE la == Labels(a)
           lb == Labels(b)
<1>3. la \in Seq(Seq(Chars)) /\ lb \in Seq(Seq(Chars)) /\ Len(la) = 1
  BY <1>2, LabelsTyped, Zenon DEF LabelLists
<1>4. Labels(e) = la \o lb
  BY <1>0, <1>2, LabelsConcat, Zenon
<1> HIDE DEF la, lb, star
<1>5. Head(la \o lb) = la[1]
  <2>1. /\ la \o lb \in Seq(Seq(Chars)) /\ Len(la \o lb) = Len(la) + Len(lb)
        /\ \A i \in 1..(Len(la) + Len(lb)) :
              (la \o lb)[i] = IF i <= Len(la) THEN la[i] ELSE lb[i - Len(la)]
    BY <1>3, ConcatProperties, Zenon
  <2>2. 1 \in 1..(Len(la) + Len(lb)) /\ 1 <= Len(la)
    BY <1>3
  <2>3. (la \o lb)[1] = la[1]
    BY <2>1, <2>2, Zenon
  <2>4. la \o lb # <<>>
    BY <2>1, <2>2
  <2> QED  BY <2>1, <2>3, <2>4, SMTT(30)
<1>6. la[1] = star
  BY <1>4, <1>5, Zenon DEF star
<1>7. la = <<star>>
  BY <1>3, <1>6
<1>8. a = star
  BY <1>0, <1>7, LabelsInjective, Zenon DEF la
<1>9. e = <<"*", ".">> \o b
  BY <1>0, <1>2, <1>8, Zenon
<1> DEFINE sd == <<"*", ".">>
<1>10. sd \in Seq(Chars) /\ Len(sd) = 2 /\ sd[1] = "*" /\ sd[2] = "."
  BY StarDot, Zenon
<1> HIDE DEF sd
<1>11. Len(sd \o b) >= 2 /\ (sd \o b)[1] = "*" /\ (sd \o b)[2] = "."
  <2>1. /\ sd \o b \in Seq(Chars) /\ Len(sd \o b) = Len(sd) + Len(b)
        /\ \A i \in 1..(Len(sd) + Len(b)) :
              (sd \o b)[i] = IF i <= Len(sd) THEN sd[i] ELSE b[i - Len(sd)]
    BY <1>10, ConcatProperties, Zenon
  <2>2. Len(b) \in Nat
    OBVIOUS
  <2>3. 1 \in 1..(Len(sd) + Len(b)) /\ 2 \in 1..(Len(sd) + Len(b)) /\ 1 <= Len(sd) /\ 2 <= Len(sd)
    BY <1>10, <2>2
  <2>4. (sd \o b)[1] = sd[1] /\ (sd \o b)[2] = sd[2]
    BY <2>1, <2>3, Zenon
  <2> QED  BY <1>10, <2>1, <2>2, <2>4
<1> QED  BY <1>9, <1>11, Zenon DEF sd

\* The allowlist for every entry and every host name: DomainAllowlist::allows
\* decides on characters what the documentation of the entries says of labels.
LEMMA AllowedByLabels ==
    ASSUME NEW raw \in Seq(Chars), NEW host \in Seq(Chars)
    PROVE  Allows(NewEntry(raw), host) <=>
              MatchesLabels(Labels(NormalizeHost(raw)), Labels(NormalizeHost(host)))
<1> DEFINE e == NormalizeHost(raw)
           h == NormalizeHost(host)
           x == SubSeq(e, 3, Len(e))
<1>0. e \in Seq(Chars) /\ h \in Seq(Chars)
  BY HostTyped, Zenon
<1>1. CASE IsPrefix(<<"*", ".">>, e)
  <2>1. NewEntry(raw) = [wildcard |-> TRUE, suffix |-> x]
    BY <1>1, Zenon DEF NewEntry
  <2>2. Allows(NewEntry(raw), host) <=>
           (h = x \/ (/\ IsSuffix(x, h) /\ SubSeq(h, 1, Len(h) - Len(x)) # <<>>
                      /\ Last(SubSeq(h, 1, Len(h) - Len(x))) = "."))
    BY <2>1 DEF Allows
  <2> HIDE DEF e, h
  <2>3. Len(e) >= 2 /\ e[1] = "*" /\ e[2] = "."
    BY <1>0, <1>1, StarPrefix, Zenon
  <2>4. x \in Seq(Chars) /\ e = Append(<<"*">>, ".") \o x
    BY <1>0, <2>3, StarSplit, Zenon
  <2> HIDE DEF x
  <2>5. <<"*">> \in Seq(Chars) /\ "." \in Chars
    BY StarDot, Zenon DEF Chars
  <2>6. Labels(e) = << <<"*">> >> \o Labels(x)
    BY <2>4, <2>5, LabelsConcat, Starred, Zenon
  <2>7. Labels(x) \in Seq(Seq(Chars)) /\ Len(Labels(x)) >= 1
    BY <2>4, LabelsTyped, Zenon DEF LabelLists
  <2>8. Head(Labels(e)) = <<"*">> /\ Len(Labels(e)) > 1 /\ Tail(Labels(e)) = Labels(x)
    <3> DEFINE star == <<"*">>
               lx == Labels(x)
    <3>1. star \in Seq(Chars) /\ lx \in Seq(Seq(Chars)) /\ Len(lx) >= 1
      BY <2>5, <2>7, Zenon
    <3> HIDE DEF star, lx
    <3>2. Head(<<star>> \o lx) = star /\ Len(<<star>> \o lx) > 1 /\ Tail(<<star>> \o lx) = lx
      BY <3>1, SMTT(30)
    <3> QED  BY <2>6, <3>2, Zenon DEF star, lx
  <2>9. MatchesLabels(Labels(e), Labels(h)) <=> IsSuffix(Labels(x), Labels(h))
    BY <2>8, Zenon DEF MatchesLabels
  <2>10. Allows(NewEntry(raw), host) <=> IsSuffix(Labels(x), Labels(h))
    BY <1>0, <2>2, <2>4, WildcardByLabels, Zenon
  <2> QED  BY <2>9, <2>10, Zenon DEF e, h
<1>2. CASE ~IsPrefix(<<"*", ".">>, e)
  <2>1. NewEntry(raw) = [wildcard |-> FALSE, suffix |-> e]
    BY <1>2, Zenon DEF NewEntry
  <2>2. Allows(NewEntry(raw), host) <=> h = e
    BY <2>1 DEF Allows
  <2> HIDE DEF e, h
  <2>3. ~(Head(Labels(e)) = <<"*">> /\ Len(Labels(e)) > 1)
    BY <1>0, <1>2, StarByLabels, StarPrefix, Zenon
  <2>4. MatchesLabels(Labels(e), Labels(h)) <=> Labels(e) = Labels(h)
    BY <2>3, Zenon DEF MatchesLabels
  <2>5. Labels(e) = Labels(h) <=> e = h
    BY <1>0, LabelsInjective, Zenon
  <2> QED  BY <2>2, <2>4, <2>5, Zenon DEF e, h
<1> QED  BY <1>1, <1>2, Zenon

-----------------------------------------------------------------------------
(* The address guard, for every address.                                   *)

\* The test InBlock makes of one element of an address.

\* One element of an address agrees with that of a block's base in the bits kept.
Agree(x, y, kept, width) ==
    LET unit == IF kept >= width THEN 1 ELSE 2 ^ (width - kept)
    IN  kept <= 0 \/ x \div unit = y \div unit

\* Membership of an IPv4 block, octet by octet.
LEMMA InBlock4 ==
    ASSUME NEW o \in [1..4 -> Nat], NEW base, NEW bits
    PROVE  InBlock(o, base, bits, 8) <=>
              /\ Agree(o[1], base[1], bits - 8 * (1 - 1), 8)
              /\ Agree(o[2], base[2], bits - 8 * (2 - 1), 8)
              /\ Agree(o[3], base[3], bits - 8 * (3 - 1), 8)
              /\ Agree(o[4], base[4], bits - 8 * (4 - 1), 8)
<1> DEFINE ok(i) == Agree(o[i], base[i], bits - 8 * (i - 1), 8)
<1>1. InBlock(o, base, bits, 8) <=> \A i \in DOMAIN o : ok(i)
  BY Zenon DEF InBlock, Agree
<1>2. DOMAIN o = 1..4
  BY Zenon
<1>3. InBlock(o, base, bits, 8) <=> \A i \in 1..4 : ok(i)
  BY <1>1, <1>2, Zenon
<1> HIDE DEF ok
<1>4. (\A i \in 1..4 : ok(i)) <=> ok(1) /\ ok(2) /\ ok(3) /\ ok(4)
  OBVIOUS
<1> QED  BY <1>3, <1>4, Zenon DEF ok

\* Membership of an IPv6 block, segment by segment.
LEMMA InBlock6 ==
    ASSUME NEW s \in [1..8 -> Nat], NEW base, NEW bits
    PROVE  InBlock(s, base, bits, 16) <=>
              /\ Agree(s[1], base[1], bits - 16 * (1 - 1), 16)
              /\ Agree(s[2], base[2], bits - 16 * (2 - 1), 16)
              /\ Agree(s[3], base[3], bits - 16 * (3 - 1), 16)
              /\ Agree(s[4], base[4], bits - 16 * (4 - 1), 16)
              /\ Agree(s[5], base[5], bits - 16 * (5 - 1), 16)
              /\ Agree(s[6], base[6], bits - 16 * (6 - 1), 16)
              /\ Agree(s[7], base[7], bits - 16 * (7 - 1), 16)
              /\ Agree(s[8], base[8], bits - 16 * (8 - 1), 16)
<1> DEFINE ok(i) == Agree(s[i], base[i], bits - 16 * (i - 1), 16)
<1>1. InBlock(s, base, bits, 16) <=> \A i \in DOMAIN s : ok(i)
  BY Zenon DEF InBlock, Agree
<1>2. DOMAIN s = 1..8
  BY Zenon
<1>3. InBlock(s, base, bits, 16) <=> \A i \in 1..8 : ok(i)
  BY <1>1, <1>2, Zenon
<1> HIDE DEF ok
<1>4. (\A i \in 1..8 : ok(i)) <=>
         ok(1) /\ ok(2) /\ ok(3) /\ ok(4) /\ ok(5) /\ ok(6) /\ ok(7) /\ ok(8)
  OBVIOUS
<1> QED  BY <1>3, <1>4, Zenon DEF ok

\* An element all of whose bits are kept must be equal.
LEMMA AgreeAll ==
    ASSUME NEW x \in Int, NEW y \in Int, NEW kept \in Int, NEW width \in Nat, kept >= width
                  PROVE Agree(x, y, kept, width) <=> kept <= 0 \/ x = y
BY DEF Agree

\* An element past the block's prefix does not matter.
LEMMA AgreeNone == ASSUME NEW x, NEW y, NEW kept \in Int, NEW width \in Nat, kept <= 0
                  PROVE Agree(x, y, kept, width)
BY Zenon DEF Agree

\* The elements of which some bits are kept, for the prefix lengths that occur.
LEMMA AgreePart ==
    ASSUME NEW x \in Nat, NEW y \in Nat
    PROVE  /\ Agree(x, y, 4, 8) <=> x \div 16 = y \div 16
           /\ Agree(x, y, 2, 8) <=> x \div 64 = y \div 64
           /\ Agree(x, y, 10, 16) <=> x \div 64 = y \div 64
           /\ Agree(x, y, 7, 16) <=> x \div 512 = y \div 512
           /\ Agree(x, y, 8, 16) <=> x \div 256 = y \div 256
           /\ Agree(x, y, 15, 16) <=> x \div 2 = y \div 2
<1>1. 2 ^ 4 = 16 /\ 2 ^ 6 = 64 /\ 2 ^ 9 = 512 /\ 2 ^ 8 = 256 /\ 2 ^ 1 = 2
  OBVIOUS
<1>2. 8 - 4 = 4 /\ 8 - 2 = 6 /\ 16 - 10 = 6 /\ 16 - 7 = 9 /\ 16-8 = 8 /\ 16-15 = 1
  OBVIOUS
<1> QED  BY <1>1, <1>2 DEF Agree

\* The IPv4 blocks that check_v4 names, one by one.
LEMMA Blocks4Listed ==
    ASSUME NEW o
    PROVE  Blocked4(o) <=>
              \/ InBlock(o, <<127, 0, 0, 0>>, 8, 8)
              \/ InBlock(o, <<0, 0, 0, 0>>, 32, 8)
              \/ InBlock(o, <<255, 255, 255, 255>>, 32, 8)
              \/ InBlock(o, <<10, 0, 0, 0>>, 8, 8)
              \/ InBlock(o, <<172, 16, 0, 0>>, 12, 8)
              \/ InBlock(o, <<192, 168, 0, 0>>, 16, 8)
              \/ InBlock(o, <<169, 254, 0, 0>>, 16, 8)
              \/ InBlock(o, <<100, 64, 0, 0>>, 10, 8)
              \/ InBlock(o, <<224, 0, 0, 0>>, 4, 8)
BY DEF Blocked4, Blocks4

\* The IPv6 blocks that check_v6 names, one by one.
LEMMA Blocks6Listed ==
    ASSUME NEW s
    PROVE  (\E b \in Blocks6 : InBlock(s, b[1], b[2], 16)) <=>
              \/ InBlock(s, <<65152, 0, 0, 0, 0, 0, 0, 0>>, 10, 16)
              \/ InBlock(s, <<64512, 0, 0, 0, 0, 0, 0, 0>>, 7, 16)
              \/ InBlock(s, <<65280, 0, 0, 0, 0, 0, 0, 0>>, 8, 16)
              \/ InBlock(s, <<0, 0, 0, 0, 0, 0, 0, 0>>, 127, 16)
BY DEF Blocks6

\* The octets of an IPv4 address.
LEMMA Octets4 ==
    ASSUME NEW o \in [1..4 -> Nat]
    PROVE  o[1] \in Nat /\ o[2] \in Nat /\ o[3] \in Nat /\ o[4] \in Nat
OBVIOUS

\* Membership of an IPv4 block given by its four octets.
LEMMA InBlock4At ==
    ASSUME NEW o \in [1..4 -> Nat], NEW a, NEW b, NEW c, NEW d, NEW bits \in Nat
    PROVE  InBlock(o, <<a, b, c, d>>, bits, 8) <=>
              /\ Agree(o[1], a, bits, 8)
              /\ Agree(o[2], b, bits - 8, 8)
              /\ Agree(o[3], c, bits - 16, 8)
              /\ Agree(o[4], d, bits - 24, 8)
<1> DEFINE base == <<a, b, c, d>>
<1>1. base[1] = a /\ base[2] = b /\ base[3] = c /\ base[4] = d
  BY Zenon
<1>2. /\ bits - 8 * (1 - 1) = bits /\ bits - 8 * (2 - 1) = bits - 8
      /\ bits - 8 * (3 - 1) = bits - 16 /\ bits - 8 * (4 - 1) = bits - 24
  OBVIOUS
<1> HIDE DEF base
<1>3. InBlock(o, base, bits, 8) <=>
              /\ Agree(o[1], base[1], bits - 8 * (1 - 1), 8)
              /\ Agree(o[2], base[2], bits - 8 * (2 - 1), 8)
              /\ Agree(o[3], base[3], bits - 8 * (3 - 1), 8)
              /\ Agree(o[4], base[4], bits - 8 * (4 - 1), 8)
  BY InBlock4, Zenon
<1>4. InBlock(o, base, bits, 8) <=>
              /\ Agree(o[1], a, bits, 8)
              /\ Agree(o[2], b, bits - 8, 8)
              /\ Agree(o[3], c, bits - 16, 8)
              /\ Agree(o[4], d, bits - 24, 8)
  BY <1>1, <1>2, <1>3, Zenon
<1> QED  BY <1>4, Zenon DEF base

\* The whole octets of the prefix lengths that occur.
LEMMA AgreeWhole ==
    ASSUME NEW x \in Nat, NEW y \in Nat
    PROVE  /\ Agree(x, y, 32, 8) <=> x = y
           /\ Agree(x, y, 24, 8) <=> x = y
           /\ Agree(x, y, 16, 8) <=> x = y
           /\ Agree(x, y, 12, 8) <=> x = y
           /\ Agree(x, y, 10, 8) <=> x = y
           /\ Agree(x, y, 8, 8) <=> x = y
BY AgreeAll

\* The octets beyond the prefix lengths that occur.
LEMMA AgreeBeyond ==
    ASSUME NEW x, NEW y
    PROVE  /\ Agree(x, y, 0, 8) /\ Agree(x, y, 0 - 8, 8) /\ Agree(x, y, 0 - 16, 8)
           /\ Agree(x, y, 0 - 4, 8) /\ Agree(x, y, 0 - 12, 8) /\ Agree(x, y, 0 - 6, 8)
           /\ Agree(x, y, 0 - 14, 8) /\ Agree(x, y, 0 - 20, 8)
BY AgreeNone

\* 127/8 and 10/8: check_v4 looks at the first octet.
LEMMA Block4Of8 ==
    ASSUME NEW o \in [1..4 -> Nat], NEW a \in Nat
    PROVE  InBlock(o, <<a, 0, 0, 0>>, 8, 8) <=> o[1] = a
<1>1. InBlock(o, <<a, 0, 0, 0>>, 8, 8) <=>
            /\ Agree(o[1], a, 8, 8) /\ Agree(o[2], 0, 8 - 8, 8)
            /\ Agree(o[3], 0, 8 - 16, 8) /\ Agree(o[4], 0, 8 - 24, 8)
  BY InBlock4At, Zenon
<1>2. 8 - 8 = 0 /\ 8 - 16 = 0 - 8 /\ 8 - 24 = 0 - 16
  OBVIOUS
<1> QED  BY <1>1, <1>2, Octets4, AgreeWhole, AgreeBeyond

\* 192.168/16 and 169.254/16: check_v4 looks at the first two octets.
LEMMA Block4Of16 ==
    ASSUME NEW o \in [1..4 -> Nat], NEW a \in Nat, NEW b \in Nat
    PROVE  InBlock(o, <<a, b, 0, 0>>, 16, 8) <=> (o[1] = a /\ o[2] = b)
<1>1. InBlock(o, <<a, b, 0, 0>>, 16, 8) <=>
            /\ Agree(o[1], a, 16, 8) /\ Agree(o[2], b, 16 - 8, 8)
            /\ Agree(o[3], 0, 16 - 16, 8) /\ Agree(o[4], 0, 16 - 24, 8)
  BY InBlock4At, Zenon
<1>2. 16 - 8 = 8 /\ 16 - 16 = 0 /\ 16 - 24 = 0 - 8
  OBVIOUS
<1> QED  BY <1>1, <1>2, Octets4, AgreeWhole, AgreeBeyond

\* The unspecified and the broadcast address: check_v4 compares all octets.
LEMMA Block4Of32 ==
    ASSUME NEW o \in [1..4 -> Nat], NEW a \in Nat
    PROVE  InBlock(o, <<a, a, a, a>>, 32, 8) <=> o = <<a, a, a, a>>
<1>1. InBlock(o, <<a, a, a, a>>, 32, 8) <=>
            /\ Agree(o[1], a, 32, 8) /\ Agree(o[2], a, 32 - 8, 8)
            /\ Agree(o[3], a, 32 - 16, 8) /\ Agree(o[4], a, 32 - 24, 8)
  BY InBlock4At, Zenon
<1>2. 32 - 8 = 24 /\ 32 - 16 = 16 /\ 32 - 24 = 8
  OBVIOUS
<1>3. InBlock(o, <<a, a, a, a>>, 32, 8) <=>
         (o[1] = a /\ o[2] = a /\ o[3] = a /\ o[4] = a)
  BY <1>1, <1>2, Octets4, AgreeWhole
<1>4. (o[1] = a /\ o[2] = a /\ o[3] = a /\ o[4] = a) <=> o = <<a, a, a, a>>
  OBVIOUS
<1> QED  BY <1>3, <1>4, Zenon

\* 172.16/12: check_v4 bounds the second octet.
LEMMA Block4Of12 ==
    ASSUME NEW o \in [1..4 -> Nat], NEW a \in Nat, NEW b \in Nat
    PROVE  InBlock(o, <<a, b, 0, 0>>, 12, 8) <=> (o[1] = a /\ o[2] \div 16 = b \div 16)
<1>1. InBlock(o, <<a, b, 0, 0>>, 12, 8) <=>
            /\ Agree(o[1], a, 12, 8) /\ Agree(o[2], b, 12 - 8, 8)
            /\ Agree(o[3], 0, 12 - 16, 8) /\ Agree(o[4], 0, 12 - 24, 8)
  BY InBlock4At, Zenon
<1>2. 12 - 8 = 4 /\ 12 - 16 = 0 - 4 /\ 12 - 24 = 0 - 12
  OBVIOUS
<1>3. Agree(o[2], b, 4, 8) <=> o[2] \div 16 = b \div 16
  BY Octets4, AgreePart
<1> QED  BY <1>1, <1>2, <1>3, Octets4, AgreeWhole, AgreeBeyond, Zenon

\* 100.64/10: check_v4 bounds the second octet.
LEMMA Block4Of10 ==
    ASSUME NEW o \in [1..4 -> Nat], NEW a \in Nat, NEW b \in Nat
    PROVE  InBlock(o, <<a, b, 0, 0>>, 10, 8) <=> (o[1] = a /\ o[2] \div 64 = b \div 64)
<1>1. InBlock(o, <<a, b, 0, 0>>, 10, 8) <=>
            /\ Agree(o[1], a, 10, 8) /\ Agree(o[2], b, 10 - 8, 8)
            /\ Agree(o[3], 0, 10 - 16, 8) /\ Agree(o[4], 0, 10 - 24, 8)
  BY InBlock4At, Zenon
<1>2. 10 - 8 = 2 /\ 10 - 16 = 0 - 6 /\ 10 - 24 = 0 - 14
  OBVIOUS
<1>3. Agree(o[2], b, 2, 8) <=> o[2] \div 64 = b \div 64
  BY Octets4, AgreePart
<1> QED  BY <1>1, <1>2, <1>3, Octets4, AgreeWhole, AgreeBeyond, Zenon

\* 224/4: check_v4 bounds the first octet.
LEMMA Block4Of4 ==
    ASSUME NEW o \in [1..4 -> Nat], NEW a \in Nat
    PROVE  InBlock(o, <<a, 0, 0, 0>>, 4, 8) <=> o[1] \div 16 = a \div 16
<1>1. InBlock(o, <<a, 0, 0, 0>>, 4, 8) <=>
            /\ Agree(o[1], a, 4, 8) /\ Agree(o[2], 0, 4 - 8, 8)
            /\ Agree(o[3], 0, 4 - 16, 8) /\ Agree(o[4], 0, 4 - 24, 8)
  BY InBlock4At, Zenon
<1>2. 4 - 8 = 0 - 4 /\ 4 - 16 = 0 - 12 /\ 4 - 24 = 0 - 20
  OBVIOUS
<1>3. Agree(o[1], a, 4, 8) <=> o[1] \div 16 = a \div 16
  BY Octets4, AgreePart
<1> QED  BY <1>1, <1>2, <1>3, AgreeBeyond, Zenon

\* The guard for every IPv4 address: check_v4 gives a reason exactly for the
\* addresses of the blocks.
LEMMA GuardedV4 ==
    ASSUME NEW o \in [1..4 -> Nat]
    PROVE  CheckV4(o) # NoReason <=> Blocked4(o)
<1>0. o[1] \in Nat /\ o[2] \in Nat
  BY Octets4, Zenon
<1>1. /\ InBlock(o, <<127, 0, 0, 0>>, 8, 8) <=> o[1] = 127
      /\ InBlock(o, <<10, 0, 0, 0>>, 8, 8) <=> o[1] = 10
  <2>1. InBlock(o, <<127, 0, 0, 0>>, 8, 8) <=> o[1] = 127
    BY Block4Of8
  <2>2. InBlock(o, <<10, 0, 0, 0>>, 8, 8) <=> o[1] = 10
    BY Block4Of8, Zenon
  <2> QED  BY <2>1, <2>2, Zenon
<1>2. /\ InBlock(o, <<0, 0, 0, 0>>, 32, 8) <=> o = <<0, 0, 0, 0>>
      /\ InBlock(o, <<255, 255, 255, 255>>, 32, 8) <=> o = <<255, 255, 255, 255>>
  <2>1. InBlock(o, <<0, 0, 0, 0>>, 32, 8) <=> o = <<0, 0, 0, 0>>
    BY Block4Of32, Zenon
  <2>2. InBlock(o, <<255, 255, 255, 255>>, 32, 8) <=> o = <<255, 255, 255, 255>>
    BY Block4Of32
  <2> QED  BY <2>1, <2>2, Zenon
<1>3. /\ InBlock(o, <<192, 168, 0, 0>>, 16, 8) <=> (o[1] = 192 /\ o[2] = 168)
      /\ InBlock(o, <<169, 254, 0, 0>>, 16, 8) <=> (o[1] = 169 /\ o[2] = 254)
  <2>1. InBlock(o, <<192, 168, 0, 0>>, 16, 8) <=> (o[1] = 192 /\ o[2] = 168)
    BY Block4Of16
  <2>2. InBlock(o, <<169, 254, 0, 0>>, 16, 8) <=> (o[1] = 169 /\ o[2] = 254)
    BY Block4Of16
  <2> QED  BY <2>1, <2>2, Zenon
<1>4. InBlock(o, <<172, 16, 0, 0>>, 12, 8) <=> (o[1] = 172 /\ o[2] \in 16..31)
  <2>1. InBlock(o, <<172, 16, 0, 0>>, 12, 8) <=> (o[1] = 172 /\ o[2] \div 16 = 16 \div 16)
    BY Block4Of12
  <2>2. (o[2] \div 16 = 16 \div 16) <=> o[2] \in 16..31
    BY <1>0
  <2> QED  BY <2>1, <2>2, Zenon
<1>5. InBlock(o, <<100, 64, 0, 0>>, 10, 8) <=> (o[1] = 100 /\ o[2] \in 64..127)
  <2>1. InBlock(o, <<100, 64, 0, 0>>, 10, 8) <=> (o[1] = 100 /\ o[2] \div 64 = 64 \div 64)
    BY Block4Of10
  <2>2. (o[2] \div 64 = 64 \div 64) <=> o[2] \in 64..127
    BY <1>0
  <2> QED  BY <2>1, <2>2, Zenon
<1>6. InBlock(o, <<224, 0, 0, 0>>, 4, 8) <=> o[1] \in 224..239
  <2>1. InBlock(o, <<224, 0, 0, 0>>, 4, 8) <=> o[1] \div 16 = 224 \div 16
    BY Block4Of4
  <2>2. (o[1] \div 16 = 224 \div 16) <=> o[1] \in 224..239
    BY <1>0
  <2> QED  BY <2>1, <2>2, Zenon
<1>7. Blocked4(o) <=>
         \/ o[1] = 127 \/ o = <<0, 0, 0, 0>> \/ o = <<255, 255, 255, 255>>
         \/ o[1] = 10
         \/ o[1] = 172 /\ o[2] \in 16..31
         \/ o[1] = 192 /\ o[2] = 168
         \/ o[1] = 169 /\ o[2] = 254
         \/ o[1] = 100 /\ o[2] \in 64..127
         \/ o[1] \in 224..239
  BY Blocks4Listed, <1>1, <1>2, <1>3, <1>4, <1>5, <1>6, SMTT(30)
<1>8. CheckV4(o) # NoReason <=>
         \/ o[1] = 127 \/ o = <<0, 0, 0, 0>> \/ o = <<255, 255, 255, 255>>
         \/ o[1] = 10
         \/ o[1] = 172 /\ o[2] \in 16..31
         \/ o[1] = 192 /\ o[2] = 168
         \/ o[1] = 169 /\ o[2] = 254
         \/ o[1] = 100 /\ o[2] \in 64..127
         \/ o[1] \in 224..239
  BY DEF CheckV4, NoReason
<1> QED  BY <1>7, <1>8, Zenon

\* The segments of an IPv6 address.
LEMMA Segments6 ==
    ASSUME NEW s \in [1..8 -> Nat]
    PROVE  /\ s[1] \in Nat /\ s[2] \in Nat /\ s[3] \in Nat /\ s[4] \in Nat
           /\ s[5] \in Nat /\ s[6] \in Nat /\ s[7] \in Nat /\ s[8] \in Nat
OBVIOUS

\* Membership of an IPv6 block whose base has one segment that is not zero.
LEMMA InBlock6At ==
    ASSUME NEW s \in [1..8 -> Nat], NEW a, NEW bits \in Nat
    PROVE  InBlock(s, <<a, 0, 0, 0, 0, 0, 0, 0>>, bits, 16) <=>
              /\ Agree(s[1], a, bits, 16) /\ Agree(s[2], 0, bits - 16, 16)
              /\ Agree(s[3], 0, bits - 32, 16) /\ Agree(s[4], 0, bits - 48, 16)
              /\ Agree(s[5], 0, bits - 64, 16) /\ Agree(s[6], 0, bits - 80, 16)
              /\ Agree(s[7], 0, bits - 96, 16) /\ Agree(s[8], 0, bits - 112, 16)
<1> DEFINE base == <<a, 0, 0, 0, 0, 0, 0, 0>>
<1>1. /\ base[1] = a /\ base[2] = 0 /\ base[3] = 0 /\ base[4] = 0
      /\ base[5] = 0 /\ base[6] = 0 /\ base[7] = 0 /\ base[8] = 0
  BY Zenon
<1>2. /\ bits - 16 * (1 - 1) = bits /\ bits - 16 * (2 - 1) = bits - 16
      /\ bits - 16 * (3 - 1) = bits - 32 /\ bits - 16 * (4 - 1) = bits - 48
      /\ bits - 16 * (5 - 1) = bits - 64 /\ bits - 16 * (6 - 1) = bits - 80
      /\ bits - 16 * (7 - 1) = bits - 96 /\ bits - 16 * (8 - 1) = bits - 112
  OBVIOUS
<1> HIDE DEF base
<1>3. InBlock(s, base, bits, 16) <=>
              /\ Agree(s[1], base[1], bits - 16 * (1 - 1), 16)
              /\ Agree(s[2], base[2], bits - 16 * (2 - 1), 16)
              /\ Agree(s[3], base[3], bits - 16 * (3 - 1), 16)
              /\ Agree(s[4], base[4], bits - 16 * (4 - 1), 16)
              /\ Agree(s[5], base[5], bits - 16 * (5 - 1), 16)
              /\ Agree(s[6], base[6], bits - 16 * (6 - 1), 16)
              /\ Agree(s[7], base[7], bits - 16 * (7 - 1), 16)
              /\ Agree(s[8], base[8], bits - 16 * (8 - 1), 16)
  BY InBlock6, Zenon
<1>4. InBlock(s, base, bits, 16) <=>
              /\ Agree(s[1], a, bits, 16) /\ Agree(s[2], 0, bits - 16, 16)
              /\ Agree(s[3], 0, bits - 32, 16) /\ Agree(s[4], 0, bits - 48, 16)
              /\ Agree(s[5], 0, bits - 64, 16) /\ Agree(s[6], 0, bits - 80, 16)
              /\ Agree(s[7], 0, bits - 96, 16) /\ Agree(s[8], 0, bits - 112, 16)
  BY <1>1, <1>2, <1>3, Zenon
<1> QED  BY <1>4, Zenon DEF base

\* A block of at most sixteen bits is told by the first segment.
LEMMA ShortBlock6 ==
    ASSUME NEW s \in [1..8 -> Nat], NEW a, NEW bits \in 0..16
    PROVE  InBlock(s, <<a, 0, 0, 0, 0, 0, 0, 0>>, bits, 16) <=> Agree(s[1], a, bits, 16)
<1>1. /\ bits - 16 \in Int /\ bits - 16 <= 0 /\ bits - 32 \in Int /\ bits - 32 <= 0
      /\ bits - 48 \in Int /\ bits - 48 <= 0 /\ bits - 64 \in Int /\ bits - 64 <= 0
      /\ bits - 80 \in Int /\ bits - 80 <= 0 /\ bits - 96 \in Int /\ bits - 96 <= 0
      /\ bits - 112 \in Int /\ bits - 112 <= 0
  OBVIOUS
<1>2. ASSUME NEW x, NEW kept \in Int, kept <= 0
      PROVE  Agree(x, 0, kept, 16)
  BY <1>2, AgreeNone, Zenon
<1>3. /\ Agree(s[2], 0, bits - 16, 16) /\ Agree(s[3], 0, bits - 32, 16)
      /\ Agree(s[4], 0, bits - 48, 16) /\ Agree(s[5], 0, bits - 64, 16)
      /\ Agree(s[6], 0, bits - 80, 16) /\ Agree(s[7], 0, bits - 96, 16)
      /\ Agree(s[8], 0, bits - 112, 16)
  BY <1>1, <1>2, Zenon
<1> QED  BY <1>3, InBlock6At

\* fe80::/10: check_v6 masks the first segment with 0xffc0.
LEMMA Block6Of10 ==
    ASSUME NEW s \in [1..8 -> Nat], NEW a \in Nat
    PROVE  InBlock(s, <<a, 0, 0, 0, 0, 0, 0, 0>>, 10, 16) <=> s[1] \div 64 = a \div 64
<1>1. Agree(s[1], a, 10, 16) <=> s[1] \div 64 = a \div 64
  BY Segments6, AgreePart
<1>2. InBlock(s, <<a, 0, 0, 0, 0, 0, 0, 0>>, 10, 16) <=> Agree(s[1], a, 10, 16)
  BY ShortBlock6
<1> QED  BY <1>1, <1>2, Zenon

\* fc00::/7: check_v6 masks the first segment with 0xfe00.
LEMMA Block6Of7 ==
    ASSUME NEW s \in [1..8 -> Nat], NEW a \in Nat
    PROVE  InBlock(s, <<a, 0, 0, 0, 0, 0, 0, 0>>, 7, 16) <=> s[1] \div 512 = a \div 512
<1>1. Agree(s[1], a, 7, 16) <=> s[1] \div 512 = a \div 512
  BY Segments6, AgreePart
<1>2. InBlock(s, <<a, 0, 0, 0, 0, 0, 0, 0>>, 7, 16) <=> Agree(s[1], a, 7, 16)
  BY ShortBlock6
<1> QED  BY <1>1, <1>2, Zenon

\* ff00::/8: check_v6 masks the first segment with 0xff00.
LEMMA Block6Of8 ==
    ASSUME NEW s \in [1..8 -> Nat], NEW a \in Nat
    PROVE  InBlock(s, <<a, 0, 0, 0, 0, 0, 0, 0>>, 8, 16) <=> s[1] \div 256 = a \div 256
<1>1. Agree(s[1], a, 8, 16) <=> s[1] \div 256 = a \div 256
  BY Segments6, AgreePart
<1>2. InBlock(s, <<a, 0, 0, 0, 0, 0, 0, 0>>, 8, 16) <=> Agree(s[1], a, 8, 16)
  BY ShortBlock6
<1> QED  BY <1>1, <1>2, Zenon

\* The unspecified and the loopback address.
LEMMA Block6Of127 ==
    ASSUME NEW s \in [1..8 -> Nat]
    PROVE  InBlock(s, <<0, 0, 0, 0, 0, 0, 0, 0>>, 127, 16) <=>
              /\ s[1] = 0 /\ s[2] = 0 /\ s[3] = 0 /\ s[4] = 0 /\ s[5] = 0 /\ s[6] = 0
              /\ s[7] = 0 /\ s[8] <= 1
<1>0. /\ s[1] \in Nat /\ s[2] \in Nat /\ s[3] \in Nat /\ s[4] \in Nat
      /\ s[5] \in Nat /\ s[6] \in Nat /\ s[7] \in Nat /\ s[8] \in Nat
  BY Segments6, Zenon
<1>1. InBlock(s, <<0, 0, 0, 0, 0, 0, 0, 0>>, 127, 16) <=>
            /\ Agree(s[1], 0, 127, 16) /\ Agree(s[2], 0, 127 - 16, 16)
            /\ Agree(s[3], 0, 127 - 32, 16) /\ Agree(s[4], 0, 127 - 48, 16)
            /\ Agree(s[5], 0, 127 - 64, 16) /\ Agree(s[6], 0, 127 - 80, 16)
            /\ Agree(s[7], 0, 127 - 96, 16) /\ Agree(s[8], 0, 127 - 112, 16)
  BY InBlock6At, Zenon
<1>2. ASSUME NEW x \in Nat, NEW kept \in Nat, kept >= 16
      PROVE  Agree(x, 0, kept, 16) <=> x = 0
  BY <1>2, AgreeAll, SMTT(30)
<1>3. 127 - 112 = 15
  OBVIOUS
<1>4. Agree(s[8], 0, 127 - 112, 16) <=> s[8] \div 2 = 0 \div 2
  BY <1>0, <1>3, AgreePart
<1>5. (s[8] \div 2 = 0 \div 2) <=> s[8] <= 1
  BY <1>0
<1>6. /\ Agree(s[1], 0, 127, 16) <=> s[1] = 0
      /\ Agree(s[2], 0, 127 - 16, 16) <=> s[2] = 0
      /\ Agree(s[3], 0, 127 - 32, 16) <=> s[3] = 0
      /\ Agree(s[4], 0, 127 - 48, 16) <=> s[4] = 0
      /\ Agree(s[5], 0, 127 - 64, 16) <=> s[5] = 0
      /\ Agree(s[6], 0, 127 - 80, 16) <=> s[6] = 0
      /\ Agree(s[7], 0, 127 - 96, 16) <=> s[7] = 0
  BY <1>2, <1>0
<1> QED  BY <1>1, <1>4, <1>5, <1>6, Zenon

\* The guard for every IPv6 address: check_v6, which looks through mapped, NAT64
\* and compatible addresses first, gives a reason exactly for the addresses of the
\* blocks and those that carry an IPv4 address of a block.
LEMMA GuardedV6 ==
    ASSUME NEW s \in [1..8 -> Nat]
    PROVE  CheckV6(s) # NoReason <=> Blocked6(s)
<1>0. /\ s[1] \in Nat /\ s[2] \in Nat /\ s[3] \in Nat /\ s[4] \in Nat
      /\ s[5] \in Nat /\ s[6] \in Nat /\ s[7] \in Nat /\ s[8] \in Nat
  BY Segments6, Zenon
<1>1. LastV4(s) \in [1..4 -> Nat]
  <2>1. s[7] \div 256 \in Nat /\ s[7] % 256 \in Nat /\ s[8] \div 256 \in Nat /\ s[8] % 256 \in Nat
    BY <1>0
  <2> QED  BY <2>1 DEF LastV4
<1>2. CheckV4(LastV4(s)) # NoReason <=> Blocked4(LastV4(s))
  BY <1>1, GuardedV4, Zenon
<1> DEFINE mapped == s[1] = 0 /\ s[2] = 0 /\ s[3] = 0 /\ s[4] = 0 /\ s[5] = 0 /\ s[6] = 65535
           nat64 == s[1] = 100 /\ s[2] = 65435 /\ s[3] = 0 /\ s[4] = 0 /\ s[5] = 0 /\ s[6] = 0
           zeroes == s[1] = 0 /\ s[2] = 0 /\ s[3] = 0 /\ s[4] = 0 /\ s[5] = 0 /\ s[6] = 0
           low == s[7] = 0 /\ s[8] <= 1
<1>3. SubSeq(s, 1, 6) \in Carriers <=> mapped \/ nat64 \/ zeroes
  <2>1. s \in Seq(Nat)
    BY SeqDef, Zenon
  <2>2. Len(s) = 8
    <3>1. Len(s) \in Nat /\ 1..Len(s) = 1..8
      BY <2>1, LenProperties, Zenon
    <3> QED  BY <3>1
  <2>3. Len(SubSeq(s, 1, 6)) = 6 /\ \A i \in 1..6 : SubSeq(s, 1, 6)[i] = s[i]
    BY <2>1, <2>2
  <2>4. SubSeq(s, 1, 6) \in Seq(Nat)
    BY <2>1, <2>2
  <2> DEFINE pre == SubSeq(s, 1, 6)
  <2> HIDE DEF pre
  <2>5. ASSUME NEW a, NEW b, NEW c, NEW d, NEW e, NEW f
        PROVE  pre = <<a, b, c, d, e, f>> <=>
                  s[1] = a /\ s[2] = b /\ s[3] = c /\ s[4] = d /\ s[5] = e /\ s[6] = f
    <3>1. pre \in Seq(Nat) /\ Len(pre) = 6 /\ \A i \in 1..6 : pre[i] = s[i]
      BY <2>3, <2>4, Zenon DEF pre
    <3>2. DOMAIN pre = 1..6
      BY <3>1, LenProperties, Zenon
    <3>3. pre = <<pre[1], pre[2], pre[3], pre[4], pre[5], pre[6]>>
      BY <3>1, <3>2
    <3>4. pre = <<s[1], s[2], s[3], s[4], s[5], s[6]>>
      BY <3>1, <3>3
    <3> QED  BY <3>4, Zenon
  <2> QED  BY <2>5 DEF Carriers, pre
<1>4. HasEmbedded(s) <=> mapped \/ nat64 \/ (zeroes /\ ~low)
  <2>1. (\A i \in 1..5 : s[i] = 0) <=> s[1] = 0 /\ s[2] = 0 /\ s[3] = 0 /\ s[4] = 0 /\ s[5] = 0
    OBVIOUS
  <2>2. (\A i \in 3..6 : s[i] = 0) <=> s[3] = 0 /\ s[4] = 0 /\ s[5] = 0 /\ s[6] = 0
    OBVIOUS
  <2>3. (\A i \in 1..6 : s[i] = 0) <=> zeroes
    OBVIOUS
  <2> QED  BY <2>1, <2>2, <2>3 DEF HasEmbedded
<1>5. /\ s = <<0, 0, 0, 0, 0, 0, 0, 1>> <=> zeroes /\ s[7] = 0 /\ s[8] = 1
      /\ s = <<0, 0, 0, 0, 0, 0, 0, 0>> <=> zeroes /\ s[7] = 0 /\ s[8] = 0
  OBVIOUS
<1>6. low <=> s[7] = 0 /\ (s[8] = 0 \/ s[8] = 1)
  BY <1>0
<1>7. (\E b \in Blocks6 : InBlock(s, b[1], b[2], 16)) <=>
         \/ s[1] \div 64 = 1018 \/ s[1] \div 512 = 126 \/ s[1] \div 256 = 255
         \/ zeroes /\ low
  <2>1. InBlock(s, <<65152, 0, 0, 0, 0, 0, 0, 0>>, 10, 16) <=> s[1] \div 64 = 1018
    <3>1. 65152 \div 64 = 1018
      OBVIOUS
    <3> QED  BY <3>1, Block6Of10
  <2>2. InBlock(s, <<64512, 0, 0, 0, 0, 0, 0, 0>>, 7, 16) <=> s[1] \div 512 = 126
    <3>1. 64512 \div 512 = 126
      OBVIOUS
    <3> QED  BY <3>1, Block6Of7
  <2>3. InBlock(s, <<65280, 0, 0, 0, 0, 0, 0, 0>>, 8, 16) <=> s[1] \div 256 = 255
    <3>1. 65280 \div 256 = 255
      OBVIOUS
    <3> QED  BY <3>1, Block6Of8
  <2>4. InBlock(s, <<0, 0, 0, 0, 0, 0, 0, 0>>, 127, 16) <=> zeroes /\ low
    BY Block6Of127, Zenon
  <2> QED  BY <2>1, <2>2, <2>3, <2>4, Blocks6Listed, SMTT(30)
<1> HIDE DEF mapped, nat64, zeroes, low
<1> DEFINE ranges == s[1] \div 64 = 1018 \/ s[1] \div 512 = 126 \/ s[1] \div 256 = 255
           inner == Blocked4(LastV4(s))
<1>8. Blocked6(s) <=> ranges \/ (zeroes /\ low) \/ ((mapped \/ nat64 \/ zeroes) /\ inner)
  <2> DEFINE listed == \E b \in Blocks6 : InBlock(s, b[1], b[2], 16)
             carrier == mapped \/ nat64 \/ zeroes
  <2>1. Blocked6(s) <=> listed \/ (SubSeq(s, 1, 6) \in Carriers /\ inner)
    BY Zenon DEF Blocked6
  <2>2. listed <=> ranges \/ (zeroes /\ low)
    <3>1. listed <=> \/ s[1] \div 64 = 1018 \/ s[1] \div 512 = 126 \/ s[1] \div 256 = 255
                     \/ zeroes /\ low
      BY <1>7, Zenon
    <3> HIDE DEF listed
    <3> QED  BY <3>1
  <2>3. SubSeq(s, 1, 6) \in Carriers <=> carrier
    BY <1>3, Zenon
  <2> HIDE DEF listed, ranges, inner, carrier
  <2>4. Blocked6(s) <=> (ranges \/ (zeroes /\ low)) \/ (carrier /\ inner)
    BY <2>1, <2>2, <2>3, Zenon
  <2> QED  BY <2>4, Zenon DEF carrier
<1> HIDE DEF ranges, inner
<1>9. mapped \/ nat64 \/ zeroes => s[1] = 0 \/ s[1] = 100
  BY DEF mapped, nat64, zeroes
<1>10. s[1] = 0 \/ s[1] = 100 =>
          s[1] \div 64 # 1018 /\ s[1] \div 512 # 126 /\ s[1] \div 256 # 255
  OBVIOUS
<1>11. CASE HasEmbedded(s)
  <2>1. s # <<0, 0, 0, 0, 0, 0, 0, 1>> /\ s # <<0, 0, 0, 0, 0, 0, 0, 0>>
    BY <1>4, <1>5, <1>6, <1>11 DEF mapped, nat64, zeroes
  <2>2. s[1] \div 64 # 1018 /\ s[1] \div 512 # 126 /\ s[1] \div 256 # 255
    BY <1>4, <1>9, <1>10, <1>11, Zenon
  <2>3. CheckV6(s) = CheckV4(LastV4(s))
    BY <1>11, <2>1, <2>2, Zenon DEF CheckV6, UniqueLocal
  <2>4. ~(zeroes /\ low)
    BY <1>4, <1>11 DEF mapped, nat64, zeroes
  <2>5. ~ranges
    BY <2>2, Zenon DEF ranges
  <2>6. mapped \/ nat64 \/ zeroes
    BY <1>4, <1>11, Zenon
  <2>7. Blocked6(s) <=> inner
    BY <1>8, <2>4, <2>5, <2>6, Zenon
  <2> QED  BY <1>2, <2>3, <2>7, Zenon DEF inner
<1>12. CASE ~HasEmbedded(s)
  <2>1. CheckV6(s) # NoReason <=>
           \/ s = <<0, 0, 0, 0, 0, 0, 0, 1>> \/ s = <<0, 0, 0, 0, 0, 0, 0, 0>>
           \/ s[1] \div 64 = 1018 \/ UniqueLocal(s) \/ s[1] \div 256 = 255
    BY <1>12 DEF CheckV6, NoReason
  <2>2. CheckV6(s) # NoReason <=> ranges \/ (zeroes /\ low)
    <3>1. (s = <<0, 0, 0, 0, 0, 0, 0, 1>> \/ s = <<0, 0, 0, 0, 0, 0, 0, 0>>) <=> zeroes /\ low
      BY <1>5, <1>6, Zenon
    <3>2. UniqueLocal(s) <=> s[1] \div 512 = 126
      BY Zenon DEF UniqueLocal
    <3> QED  BY <2>1, <3>1, <3>2 DEF ranges
  <2>3. ~mapped /\ ~nat64 /\ (zeroes => low)
    BY <1>4, <1>12, Zenon
  <2>4. Blocked6(s) <=> ranges \/ (zeroes /\ low)
    BY <1>8, <2>3, Zenon
  <2> QED  BY <2>2, <2>4, Zenon
<1> QED  BY <1>11, <1>12, Zenon

-----------------------------------------------------------------------------
(* Both decisions.                                                         *)

\* The inputs of the two decisions, of any length and any value.
NetPolicySpec == NetPolicyInit /\ [][NetPolicyNext]_netPolicyVars

\* What the inputs range over.
PolicyInputs ==
    /\ entry \in Seq(Chars) /\ name \in Seq(Chars)
    /\ v4 \in [1..4 -> Nat] /\ v6 \in [1..8 -> Nat]

\* The first inputs.
LEMMA PolicyInputsInit == NetPolicyInit => PolicyInputs
<1> SUFFICES ASSUME NetPolicyInit PROVE PolicyInputs
  BY Zenon
<1>1. entry \in Seq(Chars) /\ name \in Seq(Chars)
  BY DEF NetPolicyInit
<1>2. v4 \in [1..4 -> Nat] /\ v6 \in [1..8 -> Nat]
  BY DEF NetPolicyInit
<1> QED  BY <1>1, <1>2, Zenon DEF PolicyInputs

\* The values that addresses are built from.
LEMMA PartsNat == Octets \subseteq Nat /\ Segments \subseteq Nat
<1>1. \A o \in Octets : o \in Nat
  BY NetPolicyAssumption, SMT
<1>2. \A s \in Segments : s \in Nat
  BY NetPolicyAssumption, SMT
<1> QED  BY <1>1, <1>2, Zenon

\* Six segments and two more make an IPv6 address, as embedded_ipv4 reads it.
LEMMA SixThenTwo ==
    ASSUME NEW p \in Seq(Nat), Len(p) = 6, NEW u \in Nat, NEW w \in Nat
    PROVE  p \o <<u, w>> \in [1..8 -> Nat]
<1>1. <<u, w>> \in Seq(Nat) /\ Len(<<u, w>>) = 2
  OBVIOUS
<1>2. PICK y : y = <<u, w>>
  BY Zenon
<1>3. y \in Seq(Nat) /\ Len(y) = 2
  BY <1>1, <1>2, Zenon
<1>4. p \o y \in Seq(Nat)
  BY <1>3, ConcatProperties, Zenon
<1>5. Len(p \o y) = Len(p) + Len(y)
  BY <1>3, ConcatProperties, Zenon
<1>6. Len(p \o y) = 8
  BY <1>3, <1>5
<1>7. p \o y \in [1..8 -> Nat]
  BY <1>4, <1>6, LenProperties, Zenon
<1> QED  BY <1>2, <1>7, Zenon

\* Every choice of inputs keeps their ranges.
LEMMA PolicyInputsStep ==
    ASSUME PolicyInputs, [NetPolicyNext]_netPolicyVars
    PROVE  PolicyInputs'
<1>1. CASE GrowEntry
  <2>1. PICK ch \in Chars : entry' = Append(entry, ch)
    BY <1>1, Zenon DEF GrowEntry
  <2>2. entry' \in Seq(Chars)
    BY <2>1, AppendFacts, Zenon DEF PolicyInputs
  <2> QED  BY <1>1, <2>2, Zenon DEF PolicyInputs, GrowEntry
<1>2. CASE GrowName
  <2>1. PICK ch \in Chars : name' = Append(name, ch)
    BY <1>2, Zenon DEF GrowName
  <2>2. name' \in Seq(Chars)
    BY <2>1, AppendFacts, Zenon DEF PolicyInputs
  <2> QED  BY <1>2, <2>2, Zenon DEF PolicyInputs, GrowName
<1>3. CASE PickAddress
  <2>1. PICK a \in Octets, b \in Octets, d \in {0, 1, 255}, first \in Segments,
             prefix \in Carriers :
          /\ v4' = <<a, b, d, d>>
          /\ v6' \in {prefix \o <<256 * a + b, 256 * d + d>>,
                      <<first, b, 0, 0, 0, 0, 256 * a + b, d>>}
    BY <1>3, Zenon DEF PickAddress
  <2>2. a \in Nat /\ b \in Nat /\ d \in Nat /\ first \in Nat
    <3>1. a \in Nat /\ b \in Nat
      BY PartsNat, Zenon
    <3>2. first \in Nat
      BY PartsNat, Zenon
    <3>3. d \in Nat
      BY SMT
    <3> QED  BY <3>1, <3>2, <3>3, Zenon
  <2>3. PICK u \in Nat : u = 256 * a + b
    BY <2>2
  <2>4. PICK w \in Nat : w = 256 * d + d
    BY <2>2
  <2>5. v4' \in [1..4 -> Nat]
    BY <2>1, <2>2
  <2>6. <<first, b, 0, 0, 0, 0, u, d>> \in [1..8 -> Nat]
    BY <2>2
  <2> DEFINE carried == prefix \o <<u, w>>
  <2>7. carried \in [1..8 -> Nat]
    <3>1. CASE prefix = <<0, 0, 0, 0, 0, 65535>>
      <4>1. prefix \in Seq(Nat) /\ Len(prefix) = 6
        BY <3>1, SMTT(30)
      <4> QED  BY <4>1, SixThenTwo, Zenon
    <3>2. CASE prefix = <<100, 65435, 0, 0, 0, 0>>
      <4>1. prefix \in Seq(Nat) /\ Len(prefix) = 6
        BY <3>2, SMTT(30)
      <4> QED  BY <4>1, SixThenTwo, Zenon
    <3>3. CASE prefix = <<0, 0, 0, 0, 0, 0>>
      <4>1. prefix \in Seq(Nat) /\ Len(prefix) = 6
        BY <3>3, SMT
      <4> QED  BY <4>1, SixThenTwo, Zenon
    <3> QED  BY <3>1, <3>2, <3>3, SMTT(30) DEF Carriers
  <2>8. v6' \in [1..8 -> Nat]
    <3>1. v6' = prefix \o <<u, w>> \/ v6' = <<first, b, 0, 0, 0, 0, u, d>>
      BY <2>1, <2>3, <2>4, SMTT(30)
    <3>2. CASE v6' = carried
      <4> HIDE DEF carried
      <4> QED  BY <3>2, <2>7, SMT
    <3>3. CASE v6' = <<first, b, 0, 0, 0, 0, u, d>>
      <4> QED  BY <3>3, <2>6, SMT
    <3> QED  BY <3>1, <3>2, <3>3, SMT
  <2>9. entry' = entry /\ name' = name
    BY <1>3, Zenon DEF PickAddress
  <2> QED  BY <2>5, <2>8, <2>9, Zenon DEF PolicyInputs
<1>4. CASE UNCHANGED netPolicyVars
  BY <1>4, Zenon DEF PolicyInputs, netPolicyVars
<1> QED  BY <1>1, <1>2, <1>3, <1>4, Zenon DEF NetPolicyNext

\* The decisions on such inputs are those of the references.
LEMMA PolicyAgrees == PolicyInputs => PolicyByReference
<1> SUFFICES ASSUME PolicyInputs PROVE PolicyByReference
  BY Zenon
<1>1. AllowsByLabels
  BY AllowedByLabels, Zenon DEF PolicyInputs, AllowsByLabels
<1>2. GuardMatchesBlocks
  BY GuardedV4, GuardedV6, Zenon DEF PolicyInputs, GuardMatchesBlocks
<1> QED  BY <1>1, <1>2, Zenon DEF PolicyByReference

\* The allowlist decides by labels (DomainAllowlist::allows) and the guard by
\* blocks (IpGuard::check), for names of any length and every address.
THEOREM PolicyAsReference == NetPolicySpec => []PolicyByReference
<1>1. NetPolicyInit => PolicyInputs
  BY PolicyInputsInit, Zenon
<1>2. PolicyInputs /\ [NetPolicyNext]_netPolicyVars => PolicyInputs'
  BY PolicyInputsStep, Zenon
<1>3. PolicyInputs => PolicyByReference
  BY PolicyAgrees, Zenon
<1> QED  BY <1>1, <1>2, <1>3, PTL DEF NetPolicySpec

=============================================================================
