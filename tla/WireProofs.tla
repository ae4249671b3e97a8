----------------------------- MODULE WireProofs -----------------------------
(***************************************************************************)
(* The requests to the model in the wire format of each backend, for any   *)
(* conversation: every call stays answered.                                *)
(***************************************************************************)
EXTENDS Wire, WellFoundedInduction, SequenceTheorems, FiniteSetTheorems, TLAPS

-----------------------------------------------------------------------------
(* The requests on the wire.                                               *)

\* Induction over the naturals, as a statement about a set.
LEMMA CountingUp ==
    ASSUME NEW S, 0 \in S, \A n \in Nat : n \in S => n + 1 \in S
    PROVE  Nat \subseteq S
<1> DEFINE T == Nat \ S
           R == {p \in Nat \X Nat : p[1] < p[2]}
<1>1. IsWellFoundedOn(R, Nat)
  BY NatLessThanWellFounded, Zenon DEF OpToRel
<1>2. SUFFICES ASSUME T # {} PROVE FALSE
  BY Zenon
<1> HIDE DEF R
<1>3. PICK x \in T : \A y \in T : ~(<<y, x>> \in R)
  BY <1>1, <1>2, WFMin, T \subseteq Nat, Zenon
<1>4. x \in Nat /\ x \notin S /\ x # 0 /\ x - 1 \in Nat /\ (x - 1) + 1 = x
  BY <1>3
<1>5. x - 1 \in T
  BY <1>4, Zenon
<1>6. <<x - 1, x>> \in R
  BY <1>4 DEF R
<1> QED
  BY <1>3, <1>5, <1>6, Zenon

\* What holds of the empty sequence, and of one with an element more when it
\* holds of the one without, holds of every sequence.
LEMMA OneByOne ==
    ASSUME NEW C, NEW S, <<>> \in S,
           \A s \in Seq(C), c \in C : s \in S => Append(s, c) \in S
    PROVE  Seq(C) \subseteq S
<1> DEFINE T == {n \in Nat : \A s \in Seq(C) : Len(s) = n => s \in S}
<1>1. 0 \in T
  <2>1. \A s \in Seq(C) : Len(s) = 0 => s = <<>>
    BY EmptySeq, Zenon
  <2> QED  BY <2>1, Zenon
<1>2. ASSUME NEW n \in Nat, n \in T
      PROVE  n + 1 \in T
  <2>1. ASSUME NEW s \in Seq(C), Len(s) = n + 1
        PROVE  s \in S
    <3> DEFINE p == SubSeq(s, 1, n)
    <3>1. p \in Seq(C) /\ Len(p) = n /\ s[n + 1] \in C
      BY <2>1
    <3>2. s = Append(p, s[n + 1])
      BY <2>1
    <3> HIDE DEF p
    <3>3. p \in S
      BY <1>2, <3>1, Zenon
    <3>4. Append(p, s[n + 1]) \in S
      BY <3>1, <3>3, Zenon
    <3> QED  BY <3>2, <3>4, Zenon
  <2> QED  BY <2>1
<1>3. Nat \subseteq T
  <2> HIDE DEF T
  <2> QED  BY <1>1, <1>2, CountingUp, Zenon
<1> QED  BY <1>3

\* One more block in the selection of a kind.
Kept(kind, sofar, b) == IF b.kind = kind THEN Append(sofar, b) ELSE sofar

\* f[i] are the blocks of the kind among the first i.
Keeps(kind, f, s, n) ==
    f = [i \in 0..n |-> IF i = 0 THEN <<>> ELSE Kept(kind, f[i - 1], s[i])]

\* The selection can be made one block at a time.
LEMMA KeepsExists ==
    ASSUME NEW kind, NEW s, NEW n \in Nat
    PROVE  \E f : Keeps(kind, f, s, n)
<1> DEFINE S == {m \in Nat : \E f : Keeps(kind, f, s, m)}
<1>1. 0 \in S
  <2>1. Keeps(kind, [i \in 0..0 |-> <<>>], s, 0)
    BY DEF Keeps
  <2> QED  BY <2>1, Zenon
<1>2. ASSUME NEW m \in Nat, m \in S
      PROVE  m + 1 \in S
  <2>1. PICK f : Keeps(kind, f, s, m)
    BY <1>2, Zenon
  <2> DEFINE g == [i \in 0..(m + 1) |-> IF i <= m THEN f[i] ELSE Kept(kind, f[i - 1], s[i])]
  <2>2. \A i \in 0..m : f[i] = IF i = 0 THEN <<>> ELSE Kept(kind, f[i - 1], s[i])
    BY <2>1, Zenon DEF Keeps
  <2>3. ASSUME NEW i \in 0..(m + 1)
        PROVE  g[i] = IF i = 0 THEN <<>> ELSE Kept(kind, g[i - 1], s[i])
    <3>1. CASE i = 0
      BY <2>2, <3>1
    <3>2. CASE i # 0
      <4>1. i - 1 \in 0..(m + 1) /\ i - 1 <= m
        BY <3>2
      <4>2. g[i - 1] = f[i - 1]
        BY <4>1, Zenon
      <4>3. g[i] = Kept(kind, f[i - 1], s[i])
        BY <2>2, <3>2
      <4> QED  BY <3>2, <4>2, <4>3, Zenon
    <3> QED  BY <3>1, <3>2, Zenon
  <2>4. g = [i \in 0..(m + 1) |-> IF i = 0 THEN <<>> ELSE Kept(kind, g[i - 1], s[i])]
    <3> HIDE DEF g
    <3> QED  BY <2>3, Zenon DEF g
  <2>5. Keeps(kind, g, s, m + 1)
    <3> HIDE DEF g
    <3> QED  BY <2>4, Zenon DEF Keeps
  <2> QED  BY <2>5
<1>3. Nat \subseteq S
  <2> HIDE DEF S
  <2> QED  BY <1>1, <1>2, CountingUp, Zenon
<1> QED  BY <1>3, Zenon

\* The selection up to a block depends on the blocks up to there.
LEMMA KeepsAgree ==
    ASSUME NEW kind, NEW s, NEW t, NEW n \in Nat, NEW m \in Nat, m <= n, NEW f, NEW g,
           Keeps(kind, f, s, n), Keeps(kind, g, t, m), \A i \in 1..m : s[i] = t[i]
    PROVE  f[m] = g[m]
<1> DEFINE S == {k \in Nat : k <= m => f[k] = g[k]}
<1>1. \A i \in 0..n : f[i] = IF i = 0 THEN <<>> ELSE Kept(kind, f[i - 1], s[i])
  BY Zenon DEF Keeps
<1>2. \A i \in 0..m : g[i] = IF i = 0 THEN <<>> ELSE Kept(kind, g[i - 1], t[i])
  BY Zenon DEF Keeps
<1>3. 0 \in S
  BY <1>1, <1>2
<1>4. ASSUME NEW k \in Nat, k \in S
      PROVE  k + 1 \in S
  <2> SUFFICES ASSUME k + 1 <= m
               PROVE  f[k + 1] = g[k + 1]
    OBVIOUS
  <2>1. k + 1 \in 0..n /\ k + 1 \in 0..m /\ k + 1 # 0 /\ (k + 1) - 1 = k /\ k + 1 \in 1..m
    OBVIOUS
  <2>2. f[k] = g[k] /\ s[k + 1] = t[k + 1]
    BY <1>4, <2>1
  <2>3. f[k + 1] = Kept(kind, f[k], s[k + 1])
    BY <1>1, <2>1, Zenon
  <2>4. g[k + 1] = Kept(kind, g[k], t[k + 1])
    BY <1>2, <2>1, Zenon
  <2> QED  BY <2>2, <2>3, <2>4, Zenon
<1>5. Nat \subseteq S
  <2> HIDE DEF S
  <2> QED  BY <1>3, <1>4, CountingUp, Zenon
<1> QED  BY <1>5

\* Only is where the selection arrives.
LEMMA OnlyIs ==
    ASSUME NEW kind, NEW s, Len(s) \in Nat
    PROVE  \E f : Keeps(kind, f, s, Len(s)) /\ Only(kind, s) = f[Len(s)]
<1> DEFINE upTo == CHOOSE f : Keeps(kind, f, s, Len(s))
<1>1. Only(kind, s) = upTo[Len(s)]
  BY Zenon DEF Only, Keeps, Kept
<1>2. \E f : Keeps(kind, f, s, Len(s))
  BY KeepsExists, Zenon
<1>3. Keeps(kind, upTo, s, Len(s))
  BY <1>2, Zenon
<1> QED  BY <1>1, <1>3, Zenon

\* Nothing is selected from nothing.
LEMMA OnlyNone ==
    ASSUME NEW kind
    PROVE  Only(kind, <<>>) = <<>>
<1>1. PICK f : Keeps(kind, f, <<>>, Len(<<>>)) /\ Only(kind, <<>>) = f[Len(<<>>)]
  BY OnlyIs, Zenon
<1>2. Len(<<>>) = 0
  BY Zenon
<1>3. f = [i \in 0..0 |-> IF i = 0 THEN <<>> ELSE Kept(kind, f[i - 1], <<>>[i])]
  BY <1>1, <1>2, Zenon DEF Keeps
<1> QED  BY <1>1, <1>2, <1>3

\* One more block: what append_message does with the next of a message.
LEMMA OnlyAppend ==
    ASSUME NEW kind, NEW C, NEW s \in Seq(C), NEW c \in C
    PROVE  Only(kind, Append(s, c)) = Kept(kind, Only(kind, s), c)
<1> DEFINE t == Append(s, c)
           n == Len(s)
<1>1. t \in Seq(C) /\ n \in Nat /\ Len(t) = n + 1 /\ t[n + 1] = c /\ \A i \in 1..n : t[i] = s[i]
  OBVIOUS
<1> HIDE DEF t
<1>2. PICK f : Keeps(kind, f, t, n + 1) /\ Only(kind, t) = f[n + 1]
  BY <1>1, OnlyIs
<1>3. PICK g : Keeps(kind, g, s, n) /\ Only(kind, s) = g[n]
  BY <1>1, OnlyIs, Zenon
<1>4. f[n] = g[n]
  BY <1>1, <1>2, <1>3, KeepsAgree
<1>5. f[n + 1] = Kept(kind, f[n], t[n + 1])
  <2>1. \A i \in 0..(n + 1) : f[i] = IF i = 0 THEN <<>> ELSE Kept(kind, f[i - 1], t[i])
    BY <1>2, Zenon DEF Keeps
  <2>2. n + 1 \in 0..(n + 1) /\ n + 1 # 0 /\ (n + 1) - 1 = n
    BY <1>1
  <2> QED  BY <2>1, <2>2, Zenon
<1> QED  BY <1>1, <1>2, <1>3, <1>4, <1>5, Zenon DEF t

\* What parse_response does with one item of the output.
Read(sofar, item) ==
    CASE item = "call" -> Append(sofar, ParseFunctionCall(sofar))
      [] item = "text" -> Append(sofar, TextBlock)
      [] OTHER -> sofar

\* f[i] is the content read from the first i items.
Reads(f, s, n) ==
    f = [i \in 0..n |-> IF i = 0 THEN <<>> ELSE Read(f[i - 1], s[i])]

\* A response can be read one item at a time.
LEMMA ReadsExists ==
    ASSUME NEW s, NEW n \in Nat
    PROVE  \E f : Reads(f, s, n)
<1> DEFINE S == {m \in Nat : \E f : Reads(f, s, m)}
<1>1. 0 \in S
  <2>1. Reads([i \in 0..0 |-> <<>>], s, 0)
    BY DEF Reads
  <2> QED  BY <2>1, Zenon
<1>2. ASSUME NEW m \in Nat, m \in S
      PROVE  m + 1 \in S
  <2>1. PICK f : Reads(f, s, m)
    BY <1>2, Zenon
  <2> DEFINE g == [i \in 0..(m + 1) |-> IF i <= m THEN f[i] ELSE Read(f[i - 1], s[i])]
  <2>2. \A i \in 0..m : f[i] = IF i = 0 THEN <<>> ELSE Read(f[i - 1], s[i])
    BY <2>1, Zenon DEF Reads
  <2>3. ASSUME NEW i \in 0..(m + 1)
        PROVE  g[i] = IF i = 0 THEN <<>> ELSE Read(g[i - 1], s[i])
    <3>1. CASE i = 0
      BY <2>2, <3>1
    <3>2. CASE i # 0
      <4>1. i - 1 \in 0..(m + 1) /\ i - 1 <= m
        BY <3>2
      <4>2. g[i - 1] = f[i - 1]
        BY <4>1, Zenon
      <4>3. g[i] = Read(f[i - 1], s[i])
        BY <2>2, <3>2
      <4> QED  BY <3>2, <4>2, <4>3, Zenon
    <3> QED  BY <3>1, <3>2, Zenon
  <2>4. g = [i \in 0..(m + 1) |-> IF i = 0 THEN <<>> ELSE Read(g[i - 1], s[i])]
    <3> HIDE DEF g
    <3> QED  BY <2>3, Zenon DEF g
  <2>5. Reads(g, s, m + 1)
    <3> HIDE DEF g
    <3> QED  BY <2>4, Zenon DEF Reads
  <2> QED  BY <2>5
<1>3. Nat \subseteq S
  <2> HIDE DEF S
  <2> QED  BY <1>1, <1>2, CountingUp, Zenon
<1> QED  BY <1>3, Zenon

\* What is read up to an item depends on the items up to there.
LEMMA ReadsAgree ==
    ASSUME NEW s, NEW t, NEW n \in Nat, NEW m \in Nat, m <= n, NEW f, NEW g,
           Reads(f, s, n), Reads(g, t, m), \A i \in 1..m : s[i] = t[i]
    PROVE  f[m] = g[m]
<1> DEFINE S == {k \in Nat : k <= m => f[k] = g[k]}
<1>1. \A i \in 0..n : f[i] = IF i = 0 THEN <<>> ELSE Read(f[i - 1], s[i])
  BY Zenon DEF Reads
<1>2. \A i \in 0..m : g[i] = IF i = 0 THEN <<>> ELSE Read(g[i - 1], t[i])
  BY Zenon DEF Reads
<1>3. 0 \in S
  BY <1>1, <1>2
<1>4. ASSUME NEW k \in Nat, k \in S
      PROVE  k + 1 \in S
  <2> SUFFICES ASSUME k + 1 <= m
               PROVE  f[k + 1] = g[k + 1]
    OBVIOUS
  <2>1. k + 1 \in 0..n /\ k + 1 \in 0..m /\ k + 1 # 0 /\ (k + 1) - 1 = k /\ k + 1 \in 1..m
    OBVIOUS
  <2>2. f[k] = g[k] /\ s[k + 1] = t[k + 1]
    BY <1>4, <2>1
  <2>3. f[k + 1] = Read(f[k], s[k + 1])
    BY <1>1, <2>1, Zenon
  <2>4. g[k + 1] = Read(g[k], t[k + 1])
    BY <1>2, <2>1, Zenon
  <2> QED  BY <2>2, <2>3, <2>4, Zenon
<1>5. Nat \subseteq S
  <2> HIDE DEF S
  <2> QED  BY <1>3, <1>4, CountingUp, Zenon
<1> QED  BY <1>5

\* parse_response is where the reading arrives.
LEMMA ParseResponsesIs ==
    ASSUME NEW s, Len(s) \in Nat
    PROVE  \E f : Reads(f, s, Len(s)) /\ ParseResponses(s) = f[Len(s)]
<1> DEFINE upTo == CHOOSE f : Reads(f, s, Len(s))
<1>1. ParseResponses(s) = upTo[Len(s)]
  BY Zenon DEF ParseResponses, Reads, Read
<1>2. \E f : Reads(f, s, Len(s))
  BY ReadsExists, Zenon
<1>3. Reads(upTo, s, Len(s))
  BY <1>2, Zenon
<1> QED  BY <1>1, <1>3, Zenon

\* An empty response has no content.
LEMMA ParseResponsesNone ==
    ParseResponses(<<>>) = <<>>
<1>1. PICK f : Reads(f, <<>>, Len(<<>>)) /\ ParseResponses(<<>>) = f[Len(<<>>)]
  BY ParseResponsesIs, Zenon
<1>2. Len(<<>>) = 0
  BY Zenon
<1>3. f = [i \in 0..0 |-> IF i = 0 THEN <<>> ELSE Read(f[i - 1], <<>>[i])]
  BY <1>1, <1>2, Zenon DEF Reads
<1> QED  BY <1>1, <1>2, <1>3

\* One more item of the response.
LEMMA ParseResponsesAppend ==
    ASSUME NEW C, NEW s \in Seq(C), NEW c \in C
    PROVE  ParseResponses(Append(s, c)) = Read(ParseResponses(s), c)
<1> DEFINE t == Append(s, c)
           n == Len(s)
<1>1. t \in Seq(C) /\ n \in Nat /\ Len(t) = n + 1 /\ t[n + 1] = c /\ \A i \in 1..n : t[i] = s[i]
  OBVIOUS
<1> HIDE DEF t
<1>2. PICK f : Reads(f, t, n + 1) /\ ParseResponses(t) = f[n + 1]
  BY <1>1, ParseResponsesIs
<1>3. PICK g : Reads(g, s, n) /\ ParseResponses(s) = g[n]
  BY <1>1, ParseResponsesIs, Zenon
<1>4. f[n] = g[n]
  BY <1>1, <1>2, <1>3, ReadsAgree
<1>5. f[n + 1] = Read(f[n], t[n + 1])
  <2>1. \A i \in 0..(n + 1) : f[i] = IF i = 0 THEN <<>> ELSE Read(f[i - 1], t[i])
    BY <1>2, Zenon DEF Reads
  <2>2. n + 1 \in 0..(n + 1) /\ n + 1 # 0 /\ (n + 1) - 1 = n
    BY <1>1
  <2> QED  BY <2>1, <2>2, Zenon
<1> QED  BY <1>1, <1>2, <1>3, <1>4, <1>5, Zenon DEF t

\* The items of a message come after those of the messages before.
Sent(sofar, message) == sofar \o ToWire(message)

\* f[i] is the wire form of the first i messages.
Sends(f, s, n) ==
    f = [i \in 0..n |-> IF i = 0 THEN <<>> ELSE Sent(f[i - 1], s[i])]

\* A request can be built one message at a time.
LEMMA SendsExists ==
    ASSUME NEW s, NEW n \in Nat
    PROVE  \E f : Sends(f, s, n)
<1> DEFINE S == {m \in Nat : \E f : Sends(f, s, m)}
<1>1. 0 \in S
  <2>1. Sends([i \in 0..0 |-> <<>>], s, 0)
    BY DEF Sends
  <2> QED  BY <2>1, Zenon
<1>2. ASSUME NEW m \in Nat, m \in S
      PROVE  m + 1 \in S
  <2>1. PICK f : Sends(f, s, m)
    BY <1>2, Zenon
  <2> DEFINE g == [i \in 0..(m + 1) |-> IF i <= m THEN f[i] ELSE Sent(f[i - 1], s[i])]
  <2>2. \A i \in 0..m : f[i] = IF i = 0 THEN <<>> ELSE Sent(f[i - 1], s[i])
    BY <2>1, Zenon DEF Sends
  <2>3. ASSUME NEW i \in 0..(m + 1)
        PROVE  g[i] = IF i = 0 THEN <<>> ELSE Sent(g[i - 1], s[i])
    <3>1. CASE i = 0
      BY <2>2, <3>1
    <3>2. CASE i # 0
      <4>1. i - 1 \in 0..(m + 1) /\ i - 1 <= m
        BY <3>2
      <4>2. g[i - 1] = f[i - 1]
        BY <4>1, Zenon
      <4>3. g[i] = Sent(f[i - 1], s[i])
        BY <2>2, <3>2
      <4> QED  BY <3>2, <4>2, <4>3, Zenon
    <3> QED  BY <3>1, <3>2, Zenon
  <2>4. g = [i \in 0..(m + 1) |-> IF i = 0 THEN <<>> ELSE Sent(g[i - 1], s[i])]
    <3> HIDE DEF g
    <3> QED  BY <2>3, Zenon DEF g
  <2>5. Sends(g, s, m + 1)
    <3> HIDE DEF g
    <3> QED  BY <2>4, Zenon DEF Sends
  <2> QED  BY <2>5
<1>3. Nat \subseteq S
  <2> HIDE DEF S
  <2> QED  BY <1>1, <1>2, CountingUp, Zenon
<1> QED  BY <1>3, Zenon

\* The request is where that arrives.
LEMMA RequestIs ==
    ASSUME Len(history) \in Nat
    PROVE  \E f : Sends(f, history, Len(history)) /\ Request = f[Len(history)]
<1> DEFINE upTo == CHOOSE f : Sends(f, history, Len(history))
<1>1. Request = upTo[Len(history)]
  BY Zenon DEF Request, Sends, Sent
<1>2. \E f : Sends(f, history, Len(history))
  BY SendsExists, Zenon
<1>3. Sends(upTo, history, Len(history))
  BY <1>2, Zenon
<1> QED  BY <1>1, <1>3, Zenon

\* The blocks of a message's content.
Block == [kind : {"text", "use", "result"}, id : Nat]

\* pos[k] is the place in content of the k-th of its blocks of the kind.
Places(pos, kind, sel, content) ==
    /\ pos \in [1..Len(sel) -> 1..Len(content)]
    /\ \A j, k \in 1..Len(sel) : j < k => pos[j] < pos[k]
    /\ \A k \in 1..Len(sel) : sel[k] = content[pos[k]] /\ sel[k].kind = kind
    /\ \A p \in 1..Len(content) : content[p].kind = kind => \E k \in 1..Len(sel) : pos[k] = p

\* One more element in a sequence.
LEMMA AppendOne ==
    ASSUME NEW C, NEW s \in Seq(C), NEW e \in C
    PROVE  /\ Append(s, e) \in Seq(C) /\ Len(Append(s, e)) = Len(s) + 1 /\ Len(s) \in Nat
           /\ \A i \in 1..Len(s) : Append(s, e)[i] = s[i]
           /\ Append(s, e)[Len(s) + 1] = e
  OBVIOUS

\* A selection has elements of the sequence it is made from.
LEMMA OnlyTyped ==
    ASSUME NEW C, NEW kind
    PROVE  \A s \in Seq(C) : Only(kind, s) \in Seq(C)
<1> DEFINE S == {s \in Seq(C) : Only(kind, s) \in Seq(C)}
<1>1. <<>> \in S
  <2>1. Only(kind, <<>>) = <<>> /\ <<>> \in Seq(C)
    BY OnlyNone
  <2> QED  BY <2>1, Zenon
<1>2. ASSUME NEW s \in Seq(C), NEW c \in C, s \in S
      PROVE  Append(s, c) \in S
  <2>1. Only(kind, Append(s, c)) = Kept(kind, Only(kind, s), c)
    BY OnlyAppend, Zenon
  <2> QED  BY <1>2, <2>1, SMTT(30) DEF Kept
<1>3. Seq(C) \subseteq S
  <2> HIDE DEF S
  <2> QED  BY <1>1, <1>2, OneByOne, Zenon
<1> QED  BY <1>3, Zenon

\* One more block keeps account of the places.
LEMMA PlacesKept ==
    ASSUME NEW C, NEW kind, NEW s \in Seq(C), NEW sel \in Seq(C), NEW c \in C, NEW pos,
           Places(pos, kind, sel, s)
    PROVE  \E new : Places(new, kind, Kept(kind, sel, c), Append(s, c))
<1> DEFINE t == Append(s, c)
<1>1. /\ t \in Seq(C) /\ Len(t) = Len(s) + 1 /\ Len(s) \in Nat
      /\ \A i \in 1..Len(s) : t[i] = s[i]
      /\ t[Len(s) + 1] = c
  BY AppendOne, Zenon
<1> HIDE DEF t
<1>2. Len(sel) \in Nat
  OBVIOUS
<1>3. CASE c.kind = kind
  <2> DEFINE u == Append(sel, c)
             n == Len(sel)
             new == [k \in 1..(n + 1) |-> IF k <= n THEN pos[k] ELSE Len(s) + 1]
  <2>1. /\ u \in Seq(C) /\ Len(u) = n + 1
        /\ \A i \in 1..n : u[i] = sel[i]
        /\ u[n + 1] = c
    BY AppendOne
  <2>2. Kept(kind, sel, c) = u
    BY <1>3, Zenon DEF Kept
  <2> HIDE DEF u
  <2>3. \A k \in 1..n : pos[k] \in 1..Len(s)
    BY Zenon DEF Places
  <2>4. /\ \A k \in 1..n : new[k] = pos[k]
        /\ new[n + 1] = Len(s) + 1
    BY <1>2
  <2>5. new \in [1..Len(u) -> 1..Len(t)]
    <3>1. ASSUME NEW k \in 1..(n + 1) PROVE new[k] \in 1..(Len(s) + 1)
      <4>1. CASE k \in 1..n
        BY <1>1, <2>3, <2>4, <4>1
      <4>2. CASE k = n + 1
        BY <1>1, <2>4, <4>2
      <4> QED  BY <1>2, <4>1, <4>2
    <3> QED  BY <1>1, <2>1, <3>1, Zenon
  <2> HIDE DEF new
  <2>6. ASSUME NEW j \in 1..Len(u), NEW k \in 1..Len(u), j < k PROVE new[j] < new[k]
    <3>1. j \in 1..n
      BY <1>2, <2>1, <2>6
    <3>2. CASE k \in 1..n
      BY <2>4, <2>6, <3>1, <3>2, Zenon DEF Places
    <3>3. CASE k = n + 1
      BY <1>1, <2>3, <2>4, <3>1, <3>3
    <3> QED  BY <1>2, <2>1, <3>2, <3>3
  <2>7. ASSUME NEW k \in 1..Len(u) PROVE u[k] = t[new[k]] /\ u[k].kind = kind
    <3>1. CASE k \in 1..n
      <4>1. sel[k] = s[pos[k]] /\ sel[k].kind = kind /\ pos[k] \in 1..Len(s)
        BY <2>3, <3>1, Zenon DEF Places
      <4> QED  BY <1>1, <2>1, <2>4, <3>1, <4>1, Zenon
    <3>2. CASE k = n + 1
      BY <1>1, <1>3, <2>1, <2>4, <3>2, Zenon
    <3> QED  BY <1>2, <2>1, <3>1, <3>2
  <2>8. ASSUME NEW p \in 1..Len(t), t[p].kind = kind PROVE \E k \in 1..Len(u) : new[k] = p
    <3>1. CASE p \in 1..Len(s)
      <4>1. s[p].kind = kind
        BY <1>1, <2>8, <3>1, Zenon
      <4>2. PICK k \in 1..n : pos[k] = p
        BY <3>1, <4>1, Zenon DEF Places
      <4>3. k \in 1..Len(u) /\ new[k] = p
        BY <1>2, <2>1, <2>4, <4>2
      <4> QED  BY <4>3, Zenon
    <3>2. CASE p = Len(s) + 1
      <4>1. n + 1 \in 1..Len(u) /\ new[n + 1] = p
        BY <1>2, <2>1, <2>4, <3>2
      <4> QED  BY <4>1, Zenon
    <3> QED  BY <1>1, <3>1, <3>2
  <2>9. Places(new, kind, u, t)
    BY <2>5, <2>6, <2>7, <2>8, Zenon DEF Places
  <2> QED  BY <2>2, <2>9, Zenon DEF t
<1>4. CASE c.kind # kind
  <2>1. Kept(kind, sel, c) = sel
    BY <1>4, Zenon DEF Kept
  <2>2. pos \in [1..Len(sel) -> 1..Len(t)]
    BY <1>1, <1>2 DEF Places
  <2>3. \A k \in 1..Len(sel) : sel[k] = t[pos[k]] /\ sel[k].kind = kind
    BY <1>1, Zenon DEF Places
  <2>4. ASSUME NEW p \in 1..Len(t), t[p].kind = kind PROVE \E k \in 1..Len(sel) : pos[k] = p
    <3>1. p \in 1..Len(s) /\ s[p].kind = kind
      BY <1>1, <1>4, <2>4
    <3> QED  BY <3>1, Zenon DEF Places
  <2>5. \A j, k \in 1..Len(sel) : j < k => pos[j] < pos[k]
    BY Zenon DEF Places
  <2>6. Places(pos, kind, sel, t)
    BY <2>2, <2>3, <2>4, <2>5, Zenon DEF Places
  <2> QED  BY <2>1, <2>6, Zenon DEF t
<1> QED  BY <1>3, <1>4, Zenon

\* The selection of a kind has all blocks of it, in their order.
LEMMA OnlyPlaces ==
    ASSUME NEW C, NEW kind
    PROVE  \A s \in Seq(C) : \E pos : Places(pos, kind, Only(kind, s), s)
<1> DEFINE S == {s \in Seq(C) : \E pos : Places(pos, kind, Only(kind, s), s)}
<1>1. <<>> \in S
  <2>1. Only(kind, <<>>) = <<>> /\ Len(<<>>) = 0 /\ <<>> \in Seq(C)
    BY OnlyNone
  <2>2. Places(<<>>, kind, <<>>, <<>>)
    BY <2>1 DEF Places
  <2> QED  BY <2>1, <2>2, Zenon
<1>2. ASSUME NEW s \in Seq(C), NEW c \in C, s \in S
      PROVE  Append(s, c) \in S
  <2>1. Only(kind, Append(s, c)) = Kept(kind, Only(kind, s), c)
    BY OnlyAppend, Zenon
  <2>2. Only(kind, s) \in Seq(C)
    BY OnlyTyped, Zenon
  <2>3. PICK pos : Places(pos, kind, Only(kind, s), s)
    BY <1>2, Zenon
  <2>4. \E new : Places(new, kind, Kept(kind, Only(kind, s), c), Append(s, c))
    BY <2>2, <2>3, PlacesKept, Zenon
  <2>5. Append(s, c) \in Seq(C)
    BY AppendOne, Zenon
  <2> QED  BY <2>1, <2>4, <2>5, Zenon
<1>3. Seq(C) \subseteq S
  <2> HIDE DEF S
  <2> QED  BY <1>1, <1>2, OneByOne, Zenon
<1> QED  BY <1>3, Zenon

\* When all are of the kind, all are selected.
LEMMA OnlyAll ==
    ASSUME NEW C, NEW kind, \A c \in C : c.kind = kind
    PROVE  \A s \in Seq(C) : Only(kind, s) = s
<1> DEFINE S == {s \in Seq(C) : Only(kind, s) = s}
<1>1. <<>> \in S
  BY OnlyNone
<1>2. ASSUME NEW s \in Seq(C), NEW c \in C, s \in S
      PROVE  Append(s, c) \in S
  <2>1. Only(kind, Append(s, c)) = Kept(kind, Only(kind, s), c)
    BY OnlyAppend, Zenon
  <2>2. c.kind = kind
    BY Zenon
  <2>3. Append(s, c) \in Seq(C)
    BY AppendOne, Zenon
  <2> QED  BY <1>2, <2>1, <2>2, <2>3, Zenon DEF Kept
<1>3. Seq(C) \subseteq S
  <2> HIDE DEF S
  <2> QED  BY <1>1, <1>2, OneByOne, Zenon
<1> QED  BY <1>3, Zenon

\* Concatenation, one element at a time.
LEMMA ConcatOne ==
    ASSUME NEW C, NEW a \in Seq(C), NEW s \in Seq(C), NEW c \in C
    PROVE  a \o Append(s, c) = Append(a \o s, c) /\ a \o s \in Seq(C) /\ a \o <<>> = a
  OBVIOUS

\* What has no block of the kind adds none to the selection from what follows.
LEMMA OnlyAfter ==
    ASSUME NEW C, NEW kind, NEW a \in Seq(C), Only(kind, a) = <<>>
    PROVE  \A s \in Seq(C) : Only(kind, a \o s) = Only(kind, s)
<1> DEFINE S == {s \in Seq(C) : Only(kind, a \o s) = Only(kind, s)}
<1>1. <<>> \in S
  <2>1. a \o <<>> = a
    OBVIOUS
  <2> QED  BY <2>1, OnlyNone
<1>2. ASSUME NEW s \in Seq(C), NEW c \in C, s \in S
      PROVE  Append(s, c) \in S
  <2>1. a \o Append(s, c) = Append(a \o s, c) /\ a \o s \in Seq(C) /\ Append(s, c) \in Seq(C)
    BY ConcatOne, AppendOne
  <2>2. Only(kind, Append(a \o s, c)) = Kept(kind, Only(kind, a \o s), c)
    BY <2>1, OnlyAppend, ZenonT(40)
  <2>3. Only(kind, Append(s, c)) = Kept(kind, Only(kind, s), c)
    BY OnlyAppend, Zenon
  <2> QED  BY <1>2, <2>1, <2>2, <2>3, Zenon
<1>3. Seq(C) \subseteq S
  <2> HIDE DEF S
  <2> QED  BY <1>1, <1>2, OneByOne, Zenon
<1> QED  BY <1>3, Zenon

\* What the assistant says: texts and calls.
Spoken == {b \in Block : b.kind \in {"text", "use"}}

\* The calls are numbered on from the last one.
Numbered(uses) == \A k \in 1..Len(uses) : uses[k] = Use(lastId + k)

\* Texts and calls are blocks the assistant may say.
LEMMA SpokenBlocks ==
    ASSUME lastId \in Nat, NEW n \in Nat
    PROVE  /\ TextBlock \in Spoken /\ TextBlock.kind = "text"
           /\ Use(n) \in Spoken /\ Use(n).kind = "use" /\ Use(n).id = n
  BY Zenon DEF Spoken, Block, TextBlock, Use

\* parse_response of openai.rs numbers the calls it reads in order, whatever else
\* is in the output.
LEMMA ReadResponses ==
    ASSUME lastId \in Nat, NEW C
    PROVE  \A items \in Seq(C) :
              /\ ParseResponses(items) \in Seq(Spoken)
              /\ Numbered(Only("use", ParseResponses(items)))
<1> DEFINE Fine(content) == content \in Seq(Spoken) /\ Numbered(Only("use", content))
           S == {items \in Seq(C) : Fine(ParseResponses(items))}
<1>1. <<>> \in S
  <2>1. ParseResponses(<<>>) = <<>> /\ Only("use", <<>>) = <<>> /\ <<>> \in Seq(Spoken) /\
        <<>> \in Seq(C)
    BY ParseResponsesNone, OnlyNone
  <2>2. Numbered(<<>>)
    BY DEF Numbered
  <2> QED  BY <2>1, <2>2, Zenon
<1>2. ASSUME NEW items \in Seq(C), NEW item \in C, items \in S
      PROVE  Append(items, item) \in S
  <2> DEFINE content == ParseResponses(items)
  <2>1. ParseResponses(Append(items, item)) = Read(content, item) /\
        Append(items, item) \in Seq(C)
    BY ParseResponsesAppend, AppendOne, Zenon
  <2>2. content \in Seq(Spoken) /\ Numbered(Only("use", content))
    BY <1>2, Zenon
  <2> HIDE DEF content
  <2>3. Only("use", content) \in Seq(Spoken)
    BY <2>2, OnlyTyped, Zenon
  <2> DEFINE uses == Only("use", content)
             n == lastId + Len(uses) + 1
  <2>4. Len(uses) \in Nat /\ n \in Nat /\ n = lastId + (Len(uses) + 1)
    BY <2>3
  <2>5. CASE item = "call"
    <3>1. Read(content, item) = Append(content, Use(n))
      BY <2>5, Zenon DEF Read, ParseFunctionCall
    <3>2. Use(n) \in Spoken /\ Use(n).kind = "use"
      BY <2>4, SpokenBlocks, Zenon
    <3>3. Append(content, Use(n)) \in Seq(Spoken)
      BY <2>2, <3>2, AppendOne, Zenon
    <3>4. Only("use", Append(content, Use(n))) = Append(uses, Use(n))
      <4>1. Only("use", Append(content, Use(n))) = Kept("use", uses, Use(n))
        BY <2>2, <3>2, OnlyAppend, Zenon
      <4> QED  BY <3>2, <4>1, Zenon DEF Kept
    <3>5. Numbered(Append(uses, Use(n)))
      <4> DEFINE more == Append(uses, Use(n))
      <4>1. /\ Len(more) = Len(uses) + 1
            /\ \A i \in 1..Len(uses) : more[i] = uses[i]
            /\ more[Len(uses) + 1] = Use(n)
        <5> HIDE DEF uses, n
        <5> QED  BY <2>3, <3>2, AppendOne DEF uses
      <4>2. \A k \in 1..Len(uses) : uses[k] = Use(lastId + k)
        BY <2>2, Zenon DEF Numbered
      <4> HIDE DEF more, uses
      <4>3. ASSUME NEW k \in 1..(Len(uses) + 1) PROVE more[k] = Use(lastId + k)
        <5>1. CASE k \in 1..Len(uses)
          BY <4>1, <4>2, <5>1, Zenon
        <5>2. CASE k = Len(uses) + 1
          BY <2>4, <4>1, <5>2, Zenon
        <5> QED  BY <2>4, <5>1, <5>2
      <4>4. Numbered(more)
        BY <4>1, <4>3, Zenon DEF Numbered
      <4> QED  BY <4>4, Zenon DEF more
    <3> QED  BY <2>1, <3>1, <3>3, <3>4, <3>5, Zenon
  <2>6. CASE item = "text"
    <3>1. Read(content, item) = Append(content, TextBlock)
      <4>1. "text" # "call"
        BY Zenon
      <4> QED  BY <2>6, <4>1, Zenon DEF Read
    <3>2. TextBlock \in Spoken /\ TextBlock.kind = "text" /\ "text" # "use"
      BY SpokenBlocks, Zenon
    <3>3. Append(content, TextBlock) \in Seq(Spoken)
      BY <2>2, <3>2, AppendOne, Zenon
    <3>4. Only("use", Append(content, TextBlock)) = uses
      <4>1. Only("use", Append(content, TextBlock)) = Kept("use", uses, TextBlock)
        BY <2>2, <3>2, OnlyAppend, Zenon
      <4> QED  BY <3>2, <4>1, Zenon DEF Kept
    <3> QED  BY <2>1, <2>2, <3>1, <3>3, <3>4, Zenon
  <2>7. CASE item # "call" /\ item # "text"
    <3>1. Read(content, item) = content
      BY <2>7, Zenon DEF Read
    <3> QED  BY <2>1, <2>2, <3>1, Zenon
  <2> QED  BY <2>5, <2>6, <2>7, Zenon
<1>3. Seq(C) \subseteq S
  <2> HIDE DEF S
  <2> QED  BY <1>1, <1>2, OneByOne, Zenon
<1> QED  BY <1>3, Zenon

\* So does parse_response of local.rs, which puts the text first.
LEMMA ReadChat ==
    ASSUME lastId \in Nat, NEW C, NEW items \in Seq(C)
    PROVE  /\ ParseChat(items) \in Seq(Spoken)
           /\ Numbered(Only("use", ParseChat(items)))
<1> DEFINE content == ParseResponses(items)
           uses == Only("use", content)
           text == IF Only("text", content) = <<>> THEN <<>> ELSE <<TextBlock>>
<1>1. content \in Seq(Spoken) /\ Numbered(uses)
  BY ReadResponses, Zenon
<1>2. ParseChat(items) = text \o uses
  BY Zenon DEF ParseChat
<1> HIDE DEF content
<1>3. uses \in Seq(Spoken)
  BY <1>1, OnlyTyped, Zenon
<1>4. \E pos : Places(pos, "use", uses, content)
  BY <1>1, OnlyPlaces, Zenon
<1>5. \A k \in 1..Len(uses) : uses[k].kind = "use"
  BY <1>4, Zenon DEF Places
<1> DEFINE Calls == {b \in Spoken : b.kind = "use"}
<1>6. uses \in Seq(Calls)
  <2> HIDE DEF uses
  <2> QED  BY <1>3, <1>5
<1>7. Only("use", uses) = uses
  <2>1. \A c \in Calls : c.kind = "use"
    BY Zenon
  <2> HIDE DEF Calls, uses
  <2> QED  BY <1>6, <2>1, OnlyAll, Zenon
<1>8. text \in Seq(Spoken) /\ Only("use", text) = <<>>
  <2>1. <<>> \in Seq(Spoken) /\ Only("use", <<>>) = <<>>
    BY OnlyNone
  <2>2. TextBlock \in Spoken /\ TextBlock.kind = "text" /\ "text" # "use"
    BY SpokenBlocks, Zenon
  <2>3. Append(<<>>, TextBlock) \in Seq(Spoken) /\ Append(<<>>, TextBlock) = <<TextBlock>>
    BY <2>1, <2>2, AppendOne
  <2>4. Only("use", Append(<<>>, TextBlock)) = Kept("use", <<>>, TextBlock)
    <3>1. ASSUME NEW s \in Seq(Spoken), Only("use", s) = <<>>
          PROVE  Only("use", Append(s, TextBlock)) = Kept("use", <<>>, TextBlock)
      <4>1. Only("use", Append(s, TextBlock)) = Kept("use", Only("use", s), TextBlock)
        BY <2>2, OnlyAppend, Zenon
      <4> QED  BY <3>1, <4>1, Zenon
    <3> QED  BY <2>1, <3>1, Zenon
  <2>5. Only("use", <<TextBlock>>) = <<>>
    BY <2>2, <2>3, <2>4, Zenon DEF Kept
  <2> QED  BY <2>1, <2>3, <2>5, Zenon
<1> HIDE DEF text, uses
<1>9. Only("use", text \o uses) = uses
  <2>1. \A s \in Seq(Spoken) : Only("use", text \o s) = Only("use", s)
    BY <1>8, OnlyAfter, Zenon
  <2> QED  BY <1>3, <1>7, <2>1, Zenon
<1>10. text \o uses \in Seq(Spoken)
  BY <1>3, <1>8, ConcatOne
<1> QED  BY <1>1, <1>2, <1>9, <1>10, Zenon

\* The backends.
Providers == {"anthropic", "responses", "realtime", "local"}

\* Whatever the backend, the content read from a response is texts and calls, and
\* the calls are numbered on from the last one.
LEMMA ReadAny ==
    ASSUME lastId \in Nat, provider \in Providers, NEW C, NEW items \in Seq(C)
    PROVE  /\ Parse(items) \in Seq(Spoken)
           /\ Numbered(Only("use", Parse(items)))
<1>0. /\ "anthropic" # "responses" /\ "anthropic" # "realtime" /\ "anthropic" # "local"
      /\ "responses" # "realtime" /\ "responses" # "local" /\ "realtime" # "local"
  BY Zenon
<1>1. CASE provider = "local"
  <2>1. Parse(items) = ParseChat(items)
    BY <1>0, <1>1, Zenon DEF Parse
  <2> QED  BY <2>1, ReadChat, Zenon
<1>2. CASE provider # "local"
  <2>1. Parse(items) = ParseResponses(items)
    BY <1>0, <1>2, Zenon DEF Parse, ParseMessage, ParseDone, Providers
  <2> QED  BY <2>1, ReadResponses, Zenon
<1> QED  BY <1>1, <1>2, Zenon

\* A message of the conversation.
WireMessage == [role : {"user", "assistant"}, content : Seq(Block)]
\* An item of a request.
WireItem == [role : {"user", "assistant", "call", "tool"}, calls : Seq(Nat), output : Nat]

\* A user's message has no calls, an assistant's no results.
Proper(message) ==
    /\ message \in WireMessage
    /\ \A p \in DOMAIN message.content :
          LET b == message.content[p] IN
          /\ b.kind = "use" => message.role = "assistant" /\ b.id > 0
          /\ b.kind = "result" => message.role = "user" /\ b.id > 0

\* The wire form w of a message is made of items; one of a user's message holds no
\* call, one of an assistant's no result, ...
Carries(w, message) ==
    /\ w \in Seq(WireItem)
    /\ message.role = "user" => \A j \in 1..Len(w) : w[j].calls = <<>>
    /\ message.role = "assistant" => \A j \in 1..Len(w) : w[j].output = 0 /\ w[j].role # "user"

\* The j-th item holds the call.
HasCall(w, j, id) == id \in Range(w[j].calls)

\* ... a call that is in one block is in one item, ...
CallsOnce(w, content) ==
    \A id \in Nat, p \in 1..Len(content) :
       (/\ id > 0 /\ content[p] = Use(id)
        /\ \A r \in 1..Len(content) : content[r] = Use(id) => r = p) =>
          \E c \in 1..Len(w) :
             HasCall(w, c, id) /\ \A j \in 1..Len(w) : HasCall(w, j, id) => j = c

\* The result of a call is in the q-th block and no other, and only results come
\* before it.
Lone(content, id, q) ==
    /\ content[q] = ResultOf(id)
    /\ \A r \in 1..Len(content) : content[r] = ResultOf(id) => r = q
    /\ \A r \in 1..(q - 1) : content[r].kind = "result"
\* The a-th item has the output of the call, and no other, and no user's text
\* comes before it.
AnswerAt(w, id, a) ==
    /\ w[a].output = id
    /\ \A j \in 1..Len(w) : w[j].output = id => j = a
    /\ \A j \in 1..(a - 1) : w[j].role # "user"
\* ... a result in one block is in one item, before any text if it was so, ...
ResultsOnce(w, content) ==
    \A id \in Nat, q \in 1..Len(content) :
       id > 0 /\ Lone(content, id, q) => \E a \in 1..Len(w) : AnswerAt(w, id, a)

\* ... and no item has a call or a result that is not in a block.
Honest(w, content) ==
    \A id \in Nat, j \in 1..Len(w) :
       /\ HasCall(w, j, id) => \E p \in 1..Len(content) : content[p] = Use(id)
       /\ id > 0 /\ w[j].output = id => \E p \in 1..Len(content) : content[p] = ResultOf(id)

\* The fields of an item.
LEMMA AnItem ==
    ASSUME NEW role \in {"user", "assistant", "call", "tool"}, NEW ids \in Seq(Nat),
           NEW out \in Nat
    PROVE  /\ Item(role, ids, out) \in WireItem
           /\ Item(role, ids, out).role = role
           /\ Item(role, ids, out).calls = ids
           /\ Item(role, ids, out).output = out
  BY Zenon DEF Item, WireItem

\* A block is a text, a call or a result, and the latter are known by their id.
LEMMA ABlock ==
    ASSUME NEW b \in Block
    PROVE  /\ b.kind = "use" <=> b = Use(b.id)
           /\ b.kind = "result" <=> b = ResultOf(b.id)
           /\ b.kind \in {"text", "use", "result"} /\ b.id \in Nat
<1>1. b = [kind |-> b.kind, id |-> b.id] /\ b.kind \in {"text", "use", "result"} /\ b.id \in Nat
  BY Zenon DEF Block
<1>2. Use(b.id).kind = "use" /\ ResultOf(b.id).kind = "result"
  BY Zenon DEF Use, ResultOf
<1>3. b.kind = "use" => b = Use(b.id)
  BY <1>1, Zenon DEF Use
<1>4. b.kind = "result" => b = ResultOf(b.id)
  BY <1>1, Zenon DEF ResultOf
<1> QED  BY <1>1, <1>2, <1>3, <1>4, Zenon

\* The fields of a call and of a result.
LEMMA BlockParts ==
    ASSUME NEW n
    PROVE  Use(n).kind = "use" /\ Use(n).id = n /\ ResultOf(n).kind = "result" /\
           ResultOf(n).id = n
  BY Zenon DEF Use, ResultOf

\* The calls of an item with none or one.
LEMMA RangeOfCalls ==
    /\ Range(<<>>) = {}
    /\ \A n : Range(<<n>>) = {n}
  BY DEF Range

\* One item per block, as build_input and message_to_wire make them.
PerBlock(w, message, callRole) ==
    /\ Len(w) = Len(message.content) /\ DOMAIN w = 1..Len(w)
    /\ w = [j \in 1..Len(w) |-> w[j]]
    /\ \A j \in 1..Len(w) :
          LET b == message.content[j] IN
          /\ b.kind = "text" => w[j] = Item(message.role, <<>>, 0)
          /\ b.kind = "use" => w[j] = Item(callRole, <<b.id>>, 0)
          /\ b.kind = "result" => w[j] = Item("tool", <<>>, b.id)

\* The Anthropic, Realtime and Responses forms have one item per block.
LEMMA PerBlockForms ==
    ASSUME NEW message, Proper(message)
    PROVE  /\ PerBlock(MessageToWire(message), message, message.role)
           /\ PerBlock(BuildInput(message), message, "call")
<1>1. message.content \in Seq(Block)
  BY Zenon DEF Proper, WireMessage
<1>2. DOMAIN message.content = 1..Len(message.content) /\ Len(message.content) \in Nat
  BY <1>1
<1>3. "text" # "use" /\ "text" # "result" /\ "use" # "result"
  BY Zenon
<1>4. PerBlock(MessageToWire(message), message, message.role)
  <2> DEFINE el(j) == LET b == message.content[j] IN
                      CASE b.kind = "text" -> Item(message.role, <<>>, 0)
                        [] b.kind = "use" -> Item(message.role, <<b.id>>, 0)
                        [] b.kind = "result" -> Item("tool", <<>>, b.id)
             w == [j \in 1..Len(message.content) |-> el(j)]
  <2>1. MessageToWire(message) = w
    BY <1>2, Zenon DEF MessageToWire
  <2>2. ASSUME NEW j \in 1..Len(message.content)
        PROVE  LET b == message.content[j] IN
               /\ b.kind = "text" => el(j) = Item(message.role, <<>>, 0)
               /\ b.kind = "use" => el(j) = Item(message.role, <<b.id>>, 0)
               /\ b.kind = "result" => el(j) = Item("tool", <<>>, b.id)
    BY <1>3, Zenon
  <2> HIDE DEF el
  <2>3. /\ DOMAIN w = 1..Len(message.content) /\ Len(w) = Len(message.content)
        /\ w = [j \in 1..Len(w) |-> w[j]]
    BY <1>2
  <2>4. \A j \in 1..Len(message.content) : w[j] = el(j)
    BY Zenon
  <2> HIDE DEF w
  <2>5. PerBlock(w, message, message.role)
    BY <2>2, <2>3, <2>4, Zenon DEF PerBlock
  <2> QED  BY <2>1, <2>5, Zenon
<1>5. PerBlock(BuildInput(message), message, "call")
  <2> DEFINE el(j) == LET b == message.content[j] IN
                      CASE b.kind = "text" -> Item(message.role, <<>>, 0)
                        [] b.kind = "use" -> Item("call", <<b.id>>, 0)
                        [] b.kind = "result" -> Item("tool", <<>>, b.id)
             w == [j \in 1..Len(message.content) |-> el(j)]
  <2>1. BuildInput(message) = w
    BY <1>2, Zenon DEF BuildInput
  <2>2. ASSUME NEW j \in 1..Len(message.content)
        PROVE  LET b == message.content[j] IN
               /\ b.kind = "text" => el(j) = Item(message.role, <<>>, 0)
               /\ b.kind = "use" => el(j) = Item("call", <<b.id>>, 0)
               /\ b.kind = "result" => el(j) = Item("tool", <<>>, b.id)
    BY <1>3, Zenon
  <2> HIDE DEF el
  <2>3. /\ DOMAIN w = 1..Len(message.content) /\ Len(w) = Len(message.content)
        /\ w = [j \in 1..Len(w) |-> w[j]]
    BY <1>2
  <2>4. \A j \in 1..Len(message.content) : w[j] = el(j)
    BY Zenon
  <2> HIDE DEF w
  <2>5. PerBlock(w, message, "call")
    BY <2>2, <2>3, <2>4, Zenon DEF PerBlock
  <2> QED  BY <2>1, <2>5, Zenon
<1> QED  BY <1>4, <1>5, Zenon

\* What one item says of the block it stands for.
Tallies(item, b, role) ==
    /\ item \in WireItem
    /\ \A id \in Nat : id \in Range(item.calls) <=> b = Use(id)
    /\ \A id \in Nat : id > 0 => (item.output = id <=> b = ResultOf(id))
    /\ item.role = "user" => b.kind = "text" /\ role = "user"
    /\ role = "user" => item.calls = <<>>
    /\ role = "assistant" => item.output = 0

\* A call, or a result, is told by its kind and id.
LEMMA UseOrResult ==
    ASSUME NEW b \in Block, NEW id
    PROVE  /\ b = Use(id) <=> b.kind = "use" /\ b.id = id
           /\ b = ResultOf(id) <=> b.kind = "result" /\ b.id = id
<1>1. b = [kind |-> b.kind, id |-> b.id]
  BY Zenon DEF Block
<1> QED  BY <1>1 DEF Use, ResultOf

\* The fields of an item, given that it is one.
LEMMA ItemParts ==
    ASSUME NEW item, NEW role \in {"user", "assistant", "call", "tool"}, NEW ids \in Seq(Nat),
           NEW out \in Nat, item = Item(role, ids, out)
    PROVE  item \in WireItem /\ item.role = role /\ item.calls = ids /\ item.output = out
  BY AnItem

\* An item per block says of its block what it should.
LEMMA ItemTallies ==
    ASSUME NEW message, Proper(message), NEW w, NEW callRole \in {message.role, "call"},
           PerBlock(w, message, callRole), NEW j \in 1..Len(w)
    PROVE  Tallies(w[j], message.content[j], message.role)
<1> DEFINE b == message.content[j]
           role == message.role
<1>1. message.content \in Seq(Block) /\ role \in {"user", "assistant"} /\
      j \in DOMAIN message.content
  BY DEF Proper, WireMessage, PerBlock
<1>2. /\ b \in Block /\ b.kind \in {"text", "use", "result"} /\ b.id \in Nat
      /\ b.kind = "use" => role = "assistant" /\ b.id > 0
      /\ b.kind = "result" => role = "user" /\ b.id > 0
  <2>1. b \in Block
    BY <1>1
  <2> QED  BY <1>1, <2>1, Zenon DEF Proper, Block, ABlock
<1>3. /\ b.kind = "text" => w[j] = Item(role, <<>>, 0)
      /\ b.kind = "use" => w[j] = Item(callRole, <<b.id>>, 0)
      /\ b.kind = "result" => w[j] = Item("tool", <<>>, b.id)
  BY Zenon DEF PerBlock
<1> HIDE DEF b, role
<1>4. \A id : (b = Use(id) <=> b.kind = "use" /\ b.id = id)
  BY <1>2, UseOrResult, Zenon
<1>5. \A id : (b = ResultOf(id) <=> b.kind = "result" /\ b.id = id)
  BY <1>2, UseOrResult, Zenon
<1>6. PICK none, one : none = <<>> /\ none \in Seq(Nat) /\ one = <<b.id>> /\ one \in Seq(Nat)
  <2>1. <<>> \in Seq(Nat) /\ <<b.id>> \in Seq(Nat)
    BY <1>2
  <2> QED  BY <2>1, Zenon
<1>a. none \in Seq(Nat) /\ one \in Seq(Nat)
  BY <1>6, Zenon
<1>7. callRole \in {"user", "assistant", "call", "tool"} /\ callRole \in {role, "call"}
  BY <1>1, Zenon DEF role
<1>8. "tool" # "user" /\ "call" # "user" /\ "assistant" # "user" /\ "text" # "use" /\
      "text" # "result" /\ "use" # "result"
  BY Zenon
<1>9. CASE b.kind = "text"
  <2>1. w[j] \in WireItem /\ w[j].role = role /\ w[j].calls = <<>> /\ w[j].output = 0
    <3>1. w[j] = Item(role, none, 0) /\ role \in {"user", "assistant", "call", "tool"} /\
          0 \in Nat
      BY <1>1, <1>3, <1>6, <1>9, Zenon DEF role
    <3>2. w[j] \in WireItem /\ w[j].role = role /\ w[j].calls = none /\ w[j].output = 0
      BY <1>a, <3>1, ItemParts
    <3> QED  BY <1>6, <3>2, Zenon
  <2>2. Range(w[j].calls) = {}
    BY <2>1, RangeOfCalls, Zenon
  <2> QED  BY <1>4, <1>5, <1>8, <1>9, <2>1, <2>2 DEF Tallies, b, role
<1>10. CASE b.kind = "use"
  <2>1. w[j] \in WireItem /\ w[j].role = callRole /\ w[j].calls = <<b.id>> /\ w[j].output = 0
    <3>1. w[j] = Item(callRole, one, 0) /\ 0 \in Nat
      BY <1>3, <1>6, <1>10, Zenon
    <3>2. w[j] \in WireItem /\ w[j].role = callRole /\ w[j].calls = one /\ w[j].output = 0
      BY <1>a, <1>7, <3>1, ItemParts
    <3> QED  BY <1>6, <3>2, Zenon
  <2>2. Range(w[j].calls) = {b.id}
    BY <2>1, RangeOfCalls, Zenon
  <2>3. w[j].role # "user" /\ role = "assistant"
    BY <1>2, <1>7, <1>8, <1>10, <2>1, Zenon
  <2> QED  BY <1>4, <1>5, <1>8, <1>10, <2>1, <2>2, <2>3, SMTT(30) DEF Tallies, b, role
<1>11. CASE b.kind = "result"
  <2>1. w[j] \in WireItem /\ w[j].role = "tool" /\ w[j].calls = <<>> /\ w[j].output = b.id
    <3>1. w[j] = Item("tool", none, b.id) /\ "tool" \in {"user", "assistant", "call", "tool"}
      BY <1>3, <1>6, <1>11, Zenon
    <3>2. w[j] \in WireItem /\ w[j].role = "tool" /\ w[j].calls = none /\ w[j].output = b.id
      BY <1>2, <1>a, <3>1, ItemParts
    <3> QED  BY <1>6, <3>2, Zenon
  <2>2. Range(w[j].calls) = {}
    BY <2>1, RangeOfCalls, Zenon
  <2>3. role = "user"
    BY <1>2, <1>11, Zenon
  <2> QED  BY <1>4, <1>5, <1>8, <1>11, <2>1, <2>2, <2>3, Zenon DEF Tallies, b, role
<1> QED  BY <1>2, <1>9, <1>10, <1>11, Zenon

\* So the forms with an item per block keep what the message says.
LEMMA BlockByBlock ==
    ASSUME NEW message, Proper(message), NEW w, NEW callRole \in {message.role, "call"},
           PerBlock(w, message, callRole)
    PROVE  /\ Carries(w, message) /\ CallsOnce(w, message.content)
           /\ ResultsOnce(w, message.content) /\ Honest(w, message.content)
<1> DEFINE content == message.content
<1>1. /\ content \in Seq(Block) /\ message.role \in {"user", "assistant"}
      /\ Len(w) = Len(content) /\ Len(content) \in Nat /\ DOMAIN w = 1..Len(w)
  BY DEF Proper, WireMessage, PerBlock
<1>2. \A j \in 1..Len(w) : Tallies(w[j], content[j], message.role)
  BY ItemTallies, Zenon
<1> HIDE DEF content
<1>3. \A j \in 1..Len(w), id \in Nat : HasCall(w, j, id) <=> content[j] = Use(id)
  BY <1>2, Zenon DEF Tallies, HasCall
<1>4. \A j \in 1..Len(w), id \in Nat : id > 0 => (w[j].output = id <=> content[j] = ResultOf(id))
  BY <1>2, Zenon DEF Tallies
<1>5. \A j \in 1..Len(w) : w[j] \in WireItem
  BY <1>2, Zenon DEF Tallies
<1>6. \A j \in 1..Len(w) : w[j].role = "user" => content[j].kind = "text" /\ message.role = "user"
  BY <1>2, Zenon DEF Tallies
<1>7. \A j \in 1..Len(w) : message.role = "user" => w[j].calls = <<>>
  BY <1>2, Zenon DEF Tallies
<1>8. \A j \in 1..Len(w) : message.role = "assistant" => w[j].output = 0
  BY <1>2, Zenon DEF Tallies
<1>9. w \in Seq(WireItem)
  <2>1. PICK v : v = [j \in 1..Len(w) |-> w[j]]
    BY Zenon
  <2>2. v \in Seq(WireItem)
    BY <1>1, <1>5, <2>1
  <2>3. v = w
    BY <1>1, <2>1, Zenon DEF PerBlock
  <2> QED  BY <2>2, <2>3, Zenon
<1>10. Carries(w, message)
  <2>1. "user" # "assistant"
    BY Zenon
  <2> QED  BY <1>6, <1>7, <1>8, <1>9, <2>1, Zenon DEF Carries
<1>11. CallsOnce(w, content)
  BY <1>1, <1>3, Zenon DEF CallsOnce
<1>12. ResultsOnce(w, content)
  <2> SUFFICES ASSUME NEW id \in Nat, NEW q \in 1..Len(content), id > 0,
                      content[q] = ResultOf(id),
                      \A r \in 1..Len(content) : content[r] = ResultOf(id) => r = q,
                      \A r \in 1..(q - 1) : content[r].kind = "result"
               PROVE  \E a \in 1..Len(w) :
                        /\ w[a].output = id /\ \A j \in 1..Len(w) : w[j].output = id => j = a
                        /\ \A j \in 1..(a - 1) : w[j].role # "user"
    BY Zenon DEF ResultsOnce, Lone, AnswerAt
  <2>1. w[q].output = id /\ \A j \in 1..Len(w) : w[j].output = id => j = q
    BY <1>1, <1>4
  <2>2. ASSUME NEW j \in 1..(q - 1) PROVE w[j].role # "user"
    <3>1. j \in 1..Len(w)
      BY <1>1
    <3>2. content[j].kind # "text"
      BY Zenon
    <3> QED  BY <1>6, <3>1, <3>2, Zenon
  <2> QED  BY <1>1, <2>1, <2>2, Zenon
<1>13. Honest(w, content)
  BY <1>1, <1>3, <1>4, Zenon DEF Honest
<1> QED  BY <1>10, <1>11, <1>12, <1>13, Zenon DEF content

\* A selected block is a block of its kind in the content.
LEMMA SelectedBlock ==
    ASSUME NEW content \in Seq(Block), NEW kind, NEW sel,
           NEW pos, Places(pos, kind, sel, content),
           NEW k \in 1..Len(sel)
    PROVE  /\ pos[k] \in 1..Len(content) /\ sel[k] = content[pos[k]] /\ sel[k] \in Block
           /\ sel[k].kind = kind /\ sel[k].id \in Nat
<1>1. pos[k] \in 1..Len(content) /\ sel[k] = content[pos[k]] /\ sel[k].kind = kind
  BY Zenon DEF Places
<1>2. sel[k] \in Block
  BY <1>1
<1> QED  BY <1>1, <1>2, Zenon DEF Block

\* local.rs, a user's message: the results, then the texts as one.
ToolsThenText(w, replies) ==
    /\ w \in Seq(WireItem) /\ Len(w) \in {Len(replies), Len(replies) + 1}
    /\ \A j \in 1..Len(replies) :
          w[j].role = "tool" /\ w[j].calls = <<>> /\ w[j].output = replies[j].id
    /\ Len(w) = Len(replies) + 1 =>
          w[Len(w)].role = "user" /\ w[Len(w)].calls = <<>> /\ w[Len(w)].output = 0

\* One more element, by concatenation.
LEMMA ConcatParts ==
    ASSUME NEW C, NEW s \in Seq(C), NEW e \in C
    PROVE  /\ s \o <<e>> \in Seq(C) /\ Len(s \o <<e>>) = Len(s) + 1 /\ Len(s) \in Nat
           /\ \A i \in 1..Len(s) : (s \o <<e>>)[i] = s[i]
           /\ (s \o <<e>>)[Len(s) + 1] = e
  OBVIOUS

\* user_messages of local.rs makes that form.
LEMMA UserForm ==
    ASSUME NEW content \in Seq(Block), NEW replies, replies = Only("result", content)
    PROVE  ToolsThenText(UserMessages(content), replies)
<1>1. replies \in Seq(Block) /\ Len(replies) \in Nat /\ DOMAIN replies = 1..Len(replies)
  BY OnlyTyped
<1> DEFINE el(i) == Item("tool", <<>>, replies[i].id)
           tools == [i \in DOMAIN replies |-> el(i)]
           user == Item("user", <<>>, 0)
           text == IF Only("text", content) = <<>> THEN <<>> ELSE <<user>>
<1>2. UserMessages(content) = tools \o text
  BY Zenon DEF UserMessages
<1>3. PICK none : none = <<>> /\ none \in Seq(Nat)
  <2>1. <<>> \in Seq(Nat)
    OBVIOUS
  <2> QED  BY <2>1, Zenon
<1>4. none \in Seq(Nat)
  BY <1>3, Zenon
<1>5. ASSUME NEW i \in 1..Len(replies)
      PROVE  el(i) \in WireItem /\ el(i).role = "tool" /\ el(i).calls = <<>> /\
             el(i).output = replies[i].id
  <2>1. replies[i].id \in Nat
    <3>1. replies[i] \in Block
      BY <1>1
    <3> QED  BY <3>1, Zenon DEF Block
  <2>2. el(i) = Item("tool", none, replies[i].id)
    BY <1>3, Zenon
  <2> HIDE DEF el
  <2>3. el(i) \in WireItem /\ el(i).role = "tool" /\ el(i).calls = none /\
        el(i).output = replies[i].id
    BY <1>4, <2>1, <2>2, ItemParts
  <2> QED  BY <1>3, <2>3, Zenon
<1>6. user \in WireItem /\ user.role = "user" /\ user.calls = <<>> /\ user.output = 0
  <2>1. user = Item("user", none, 0)
    BY <1>3, Zenon
  <2> HIDE DEF user
  <2>2. user \in WireItem /\ user.role = "user" /\ user.calls = none /\ user.output = 0
    BY <1>4, <2>1, ItemParts
  <2> QED  BY <1>3, <2>2, Zenon
<1> HIDE DEF el, user
<1>7. tools \in Seq(WireItem) /\ Len(tools) = Len(replies) /\
      \A i \in 1..Len(replies) : tools[i] = el(i)
  BY <1>1, <1>5
<1> HIDE DEF tools
<1>8. CASE Only("text", content) = <<>>
  <2>1. UserMessages(content) = tools
    BY <1>2, <1>7, <1>8
  <2> QED  BY <1>1, <1>5, <1>7, <2>1 DEF ToolsThenText
<1>9. CASE Only("text", content) # <<>>
  <2>1. PICK w : w = tools \o <<user>>
    BY Zenon
  <2>2. UserMessages(content) = w
    BY <1>2, <1>9, <2>1, Zenon
  <2>3. /\ w \in Seq(WireItem) /\ Len(w) = Len(replies) + 1
        /\ \A i \in 1..Len(replies) : w[i] = el(i)
        /\ w[Len(replies) + 1] = user
    BY <1>6, <1>7, <2>1, ConcatParts
  <2>4. ToolsThenText(w, replies)
    BY <1>1, <1>5, <1>6, <2>3 DEF ToolsThenText
  <2> QED  BY <2>2, <2>4, Zenon
<1> QED  BY <1>8, <1>9, Zenon

\* It keeps what a user's message says, the results before the text.
LEMMA UserKeeps ==
    ASSUME NEW message, Proper(message), message.role = "user", NEW w, NEW replies,
           replies = Only("result", message.content), ToolsThenText(w, replies)
    PROVE  /\ Carries(w, message) /\ CallsOnce(w, message.content)
           /\ ResultsOnce(w, message.content) /\ Honest(w, message.content)
<1> DEFINE content == message.content
<1>1. content \in Seq(Block) /\ Len(content) \in Nat
  BY DEF Proper, WireMessage
<1>2. PICK pos : Places(pos, "result", replies, content)
  BY <1>1, OnlyPlaces, Zenon
<1>3. replies \in Seq(Block) /\ Len(replies) \in Nat
  BY <1>1, OnlyTyped
<1>4. w \in Seq(WireItem) /\ Len(w) \in Nat /\ Len(w) <= Len(replies) + 1 /\
      Len(replies) <= Len(w)
  BY <1>3 DEF ToolsThenText
<1>5. \A j \in 1..Len(w) : w[j].calls = <<>>
  BY <1>3, <1>4 DEF ToolsThenText
<1>6. ASSUME NEW j \in 1..Len(w), NEW id \in Nat PROVE ~HasCall(w, j, id)
  BY <1>5, RangeOfCalls, Zenon DEF HasCall
<1>7. ASSUME NEW p \in 1..Len(content), NEW id PROVE content[p] # Use(id)
  <2>1. p \in DOMAIN content /\ "user" # "assistant"
    BY <1>1
  <2>2. content[p].kind # "use"
    BY <2>1, Zenon DEF Proper
  <2> QED  BY <2>2, BlockParts
<1>8. ASSUME NEW j \in 1..Len(w), NEW id \in Nat, id > 0, w[j].output = id
      PROVE  j \in 1..Len(replies) /\ pos[j] \in 1..Len(content) /\ content[pos[j]] = ResultOf(id)
  <2>1. j \in 1..Len(replies)
    BY <1>3, <1>4, <1>8 DEF ToolsThenText
  <2>2. replies[j].id = id
    BY <1>8, <2>1, Zenon DEF ToolsThenText
  <2>3. /\ pos[j] \in 1..Len(content) /\ replies[j] = content[pos[j]] /\ replies[j] \in Block
        /\ replies[j].kind = "result"
    BY <1>1, <1>2, <2>1, SelectedBlock
  <2>4. replies[j] = ResultOf(id)
    BY <2>2, <2>3, UseOrResult
  <2> QED  BY <2>1, <2>3, <2>4, Zenon
<1>9. Carries(w, message)
  BY <1>4, <1>5, Zenon DEF Carries
<1>10. CallsOnce(w, content)
  BY <1>7, Zenon DEF CallsOnce
<1>11. Honest(w, content)
  BY <1>6, <1>8, Zenon DEF Honest
<1>12. ResultsOnce(w, content)
  <2> SUFFICES ASSUME NEW id \in Nat, NEW q \in 1..Len(content), id > 0,
                      content[q] = ResultOf(id),
                      \A r \in 1..Len(content) : content[r] = ResultOf(id) => r = q
               PROVE  \E a \in 1..Len(w) :
                        /\ w[a].output = id /\ \A j \in 1..Len(w) : w[j].output = id => j = a
                        /\ \A j \in 1..(a - 1) : w[j].role # "user"
    BY Zenon DEF ResultsOnce, Lone, AnswerAt
  <2>1. content[q].kind = "result" /\ content[q].id = id
    BY BlockParts
  <2>2. PICK a \in 1..Len(replies) : pos[a] = q
    BY <1>2, <2>1, Zenon DEF Places
  <2>3. replies[a] = content[q]
    BY <1>2, <2>2, Zenon DEF Places
  <2>4. a \in 1..Len(w) /\ w[a].output = id
    BY <1>3, <1>4, <2>1, <2>2, <2>3, SMTT(30) DEF ToolsThenText
  <2>5. ASSUME NEW j \in 1..Len(w), w[j].output = id PROVE j = a
    <3>1. j \in 1..Len(replies) /\ pos[j] = q
      BY <1>8, <2>5, Zenon
    <3>2. ~(j < a) /\ ~(a < j)
      <4>1. pos[j] \in 1..Len(content)
        BY <3>1, Zenon
      <4> QED  BY <1>2, <2>2, <3>1, <4>1 DEF Places
    <3> QED  BY <1>3, <2>2, <3>1, <3>2
  <2>6. ASSUME NEW j \in 1..(a - 1) PROVE w[j].role # "user"
    <3>1. j \in 1..Len(replies)
      BY <1>3, <2>2
    <3> QED  BY <3>1, Zenon DEF ToolsThenText
  <2> QED  BY <2>4, <2>5, <2>6, Zenon
<1> QED  BY <1>9, <1>10, <1>11, <1>12, Zenon

\* local.rs, an assistant's message: one message with all the calls.
OneWithCalls(w, uses) ==
    /\ w \in Seq(WireItem) /\ Len(w) = 1
    /\ w[1].role = "assistant" /\ w[1].output = 0
    /\ \A id : id \in Range(w[1].calls) <=> \E i \in 1..Len(uses) : uses[i].id = id

\* assistant_message of local.rs makes that form.
LEMMA AssistantForm ==
    ASSUME NEW content \in Seq(Block), NEW uses, uses = Only("use", content)
    PROVE  OneWithCalls(AssistantMessage(content), uses)
<1>1. uses \in Seq(Block) /\ Len(uses) \in Nat /\ DOMAIN uses = 1..Len(uses)
  BY OnlyTyped
<1> DEFINE el(i) == uses[i].id
           ids == [i \in DOMAIN uses |-> el(i)]
           item == Item("assistant", ids, 0)
<1>2. AssistantMessage(content) = <<item>>
  BY Zenon DEF AssistantMessage
<1>3. ASSUME NEW i \in 1..Len(uses) PROVE el(i) \in Nat
  <2>1. uses[i] \in Block
    BY <1>1
  <2> QED  BY <2>1, Zenon DEF Block
<1>4. ids \in Seq(Nat)
  <2> HIDE DEF el
  <2> QED  BY <1>1, <1>3
<1>5. \A id : id \in Range(ids) <=> \E i \in 1..Len(uses) : uses[i].id = id
  BY <1>1, Zenon DEF Range
<1> HIDE DEF ids
<1>6. item \in WireItem /\ item.role = "assistant" /\ item.calls = ids /\ item.output = 0
  BY <1>4, ItemParts, Zenon
<1> HIDE DEF item
<1>7. <<item>> \in Seq(WireItem) /\ Len(<<item>>) = 1 /\ <<item>>[1] = item
  BY <1>6
<1>8. PICK w : w = <<item>>
  BY Zenon
<1>9. OneWithCalls(w, uses)
  <2>1. w \in Seq(WireItem) /\ Len(w) = 1 /\ w[1] = item
    BY <1>7, <1>8, Zenon
  <2> QED  BY <1>5, <1>6, <2>1, Zenon DEF OneWithCalls
<1> QED  BY <1>2, <1>8, <1>9, Zenon

\* It keeps what an assistant's message says.
LEMMA AssistantKeeps ==
    ASSUME NEW message, Proper(message), message.role = "assistant", NEW w, NEW uses,
           uses = Only("use", message.content), OneWithCalls(w, uses)
    PROVE  /\ Carries(w, message) /\ CallsOnce(w, message.content)
           /\ ResultsOnce(w, message.content) /\ Honest(w, message.content)
<1> DEFINE content == message.content
<1>1. content \in Seq(Block) /\ Len(content) \in Nat
  BY DEF Proper, WireMessage
<1>2. PICK pos : Places(pos, "use", uses, content)
  BY <1>1, OnlyPlaces, Zenon
<1>3. w \in Seq(WireItem) /\ Len(w) = 1 /\ \A j \in 1..Len(w) : j = 1
  BY DEF OneWithCalls
<1>4. ASSUME NEW id \in Nat
      PROVE  HasCall(w, 1, id) <=> \E p \in 1..Len(content) : content[p] = Use(id)
  <2>1. ASSUME HasCall(w, 1, id) PROVE \E p \in 1..Len(content) : content[p] = Use(id)
    <3>1. PICK i \in 1..Len(uses) : uses[i].id = id
      BY <2>1, Zenon DEF HasCall, OneWithCalls
    <3>2. /\ pos[i] \in 1..Len(content) /\ uses[i] = content[pos[i]] /\ uses[i] \in Block
          /\ uses[i].kind = "use"
      BY <1>1, <1>2, <3>1, SelectedBlock
    <3>3. uses[i] = Use(id)
      BY <3>1, <3>2, UseOrResult, Zenon
    <3> QED  BY <3>2, <3>3, Zenon
  <2>2. ASSUME NEW p \in 1..Len(content), content[p] = Use(id) PROVE HasCall(w, 1, id)
    <3>1. content[p].kind = "use" /\ content[p].id = id
      BY <2>2, BlockParts
    <3>2. PICK k \in 1..Len(uses) : pos[k] = p
      BY <1>2, <3>1, Zenon DEF Places
    <3>3. uses[k].id = id
      BY <1>2, <3>1, <3>2, Zenon DEF Places
    <3> QED  BY <3>2, <3>3, Zenon DEF HasCall, OneWithCalls
  <2> QED  BY <2>1, <2>2, Zenon
<1>5. ASSUME NEW p \in 1..Len(content), NEW id PROVE content[p] # ResultOf(id)
  <2>1. p \in DOMAIN content /\ "user" # "assistant"
    BY <1>1
  <2>2. content[p].kind # "result"
    BY <2>1, Zenon DEF Proper
  <2> QED  BY <2>2, BlockParts
<1>6. \A j \in 1..Len(w) : w[j].output = 0 /\ w[j].role # "user"
  BY <1>3, Zenon DEF OneWithCalls
<1>7. Carries(w, message)
  BY <1>3, <1>6, Zenon DEF Carries
<1>8. CallsOnce(w, content)
  <2>1. 1 \in 1..Len(w)
    BY <1>3
  <2> QED  BY <1>3, <1>4, <2>1, Zenon DEF CallsOnce
<1>9. ResultsOnce(w, content)
  BY <1>5, Zenon DEF ResultsOnce, Lone
<1>10. Honest(w, content)
  BY <1>3, <1>4, <1>6 DEF Honest
<1> QED  BY <1>7, <1>8, <1>9, <1>10, Zenon

\* Whatever the backend, the wire form keeps what a message says.
LEMMA WireKeeps ==
    ASSUME provider \in Providers, NEW message, Proper(message)
    PROVE  /\ Carries(ToWire(message), message) /\ CallsOnce(ToWire(message), message.content)
           /\ ResultsOnce(ToWire(message), message.content)
           /\ Honest(ToWire(message), message.content)
<1>0. /\ "anthropic" # "responses" /\ "anthropic" # "realtime" /\ "anthropic" # "local"
      /\ "responses" # "realtime" /\ "responses" # "local" /\ "realtime" # "local"
  BY Zenon
<1>1. CASE provider = "local"
  <2>1. ToWire(message) = AppendMessage(message)
    BY <1>0, <1>1, Zenon DEF ToWire
  <2>2. message.content \in Seq(Block) /\ message.role \in {"user", "assistant"}
    BY Zenon DEF Proper, WireMessage
  <2>3. CASE message.role = "user"
    <3>1. ToWire(message) = UserMessages(message.content)
      BY <2>1, <2>3, Zenon DEF AppendMessage
    <3>2. ToolsThenText(ToWire(message), Only("result", message.content))
      BY <2>2, <3>1, UserForm, Zenon
    <3> QED  BY <2>3, <3>2, UserKeeps, Zenon
  <2>4. CASE message.role = "assistant"
    <3>1. ToWire(message) = AssistantMessage(message.content)
      <4>1. "assistant" # "user"
        BY Zenon
      <4> QED  BY <2>1, <2>4, <4>1, Zenon DEF AppendMessage
    <3>2. OneWithCalls(ToWire(message), Only("use", message.content))
      BY <2>2, <3>1, AssistantForm, Zenon
    <3> QED  BY <2>4, <3>2, AssistantKeeps, Zenon
  <2> QED  BY <2>2, <2>3, <2>4, Zenon
<1>2. CASE provider # "local"
  <2>1. \/ ToWire(message) = MessageToWire(message)
        \/ ToWire(message) = BuildInput(message)
    BY <1>0, <1>2, Zenon DEF ToWire, ConversationItems, Providers
  <2>2. \E role \in {message.role, "call"} : PerBlock(ToWire(message), message, role)
    BY <2>1, PerBlockForms, Zenon
  <2> QED  BY <2>2, BlockByBlock, Zenon
<1> QED  BY <1>1, <1>2, Zenon

\* The wire forms of the first n messages of s, and where each begins.
Chunks(f, s, n) ==
    /\ \A m \in 0..n : f[m] \in Seq(WireItem)
    /\ f[0] = <<>>
    /\ \A m \in 1..n : ToWire(s[m]) \in Seq(WireItem) /\ f[m] = f[m - 1] \o ToWire(s[m])

\* The elements of a concatenation.
LEMMA ConcatFacts ==
    ASSUME NEW C, NEW s \in Seq(C), NEW t \in Seq(C)
    PROVE  /\ s \o t \in Seq(C) /\ Len(s \o t) = Len(s) + Len(t)
           /\ Len(s) \in Nat /\ Len(t) \in Nat
           /\ \A i \in 1..Len(s) : (s \o t)[i] = s[i]
           /\ \A i \in 1..Len(t) : (s \o t)[Len(s) + i] = t[i]
  OBVIOUS

\* The request is put together like that.
LEMMA SendsChunks ==
    ASSUME NEW f, NEW s, NEW n \in Nat, Sends(f, s, n),
           \A m \in 1..n : ToWire(s[m]) \in Seq(WireItem)
    PROVE  Chunks(f, s, n)
<1>1. \A m \in 0..n : f[m] = IF m = 0 THEN <<>> ELSE Sent(f[m - 1], s[m])
  BY Zenon DEF Sends
<1>2. f[0] = <<>>
  BY <1>1
<1>3. ASSUME NEW m \in 1..n PROVE f[m] = f[m - 1] \o ToWire(s[m])
  <2>1. m \in 0..n /\ m # 0
    OBVIOUS
  <2> QED  BY <1>1, <2>1, Zenon DEF Sent
<1> DEFINE S == {m \in Nat : m <= n => f[m] \in Seq(WireItem)}
<1>4. 0 \in S
  <2>1. f[0] \in Seq(WireItem)
    BY <1>2
  <2> QED  BY <2>1, Zenon
<1>5. ASSUME NEW m \in Nat, m \in S PROVE m + 1 \in S
  <2> SUFFICES ASSUME m + 1 <= n PROVE f[m + 1] \in Seq(WireItem)
    OBVIOUS
  <2>1. m + 1 \in 1..n /\ (m + 1) - 1 = m /\ m <= n
    OBVIOUS
  <2>2. f[m] \in Seq(WireItem)
    BY <1>5, <2>1, Zenon
  <2>3. f[m + 1] = f[m] \o ToWire(s[m + 1])
    BY <1>3, <2>1, Zenon
  <2>4. ToWire(s[m + 1]) \in Seq(WireItem)
    BY <2>1, Zenon
  <2> QED  BY <2>2, <2>3, <2>4, ConcatFacts, Zenon
<1>6. Nat \subseteq S
  <2> HIDE DEF S
  <2> QED  BY <1>4, <1>5, CountingUp, Zenon
<1>7. \A m \in 0..n : f[m] \in Seq(WireItem)
  BY <1>6
<1> QED  BY <1>2, <1>3, <1>7, Zenon DEF Chunks

\* The m-th message adds as many items as it has.
Longer(f, s, m) ==
    /\ Len(f[m]) = Len(f[m - 1]) + Len(ToWire(s[m]))
    /\ Len(f[m]) \in Nat /\ Len(f[m - 1]) \in Nat /\ Len(ToWire(s[m])) \in Nat
\* It adds them after the others.
Adds(f, s, m) ==
    /\ \A i \in 1..Len(f[m - 1]) : f[m][i] = f[m - 1][i]
    /\ \A j \in 1..Len(ToWire(s[m])) : f[m][Len(f[m - 1]) + j] = ToWire(s[m])[j]

\* Every message does so.
LEMMA ChunkStep ==
    ASSUME NEW f, NEW s, NEW n \in Nat, Chunks(f, s, n), NEW m \in 1..n
    PROVE  Longer(f, s, m) /\ Adds(f, s, m)
<1>1. m \in 0..n /\ m - 1 \in 0..n
  OBVIOUS
<1>2. f[m - 1] \in Seq(WireItem) /\ f[m] \in Seq(WireItem) /\ ToWire(s[m]) \in Seq(WireItem)
  BY <1>1, Zenon DEF Chunks
<1>3. f[m] = f[m - 1] \o ToWire(s[m])
  BY Zenon DEF Chunks
<1>4. PICK a, b, c : a = f[m - 1] /\ b = ToWire(s[m]) /\ c = f[m]
  BY Zenon
<1>5. a \in Seq(WireItem) /\ b \in Seq(WireItem) /\ c = a \o b
  BY <1>2, <1>3, <1>4, Zenon
<1>6. /\ Len(c) = Len(a) + Len(b) /\ Len(a) \in Nat /\ Len(b) \in Nat /\ Len(c) \in Nat
      /\ \A i \in 1..Len(a) : c[i] = a[i]
      /\ \A i \in 1..Len(b) : c[Len(a) + i] = b[i]
  BY <1>5
<1> QED  BY <1>4, <1>6, Zenon DEF Longer, Adds

\* What is on the wire after m messages stays where it is.
LEMMA ChunksKept ==
    ASSUME NEW f, NEW s, NEW n \in Nat, Chunks(f, s, n), NEW m \in 0..n
    PROVE  \A k \in Nat : m + k <= n =>
              /\ Len(f[m]) <= Len(f[m + k]) /\ Len(f[m]) \in Nat /\ Len(f[m + k]) \in Nat
              /\ \A i \in 1..Len(f[m]) : f[m + k][i] = f[m][i]
<1> DEFINE Stays(k) ==
              /\ Len(f[m]) <= Len(f[m + k]) /\ Len(f[m]) \in Nat /\ Len(f[m + k]) \in Nat
              /\ \A i \in 1..Len(f[m]) : f[m + k][i] = f[m][i]
           S == {k \in Nat : m + k <= n => Stays(k)}
<1>1. 0 \in S
  <2>1. m + 0 = m
    OBVIOUS
  <2>2. f[m] \in Seq(WireItem)
    BY Zenon DEF Chunks
  <2>3. Len(f[m]) \in Nat /\ Len(f[m]) <= Len(f[m])
    BY <2>2
  <2> QED  BY <2>1, <2>3, Zenon
<1>2. ASSUME NEW k \in Nat, k \in S PROVE k + 1 \in S
  <2> SUFFICES ASSUME m + (k + 1) <= n PROVE Stays(k + 1)
    OBVIOUS
  <2> DEFINE x == m + (k + 1)
  <2>1. x \in 1..n /\ x - 1 = m + k /\ m + k <= n
    OBVIOUS
  <2>2. Stays(k)
    BY <1>2, <2>1, Zenon
  <2> HIDE DEF x
  <2>3. Longer(f, s, x) /\ Adds(f, s, x)
    BY <2>1, ChunkStep, Zenon
  <2>4. Len(f[m]) <= Len(f[x]) /\ Len(f[m]) \in Nat /\ Len(f[x]) \in Nat
    <3>1. Len(f[m]) <= Len(f[x - 1]) /\ Len(f[m]) \in Nat
      BY <2>1, <2>2, Zenon
    <3>2. PICK a, b, c, d : a = Len(f[m]) /\ b = Len(f[x - 1]) /\ c = Len(ToWire(s[x])) /\
               d = Len(f[x])
      BY Zenon
    <3>3. a \in Nat /\ b \in Nat /\ c \in Nat /\ d \in Nat /\ d = b + c /\ a <= b
      BY <2>3, <3>1, <3>2, Zenon DEF Longer
    <3>4. a <= d
      BY <3>3
    <3> QED  BY <3>2, <3>3, <3>4, Zenon
  <2>5. ASSUME NEW i \in 1..Len(f[m]) PROVE f[x][i] = f[m][i]
    <3>1. i \in 1..Len(f[x - 1])
      BY <2>1, <2>2
    <3>2. f[x][i] = f[x - 1][i]
      BY <2>3, <3>1, Zenon DEF Adds
    <3> QED  BY <2>1, <2>2, <3>2, Zenon
  <2> QED  BY <2>4, <2>5, Zenon DEF x
<1>3. Nat \subseteq S
  <2> HIDE DEF S
  <2> QED  BY <1>1, <1>2, CountingUp, Zenon
<1> QED  BY <1>3, Zenon

\* The same, up to a later message.
LEMMA ChunksLater ==
    ASSUME NEW f, NEW s, NEW n \in Nat, Chunks(f, s, n), NEW m \in 0..n, NEW x \in m..n
    PROVE  /\ Len(f[m]) <= Len(f[x]) /\ Len(f[m]) \in Nat /\ Len(f[x]) \in Nat
           /\ \A i \in 1..Len(f[m]) : f[x][i] = f[m][i]
<1>1. x - m \in Nat /\ m + (x - m) = x /\ x <= n
  OBVIOUS
<1>2. PICK k \in Nat : m + k = x /\ m + k <= n
  BY <1>1, Zenon
<1>3. /\ Len(f[m]) <= Len(f[m + k]) /\ Len(f[m]) \in Nat /\ Len(f[m + k]) \in Nat
      /\ \A i \in 1..Len(f[m]) : f[m + k][i] = f[m][i]
  BY <1>2, ChunksKept, Zenon
<1> QED  BY <1>2, <1>3, Zenon

\* Every item belongs to a message.
LEMMA ChunkOf ==
    ASSUME NEW f, NEW s, NEW n \in Nat, Chunks(f, s, n)
    PROVE  \A i \in 1..Len(f[n]) :
              \E m \in 1..n : \E j \in 1..Len(ToWire(s[m])) : i = Len(f[m - 1]) + j
<1> DEFINE Found(k) == \A i \in 1..Len(f[k]) :
                          \E m \in 1..k : \E j \in 1..Len(ToWire(s[m])) : i = Len(f[m - 1]) + j
           S == {k \in Nat : k <= n => Found(k)}
<1>1. 0 \in S
  <2>1. Len(f[0]) = 0
    BY DEF Chunks
  <2> QED  BY <2>1
<1>2. ASSUME NEW k \in Nat, k \in S PROVE k + 1 \in S
  <2> SUFFICES ASSUME k + 1 <= n PROVE Found(k + 1)
    OBVIOUS
  <2> SUFFICES ASSUME NEW i \in 1..Len(f[k + 1])
               PROVE  \E m \in 1..(k + 1) : \E j \in 1..Len(ToWire(s[m])) : i = Len(f[m - 1]) + j
    BY Zenon
  <2>1. k + 1 \in 1..n /\ (k + 1) - 1 = k
    OBVIOUS
  <2>2. /\ Len(f[k + 1]) = Len(f[k]) + Len(ToWire(s[k + 1]))
        /\ Len(f[k]) \in Nat /\ Len(ToWire(s[k + 1])) \in Nat
    <3>1. PICK x : x = k + 1
      BY Zenon
    <3>2. x \in 1..n /\ x - 1 = k
      BY <2>1, <3>1, Zenon
    <3>3. Longer(f, s, x)
      BY <3>2, ChunkStep, Zenon
    <3> QED  BY <3>1, <3>2, <3>3, Zenon DEF Longer
  <2>3. CASE i <= Len(f[k])
    <3>1. i \in 1..Len(f[k]) /\ k <= n
      BY <2>2, <2>3
    <3>2. Found(k)
      BY <1>2, <3>1, Zenon
    <3>3. PICK m \in 1..k : \E j \in 1..Len(ToWire(s[m])) : i = Len(f[m - 1]) + j
      BY <3>1, <3>2, Zenon
    <3>4. m \in 1..(k + 1)
      OBVIOUS
    <3> QED  BY <3>3, <3>4, Zenon
  <2>4. CASE i > Len(f[k])
    <3>1. i - Len(f[k]) \in 1..Len(ToWire(s[k + 1])) /\ i = Len(f[k]) + (i - Len(f[k]))
      <4>1. PICK a, b, c : a = Len(f[k]) /\ b = Len(ToWire(s[k + 1])) /\ c = Len(f[k + 1])
        BY Zenon
      <4>2. a \in Nat /\ b \in Nat /\ c = a + b /\ i \in 1..c /\ i > a
        BY <2>2, <2>4, <4>1, Zenon
      <4>3. i - a \in 1..b /\ i = a + (i - a)
        BY <4>2
      <4> QED  BY <4>1, <4>3, Zenon
    <3>2. k + 1 \in 1..(k + 1)
      OBVIOUS
    <3> QED  BY <2>1, <3>1, <3>2, Zenon
  <2> QED  BY <2>2, <2>3, <2>4
<1>3. Nat \subseteq S
  <2> HIDE DEF S
  <2> QED  BY <1>1, <1>2, CountingUp, Zenon
<1>4. Found(n)
  <2> HIDE DEF Found
  <2> QED  BY <1>3
<1> QED  BY <1>4, Zenon

\* The place on the wire of the j-th item of the m-th message.
At(f, m, j) == Len(f[m - 1]) + j

\* The request has the item there, among those of its message.
Found(f, h, n, m, j, at) ==
    /\ at = At(f, m, j)
    /\ at \in 1..Len(f[n]) /\ f[n][at] = ToWire(h[m])[j]
    /\ at <= Len(f[m]) /\ Len(f[m - 1]) < at
    /\ at \in Nat /\ Len(f[m]) \in Nat /\ Len(f[m - 1]) \in Nat

\* Every item of every message is found there.
LEMMA Located ==
    ASSUME NEW f, NEW h, NEW n \in Nat, Chunks(f, h, n), NEW m \in 1..n,
           NEW j \in 1..Len(ToWire(h[m]))
    PROVE  Found(f, h, n, m, j, At(f, m, j))
<1>1. Longer(f, h, m) /\ Adds(f, h, m)
  BY ChunkStep, Zenon
<1>2. m \in 0..n /\ n \in m..n
  OBVIOUS
<1>3. Len(f[m]) <= Len(f[n]) /\ Len(f[n]) \in Nat /\ \A i \in 1..Len(f[m]) : f[n][i] = f[m][i]
  BY <1>2, ChunksLater, Zenon
<1>4. PICK a, b, c, d, at :
         /\ a = Len(f[m - 1]) /\ b = Len(ToWire(h[m])) /\ c = Len(f[m]) /\ d = Len(f[n])
         /\ at = At(f, m, j)
  BY Zenon
<1>5. /\ a \in Nat /\ b \in Nat /\ c \in Nat /\ d \in Nat /\ c = a + b /\ c <= d /\ j \in 1..b
      /\ at = a + j
  BY <1>1, <1>3, <1>4, Zenon DEF Longer, At
<1>6. at \in 1..d /\ at \in 1..c /\ at <= c /\ a < at /\ at \in Nat
  BY <1>5
<1>7. f[n][at] = f[m][at] /\ f[m][at] = ToWire(h[m])[j]
  BY <1>1, <1>3, <1>4, <1>6, Zenon DEF Adds, At
<1> QED  BY <1>4, <1>5, <1>6, <1>7, Zenon DEF Found

\* The items of an earlier message come earlier.
LEMMA Earlier ==
    ASSUME NEW f, NEW h, NEW n \in Nat, Chunks(f, h, n), NEW m \in 1..n,
           NEW j \in 1..Len(ToWire(h[m])),
           NEW x \in 1..n, NEW k \in 1..Len(ToWire(h[x])), m < x
    PROVE  At(f, m, j) < At(f, x, k)
<1>1. At(f, m, j) <= Len(f[m]) /\ At(f, m, j) \in Nat /\ Len(f[m]) \in Nat
  BY Located, Zenon DEF Found
<1>2. Len(f[x - 1]) < At(f, x, k) /\ At(f, x, k) \in Nat /\ Len(f[x - 1]) \in Nat
  BY Located, Zenon DEF Found
<1>3. m \in 0..n /\ x - 1 \in m..n
  OBVIOUS
<1>4. Len(f[m]) <= Len(f[x - 1])
  BY <1>3, ChunksLater, Zenon
<1>5. PICK a, b, c, d : a = At(f, m, j) /\ b = Len(f[m]) /\ c = Len(f[x - 1]) /\ d = At(f, x, k)
  BY Zenon
<1>6. a \in Nat /\ b \in Nat /\ c \in Nat /\ d \in Nat /\ a <= b /\ b <= c /\ c < d
  BY <1>1, <1>2, <1>4, <1>5, Zenon
<1>7. a < d
  BY <1>6
<1> QED  BY <1>5, <1>7, Zenon

\* The call id is block p of message m and its result block q of the next message;
\* neither is anywhere else, and only results come before the result.
Pair(h, id, m, p, q) ==
    /\ h[m].content[p] = Use(id) /\ h[m + 1].content[q] = ResultOf(id)
    /\ \A x \in 1..Len(h) : \A r \in 1..Len(h[x].content) :
          /\ h[x].content[r] = Use(id) => x = m /\ r = p
          /\ h[x].content[r] = ResultOf(id) => x = m + 1 /\ r = q
    /\ \A r \in 1..(q - 1) : h[m + 1].content[r].kind = "result"

\* A conversation answers a call like that.
AnsweredIn(h, id) ==
    \E m \in 1..(Len(h) - 1) :
       \E p \in 1..Len(h[m].content), q \in 1..Len(h[m + 1].content) : Pair(h, id, m, p, q)

\* A request has a call and its output once each, in order, with no user's text
\* between them.
OnWire(wire, id) ==
    \E c, a \in DOMAIN wire :
        /\ c < a /\ id \in Range(wire[c].calls) /\ wire[a].output = id
        /\ \A i \in DOMAIN wire :
              /\ id \in Range(wire[i].calls) => i = c
              /\ wire[i].output = id => i = a
              /\ i \in (c + 1)..(a - 1) => wire[i].role # "user"

\* The request made from a conversation that answers a call has the call and its
\* output like that.
LEMMA AnswersCarried ==
    ASSUME provider \in Providers, NEW h \in Seq(WireMessage), \A x \in 1..Len(h) : Proper(h[x]),
           NEW f, Chunks(f, h, Len(h)), NEW id \in Nat, id > 0, AnsweredIn(h, id)
    PROVE  OnWire(f[Len(h)], id)
<1> DEFINE n == Len(h)
           wire == f[n]
<1>1. n \in Nat
  OBVIOUS
<1>2. PICK m \in 1..(n - 1) : \E p \in 1..Len(h[m].content), q \in 1..Len(h[m + 1].content) :
           Pair(h, id, m, p, q)
  BY Zenon DEF AnsweredIn
<1>3. PICK p \in 1..Len(h[m].content), q \in 1..Len(h[m + 1].content) : Pair(h, id, m, p, q)
  BY <1>2, Zenon
<1>4. m \in 1..n /\ m + 1 \in 1..n /\ m < m + 1
  BY <1>1
<1>5. \A x \in 1..n : Carries(ToWire(h[x]), h[x]) /\ Honest(ToWire(h[x]), h[x].content)
  BY WireKeeps, Zenon
<1>6. PICK c \in 1..Len(ToWire(h[m])) :
         /\ HasCall(ToWire(h[m]), c, id)
         /\ \A j \in 1..Len(ToWire(h[m])) : HasCall(ToWire(h[m]), j, id) => j = c
  <2>1. CallsOnce(ToWire(h[m]), h[m].content)
    BY <1>4, WireKeeps, Zenon
  <2>2. /\ h[m].content[p] = Use(id)
        /\ \A r \in 1..Len(h[m].content) : h[m].content[r] = Use(id) => r = p
    BY <1>3, <1>4, Zenon DEF Pair
  <2> QED  BY <2>1, <2>2, Zenon DEF CallsOnce
<1>7. PICK a \in 1..Len(ToWire(h[m + 1])) : AnswerAt(ToWire(h[m + 1]), id, a)
  <2>1. ResultsOnce(ToWire(h[m + 1]), h[m + 1].content)
    BY <1>4, WireKeeps, Zenon
  <2>2. Lone(h[m + 1].content, id, q)
    BY <1>3, <1>4, Zenon DEF Pair, Lone
  <2> QED  BY <2>1, <2>2, Zenon DEF ResultsOnce
<1> DEFINE asked == At(f, m, c)
           answer == At(f, m + 1, a)
<1>8. asked \in 1..Len(wire) /\ wire[asked] = ToWire(h[m])[c] /\ asked \in Nat
  <2>1. Found(f, h, n, m, c, asked)
    BY <1>1, <1>4, Located, Zenon
  <2> QED  BY <2>1, Zenon DEF Found
<1>9. answer \in 1..Len(wire) /\ wire[answer] = ToWire(h[m + 1])[a] /\ answer \in Nat
  <2>1. Found(f, h, n, m + 1, a, answer)
    BY <1>1, <1>4, Located, Zenon
  <2> QED  BY <2>1, Zenon DEF Found
<1>10. asked < answer
  BY <1>1, <1>4, Earlier, Zenon
<1> HIDE DEF asked, answer, wire, n
<1>11. DOMAIN wire = 1..Len(wire)
  <2>1. wire \in Seq(WireItem)
    <3>1. n \in 0..n
      BY <1>1
    <3> QED  BY <3>1, Zenon DEF Chunks, n, wire
  <2> QED  BY <2>1
<1>12. id \in Range(wire[asked].calls) /\ wire[answer].output = id
  BY <1>6, <1>7, <1>8, <1>9, Zenon DEF HasCall, AnswerAt
<1>13. ASSUME NEW i \in 1..Len(wire)
       PROVE  /\ id \in Range(wire[i].calls) => i = asked
              /\ wire[i].output = id => i = answer
              /\ i \in (asked + 1)..(answer - 1) => wire[i].role # "user"
  <2>1. PICK x \in 1..n : \E j \in 1..Len(ToWire(h[x])) : i = Len(f[x - 1]) + j
    <3>1. Chunks(f, h, n) /\ i \in 1..Len(f[n])
      BY Zenon DEF n, wire
    <3>2. \A y \in 1..Len(f[n]) : \E x \in 1..n : \E j \in 1..Len(ToWire(h[x])) :
          y = Len(f[x - 1]) + j
      BY <1>1, <3>1, ChunkOf, SMTT(30)
    <3> QED  BY <3>1, <3>2, Zenon
  <2>2. PICK j \in 1..Len(ToWire(h[x])) : i = At(f, x, j)
    BY <2>1, Zenon DEF At
  <2>3. wire[i] = ToWire(h[x])[j] /\ i \in Nat
    <3>1. Found(f, h, n, x, j, i)
      BY <1>1, <2>2, Located, Zenon DEF n
    <3> QED  BY <3>1, Zenon DEF Found, wire
  <2>4. ASSUME id \in Range(wire[i].calls) PROVE i = asked
    <3>1. HasCall(ToWire(h[x]), j, id)
      BY <2>3, <2>4, Zenon DEF HasCall
    <3>2. \E r \in 1..Len(h[x].content) : h[x].content[r] = Use(id)
      BY <1>5, <3>1, Zenon DEF Honest
    <3>3. x = m
      BY <1>3, <3>2, Zenon DEF Pair, n
    <3> QED  BY <1>6, <2>2, <3>1, <3>3, Zenon DEF asked
  <2>5. ASSUME wire[i].output = id PROVE i = answer
    <3>1. ToWire(h[x])[j].output = id
      BY <2>3, <2>5, Zenon
    <3>2. \E r \in 1..Len(h[x].content) : h[x].content[r] = ResultOf(id)
      BY <1>5, <3>1, Zenon DEF Honest
    <3>3. x = m + 1
      BY <1>3, <3>2, Zenon DEF Pair, n
    <3> QED  BY <1>7, <2>2, <3>1, <3>3, Zenon DEF answer, AnswerAt
  <2>6. ASSUME i \in (asked + 1)..(answer - 1) PROVE wire[i].role # "user"
    <3>1. asked < i /\ i < answer
      BY <1>8, <1>9, <2>3, <2>6, SMTT(30)
    <3>2. ~(x < m)
      <4>1. ASSUME x < m PROVE i < asked
        BY <1>1, <1>4, <2>2, <4>1, Earlier, Zenon DEF n, asked
      <4> QED  BY <1>8, <2>3, <3>1, <4>1, SMTT(30)
    <3>3. ~(m + 1 < x)
      <4>1. ASSUME m + 1 < x PROVE answer < i
        BY <1>1, <1>4, <2>2, <4>1, Earlier, Zenon DEF n, answer
      <4> QED  BY <1>9, <2>3, <3>1, <4>1, SMTT(30)
    <3>4. x = m \/ x = m + 1
      BY <3>2, <3>3
    <3>5. CASE x = m
      <4>1. h[m].role = "assistant"
        <5>1. h[m].content[p].kind = "use"
          BY <1>3, BlockParts, Zenon DEF Pair
        <5>2. Proper(h[m]) /\ p \in DOMAIN h[m].content
          <6>1. Proper(h[m])
            BY <1>4, Zenon DEF n
          <6>2. h[m].content \in Seq(Block)
            BY <6>1, Zenon DEF Proper, WireMessage
          <6> QED  BY <6>1, <6>2, SMTT(30)
        <5> QED  BY <5>1, <5>2, Zenon DEF Proper
      <4> QED  BY <1>4, <1>5, <2>3, <3>5, <4>1, Zenon DEF Carries
    <3>6. CASE x = m + 1
      <4>1. j < a
        <5>1. PICK b : b = Len(f[(m + 1) - 1])
          BY Zenon
        <5>2. i = b + j /\ answer = b + a
          BY <2>2, <3>6, <5>1, Zenon DEF At, answer
        <5>3. b \in Nat
          <6>1. Found(f, h, n, m + 1, a, answer)
            BY <1>1, <1>4, Located, Zenon DEF n, answer
          <6> QED  BY <5>1, <6>1, Zenon DEF Found
        <5>4. j \in Int /\ a \in Int
          OBVIOUS
        <5> QED  BY <3>1, <5>2, <5>3, <5>4, SMTT(30)
      <4>2. j \in 1..(a - 1)
        BY <4>1
      <4> QED  BY <1>7, <2>3, <3>6, <4>2, Zenon DEF AnswerAt
    <3> QED  BY <3>4, <3>5, <3>6, Zenon
  <2> QED  BY <2>4, <2>5, <2>6, Zenon
<1>14. OnWire(wire, id)
  BY <1>8, <1>9, <1>10, <1>11, <1>12, <1>13, Zenon DEF OnWire
<1> QED  BY <1>14, Zenon DEF wire, n

\* Every call and every result has a number up to last.
Within(h, last) ==
    \A x \in 1..Len(h) : \A r \in 1..Len(h[x].content) :
       h[x].content[r].kind # "text" => h[x].content[r].id \in 1..last

\* The messages are proper and their calls numbered up to last.
Sound(h, last) ==
    /\ h \in Seq(WireMessage) /\ last \in Nat
    /\ \A x \in 1..Len(h) : Proper(h[x])
    /\ Within(h, last)

\* The conversation new continues h: what was there stays, and what is added is
\* text or has a number above last.
Grows(h, new, last) ==
    /\ Len(h) <= Len(new)
    /\ \A x \in 1..Len(h) :
          /\ Len(h[x].content) <= Len(new[x].content)
          /\ \A r \in 1..Len(h[x].content) : new[x].content[r] = h[x].content[r]
    /\ \A x \in 1..Len(new) : \A r \in 1..Len(new[x].content) :
          \/ x \in 1..Len(h) /\ r \in 1..Len(h[x].content)
          \/ new[x].content[r].kind = "text"
          \/ ~(new[x].content[r].id <= last)

\* A conversation that continues one that answers a call answers it.
LEMMA AnswerStays ==
    ASSUME NEW h \in Seq(WireMessage), NEW new \in Seq(WireMessage), NEW last \in Nat,
           Grows(h, new, last), NEW id \in 1..last, AnsweredIn(h, id)
    PROVE  AnsweredIn(new, id)
<1>1. Len(h) \in Nat /\ Len(new) \in Nat /\ Len(h) <= Len(new)
  BY DEF Grows
<1>2. \A x \in 1..Len(h) : Len(h[x].content) \in Nat
  BY DEF WireMessage
<1>3. \A x \in 1..Len(new) : Len(new[x].content) \in Nat
  BY DEF WireMessage
<1>4. PICK m \in 1..(Len(h) - 1) :
         \E p \in 1..Len(h[m].content), q \in 1..Len(h[m + 1].content) : Pair(h, id, m, p, q)
  BY Zenon DEF AnsweredIn
<1>5. PICK p \in 1..Len(h[m].content), q \in 1..Len(h[m + 1].content) : Pair(h, id, m, p, q)
  BY <1>4, Zenon
<1>6. m \in 1..Len(h) /\ m + 1 \in 1..Len(h) /\ m \in 1..(Len(new) - 1) /\
      m \in 1..Len(new) /\ m + 1 \in 1..Len(new)
  BY <1>1
<1>7. \A x \in 1..Len(h), r \in Nat :
         r \in 1..Len(h[x].content) =>
            r \in 1..Len(new[x].content) /\ new[x].content[r] = h[x].content[r]
  <2> SUFFICES ASSUME NEW x \in 1..Len(h), NEW r \in 1..Len(h[x].content)
               PROVE  r \in 1..Len(new[x].content) /\ new[x].content[r] = h[x].content[r]
    BY Zenon
  <2>1. x \in 1..Len(new)
    BY <1>1
  <2>2. Len(h[x].content) <= Len(new[x].content) /\ new[x].content[r] = h[x].content[r]
    BY Zenon DEF Grows
  <2>3. PICK a, b : a = Len(h[x].content) /\ b = Len(new[x].content)
    BY Zenon
  <2>4. a \in Nat /\ b \in Nat /\ a <= b /\ r \in 1..a
    BY <1>2, <1>3, <2>1, <2>2, <2>3, Zenon
  <2>5. r \in 1..b
    BY <2>4
  <2> QED  BY <2>2, <2>3, <2>5, Zenon
<1>8. p \in Nat /\ q \in Nat
  OBVIOUS
<1>9. /\ p \in 1..Len(new[m].content) /\ q \in 1..Len(new[m + 1].content)
      /\ new[m].content[p] = Use(id) /\ new[m + 1].content[q] = ResultOf(id)
  <2>1. new[m].content[p] = h[m].content[p] /\ p \in 1..Len(new[m].content)
    BY <1>6, <1>7, <1>8, Zenon
  <2>2. new[m + 1].content[q] = h[m + 1].content[q] /\ q \in 1..Len(new[m + 1].content)
    BY <1>6, <1>7, <1>8, Zenon
  <2> QED  BY <1>5, <2>1, <2>2, Zenon DEF Pair
<1>10. ASSUME NEW x \in 1..Len(new), NEW r \in 1..Len(new[x].content),
              new[x].content[r] = Use(id) \/ new[x].content[r] = ResultOf(id)
       PROVE  x \in 1..Len(h) /\ r \in 1..Len(h[x].content) /\ new[x].content[r] = h[x].content[r]
  <2>1. new[x].content[r].kind # "text" /\ new[x].content[r].id = id
    BY <1>10, BlockParts, Zenon
  <2>2. id <= last
    OBVIOUS
  <2>3. x \in 1..Len(h) /\ r \in 1..Len(h[x].content)
    BY <2>1, <2>2, Zenon DEF Grows
  <2> QED  BY <2>3, Zenon DEF Grows
<1>11. ASSUME NEW x \in 1..Len(new), NEW r \in 1..Len(new[x].content)
       PROVE  /\ new[x].content[r] = Use(id) => x = m /\ r = p
              /\ new[x].content[r] = ResultOf(id) => x = m + 1 /\ r = q
  <2>1. ASSUME new[x].content[r] = Use(id) PROVE x = m /\ r = p
    BY <1>5, <1>10, <2>1, Zenon DEF Pair
  <2>2. ASSUME new[x].content[r] = ResultOf(id) PROVE x = m + 1 /\ r = q
    BY <1>5, <1>10, <2>2, Zenon DEF Pair
  <2> QED  BY <2>1, <2>2, Zenon
<1>12. ASSUME NEW r \in 1..(q - 1) PROVE new[m + 1].content[r].kind = "result"
  <2>1. r \in 1..Len(h[m + 1].content) /\ r \in Nat
    <3>1. PICK a : a = Len(h[m + 1].content)
      BY Zenon
    <3>2. a \in Nat /\ q \in 1..a
      BY <1>2, <1>6, <3>1, Zenon
    <3> QED  BY <3>1, <3>2
  <2>2. new[m + 1].content[r] = h[m + 1].content[r]
    BY <1>6, <1>7, <2>1, Zenon
  <2> QED  BY <1>5, <2>2, Zenon DEF Pair
<1>13. Pair(new, id, m, p, q)
  BY <1>9, <1>11, <1>12, Zenon DEF Pair
<1> QED  BY <1>6, <1>9, <1>13, Zenon DEF AnsweredIn

\* A message appended with later numbers continues the conversation.
LEMMA GrowMore ==
    ASSUME NEW h, NEW bound \in Nat, Sound(h, bound), NEW last \in Nat,
           NEW more \in Nat, bound <= more,
           NEW message, Proper(message),
           \A r \in 1..Len(message.content) :
              message.content[r].kind # "text" => message.content[r].id \in (last + 1)..more,
           NEW new, new = h \o <<message>>
    PROVE  Sound(new, more) /\ Grows(h, new, last)
<1>1. h \in Seq(WireMessage) /\ message \in WireMessage
  BY Zenon DEF Sound, Proper
<1>2. /\ new \in Seq(WireMessage) /\ Len(new) = Len(h) + 1 /\ Len(h) \in Nat
      /\ \A x \in 1..Len(h) : new[x] = h[x]
      /\ new[Len(h) + 1] = message
  BY <1>1, ConcatParts
<1>3. \A x \in 1..Len(new) : x \in 1..Len(h) \/ x = Len(h) + 1
  BY <1>2
<1>4. \A x \in 1..Len(new) : Proper(new[x])
  BY <1>2, <1>3, Zenon DEF Sound
<1>5. ASSUME NEW x \in 1..Len(new), NEW r \in 1..Len(new[x].content),
             new[x].content[r].kind # "text"
      PROVE  new[x].content[r].id \in 1..more
  <2>1. CASE x \in 1..Len(h)
    <3>1. new[x].content[r].id \in 1..bound
      BY <1>2, <1>5, <2>1, Zenon DEF Sound, Within
    <3> QED  BY <3>1, SMTT(30)
  <2>2. CASE x = Len(h) + 1
    <3>1. new[x].content[r].id \in (last + 1)..more
      BY <1>2, <1>5, <2>2, Zenon
    <3> QED  BY <3>1
  <2> QED  BY <1>3, <2>1, <2>2, Zenon
<1>6. Sound(new, more)
  BY <1>2, <1>4, <1>5, Zenon DEF Sound, Within
<1>7. \A x \in 1..Len(h) : Len(h[x].content) \in Nat
  BY <1>1 DEF WireMessage
<1>8. ASSUME NEW x \in 1..Len(h)
      PROVE  /\ Len(h[x].content) <= Len(new[x].content)
             /\ \A r \in 1..Len(h[x].content) : new[x].content[r] = h[x].content[r]
  <2>1. new[x] = h[x]
    BY <1>2, Zenon
  <2>2. Len(h[x].content) <= Len(h[x].content)
    BY <1>7
  <2> QED  BY <2>1, <2>2, Zenon
<1>9. ASSUME NEW x \in 1..Len(new), NEW r \in 1..Len(new[x].content)
      PROVE  \/ x \in 1..Len(h) /\ r \in 1..Len(h[x].content)
             \/ new[x].content[r].kind = "text"
             \/ ~(new[x].content[r].id <= last)
  <2>1. CASE x \in 1..Len(h)
    BY <1>2, <2>1, Zenon
  <2>2. CASE x = Len(h) + 1
    <3>1. new[x].content[r].kind = "text" \/ new[x].content[r].id \in (last + 1)..more
      BY <1>2, <2>2, Zenon
    <3> QED  BY <3>1
  <2> QED  BY <1>3, <2>1, <2>2, Zenon
<1>10. Len(h) <= Len(new)
  BY <1>2
<1>11. Grows(h, new, last)
  BY <1>8, <1>9, <1>10, Zenon DEF Grows
<1> QED  BY <1>6, <1>11, Zenon

\* The block of a text.
LEMMA TextIs == TextBlock \in Block /\ TextBlock.kind = "text"
  BY Zenon DEF TextBlock, Block

\* t is s with the i-th element replaced.
Replaced(t, s, i, e) ==
    Len(t) = Len(s) /\ t[i] = e /\ \A x \in 1..Len(s) : x # i => t[x] = s[x]

\* EXCEPT replaces the element.
LEMMA OneReplaced ==
    ASSUME NEW C, NEW s \in Seq(C), NEW i \in 1..Len(s), NEW e \in C,
           NEW t, t = [s EXCEPT ![i] = e]
    PROVE  t \in Seq(C) /\ Replaced(t, s, i, e)
  BY DEF Replaced

\* So does a text appended to the last message of the user, as push_user_prompt
\* appends it.
LEMMA GrowLast ==
    ASSUME NEW h, NEW last \in Nat, Sound(h, last), h # <<>>, h[Len(h)].role = "user", NEW new,
           new = [h EXCEPT ![Len(h)].content = Append(@, TextBlock)]
    PROVE  Sound(new, last) /\ Grows(h, new, last)
<1> DEFINE n == Len(h)
           content == h[n].content
           longer == Append(content, TextBlock)
<1>1. h \in Seq(WireMessage) /\ n \in Nat /\ n \in 1..n
  BY EmptySeq DEF Sound
<1>2. h[n] \in WireMessage /\ content \in Seq(Block)
  <2>1. h[n] \in WireMessage
    BY <1>1
  <2> QED  BY <2>1, Zenon DEF WireMessage
<1>3. /\ longer \in Seq(Block) /\ Len(longer) = Len(content) + 1 /\ Len(content) \in Nat
      /\ \A r \in 1..Len(content) : longer[r] = content[r]
      /\ longer[Len(content) + 1] = TextBlock
  BY <1>2, TextIs, AppendOne, ZenonT(40)
<1>4. new = [h EXCEPT ![n] = [h[n] EXCEPT !.content = longer]]
  BY <1>1, Zenon
<1> HIDE DEF longer
<1>5. PICK message : message = [h[n] EXCEPT !.content = longer]
  BY Zenon
<1>6. message \in WireMessage /\ message.role = "user" /\ message.content = longer
  BY <1>2, <1>3, <1>5, Zenon DEF WireMessage
<1>7. new = [h EXCEPT ![n] = message]
  BY <1>4, <1>5, Zenon
<1>8. /\ new \in Seq(WireMessage) /\ Len(new) = n /\ new[n] = message
      /\ \A x \in 1..n : x # n => new[x] = h[x]
  <2>1. Replaced(new, h, n, message) /\ new \in Seq(WireMessage)
    BY <1>1, <1>6, <1>7, OneReplaced, Zenon
  <2> QED  BY <2>1, Zenon DEF Replaced
<1>9. \A r \in 1..Len(longer) : r \in 1..Len(content) \/ r = Len(content) + 1
  BY <1>3
<1>10. \A r \in 1..Len(longer) :
          longer[r] = TextBlock \/ (r \in 1..Len(content) /\ longer[r] = content[r])
  BY <1>3, <1>9, Zenon
<1> HIDE DEF content, n
<1>11. Proper(message)
  <2>1. Proper(h[n])
    BY <1>1, Zenon DEF Sound, n
  <2>2. \A r \in 1..Len(content) :
           /\ content[r].kind = "use" => "user" = "assistant" /\ content[r].id > 0
           /\ content[r].kind = "result" => content[r].id > 0
    <3>1. DOMAIN content = 1..Len(content)
      BY <1>2
    <3> QED  BY <2>1, <3>1, Zenon DEF Proper, content, n
  <2>3. DOMAIN longer = 1..Len(longer)
    BY <1>3
  <2>4. ASSUME NEW r \in 1..Len(longer)
        PROVE  /\ longer[r].kind = "use" => message.role = "assistant" /\ longer[r].id > 0
               /\ longer[r].kind = "result" => message.role = "user" /\ longer[r].id > 0
    <3>1. "text" # "use" /\ "text" # "result"
      BY Zenon
    <3> QED  BY <1>6, <1>10, <2>2, <3>1, TextIs, Zenon
  <2> QED  BY <1>6, <2>3, <2>4, Zenon DEF Proper
<1>12. \A x \in 1..Len(new) : Proper(new[x])
  BY <1>8, <1>11, Zenon DEF Sound, n
<1>13. Within(new, last)
  <2> SUFFICES ASSUME NEW x \in 1..Len(new), NEW r \in 1..Len(new[x].content),
                      new[x].content[r].kind # "text"
               PROVE  new[x].content[r].id \in 1..last
    BY Zenon DEF Within
  <2>1. CASE x # n
    BY <1>8, <2>1, Zenon DEF Sound, Within, n
  <2>2. CASE x = n
    <3>1. r \in 1..Len(longer) /\ longer[r].kind # "text" /\ new[x].content[r] = longer[r]
      BY <1>6, <1>8, <2>2, Zenon
    <3>2. r \in 1..Len(content) /\ longer[r] = content[r]
      BY <1>10, <3>1, TextIs, Zenon
    <3>3. content[r].id \in 1..last
      BY <1>1, <3>1, <3>2, Zenon DEF Sound, Within, content, n
    <3> QED  BY <3>1, <3>2, <3>3, Zenon
  <2> QED  BY <2>1, <2>2, Zenon
<1>14. Sound(new, last)
  BY <1>8, <1>12, <1>13, Zenon DEF Sound
<1>15. \A x \in 1..n : Len(h[x].content) \in Nat
  BY <1>1 DEF WireMessage
<1>16. ASSUME NEW x \in 1..n
       PROVE  /\ Len(h[x].content) <= Len(new[x].content)
              /\ \A r \in 1..Len(h[x].content) : new[x].content[r] = h[x].content[r]
  <2>1. CASE x # n
    <3>1. new[x] = h[x]
      BY <1>8, <2>1, Zenon
    <3>2. Len(h[x].content) <= Len(h[x].content)
      BY <1>15
    <3> QED  BY <3>1, <3>2, Zenon
  <2>2. CASE x = n
    <3>1. h[x].content = content /\ new[x].content = longer
      BY <1>6, <1>8, <2>2, Zenon DEF content
    <3>2. Len(content) <= Len(longer)
      BY <1>3
    <3> QED  BY <1>3, <3>1, <3>2, Zenon
  <2> QED  BY <2>1, <2>2, Zenon
<1>17. ASSUME NEW x \in 1..Len(new), NEW r \in 1..Len(new[x].content)
       PROVE  (x \in 1..n /\ r \in 1..Len(h[x].content)) \/ new[x].content[r].kind = "text"
  <2>1. CASE x # n
    BY <1>8, <2>1, Zenon
  <2>2. CASE x = n
    BY <1>6, <1>8, <1>10, <2>2, TextIs, Zenon DEF content
  <2> QED  BY <2>1, <2>2, Zenon
<1>18. Len(h) <= Len(new)
  BY <1>1, <1>8 DEF n
<1>19. Grows(h, new, last)
  BY <1>16, <1>17, <1>18, Zenon DEF Grows, n
<1> QED  BY <1>14, <1>19, Zenon

\* What the response and its answers hold: the k-th call is number lastId + k.
TurnContent(content, pos, answers, n) ==
    /\ content \in Seq(Spoken) /\ content \in Seq(Block) /\ n \in Nat
    /\ answers \in Seq(Block) /\ Len(answers) = n
    /\ \A k \in 1..n : answers[k] = ResultOf(lastId + k)
    /\ \A k \in 1..n : pos[k] \in 1..Len(content) /\ content[pos[k]] = Use(lastId + k)
    /\ \A r \in 1..Len(content) : content[r].kind = "text" \/ \E k \in 1..n : pos[k] = r

\* The content that parse_response reads, and the results that run_turn pushes.
LEMMA TurnParts ==
    ASSUME lastId \in Nat, NEW content \in Seq(Spoken), NEW uses, uses = Only("use", content),
           Numbered(uses), NEW answers, answers = [i \in DOMAIN uses |-> ResultOf(uses[i].id)]
    PROVE  \E pos : TurnContent(content, pos, answers, Len(uses))
<1>1. uses \in Seq(Spoken)
  BY OnlyTyped, Zenon
<1>2. PICK pos : Places(pos, "use", uses, content)
  BY OnlyPlaces, Zenon
<1>3. Len(uses) \in Nat /\ DOMAIN uses = 1..Len(uses)
  BY <1>1
<1>4. \A k \in 1..Len(uses) : uses[k] = Use(lastId + k)
  BY Zenon DEF Numbered
<1>5. ASSUME NEW k \in 1..Len(uses)
      PROVE  ResultOf(uses[k].id) = ResultOf(lastId + k) /\ ResultOf(uses[k].id) \in Block
  <2>1. uses[k].id = lastId + k /\ lastId + k \in Nat
    BY <1>4, BlockParts
  <2> QED  BY <2>1, Zenon DEF ResultOf, Block
<1>6. answers \in Seq(Block) /\ Len(answers) = Len(uses) /\
      \A k \in 1..Len(uses) : answers[k] = ResultOf(lastId + k)
  <2> DEFINE el(i) == ResultOf(uses[i].id)
             w == [i \in 1..Len(uses) |-> el(i)]
  <2>1. answers = w
    BY <1>3, Zenon
  <2>2. \A k \in 1..Len(uses) : el(k) = ResultOf(lastId + k) /\ el(k) \in Block
    BY <1>5, Zenon
  <2> HIDE DEF el
  <2>3. w \in Seq(Block) /\ Len(w) = Len(uses) /\ \A k \in 1..Len(uses) : w[k] = el(k)
    BY <1>3, <2>2
  <2> QED  BY <2>1, <2>2, <2>3, Zenon
<1>7. content \in Seq(Block)
  <2>1. \A r \in 1..Len(content) : content[r] \in Block
    BY DEF Spoken
  <2>2. Spoken \subseteq Block
    BY Zenon DEF Spoken
  <2> QED  BY <2>1, <2>2
<1>8. \A k \in 1..Len(uses) : pos[k] \in 1..Len(content) /\ content[pos[k]] = Use(lastId + k)
  BY <1>2, <1>4, Zenon DEF Places
<1>9. ASSUME NEW r \in 1..Len(content)
      PROVE  content[r].kind = "text" \/ \E k \in 1..Len(uses) : pos[k] = r
  <2>1. content[r].kind \in {"text", "use"}
    <3>1. content[r] \in Spoken
      OBVIOUS
    <3> QED  BY <3>1, Zenon DEF Spoken
  <2> QED  BY <1>2, <2>1, Zenon DEF Places
<1> QED  BY <1>3, <1>6, <1>7, <1>8, <1>9, Zenon DEF TurnContent

\* The two messages of a turn are proper and have the next numbers.
LEMMA TurnMessages ==
    ASSUME lastId \in Nat, NEW content, NEW pos, NEW answers,
           NEW n, TurnContent(content, pos, answers, n),
           NEW said, said = [role |-> "assistant", content |-> content],
           NEW told, told = [role |-> "user", content |-> answers]
    PROVE  /\ Proper(said) /\ said.content = content /\ Proper(told) /\ told.content = answers
           /\ \A r \in 1..Len(content) :
                 content[r].kind # "text" => content[r].id \in (lastId + 1)..(lastId + n)
           /\ \A r \in 1..Len(answers) : answers[r].id \in (lastId + 1)..(lastId + n)
<1>1. /\ said \in WireMessage /\ said.role = "assistant" /\ said.content = content
      /\ told \in WireMessage /\ told.role = "user" /\ told.content = answers
  BY Zenon DEF WireMessage, TurnContent
<1>2. n \in Nat /\ DOMAIN content = 1..Len(content) /\ DOMAIN answers = 1..n /\ Len(answers) = n
  BY DEF TurnContent
<1>3. ASSUME NEW r \in 1..Len(content), content[r].kind # "text"
      PROVE  content[r].kind = "use" /\ content[r].id \in (lastId + 1)..(lastId + n)
  <2>1. PICK k \in 1..n : pos[k] = r
    BY <1>3, Zenon DEF TurnContent
  <2>2. content[r] = Use(lastId + k)
    BY <2>1, Zenon DEF TurnContent
  <2>3. content[r].kind = "use" /\ content[r].id = lastId + k
    BY <2>2, BlockParts, Zenon
  <2> QED  BY <1>2, <2>3
<1>4. ASSUME NEW r \in 1..n
      PROVE  answers[r].kind = "result" /\ answers[r].id \in (lastId + 1)..(lastId + n)
  <2>1. answers[r] = ResultOf(lastId + r)
    BY Zenon DEF TurnContent
  <2>2. answers[r].kind = "result" /\ answers[r].id = lastId + r
    BY <2>1, BlockParts, Zenon
  <2> QED  BY <1>2, <2>2
<1>5. Proper(said)
  <2>1. ASSUME NEW r \in 1..Len(content)
        PROVE  /\ content[r].kind = "use" => content[r].id > 0
               /\ content[r].kind # "result"
    <3>1. content[r].kind # "text" => content[r].kind = "use" /\
          content[r].id \in (lastId + 1)..(lastId + n)
      BY <1>3, Zenon
    <3> QED  BY <1>2, <3>1
  <2> QED  BY <1>1, <1>2, <2>1, Zenon DEF Proper
<1>6. Proper(told)
  <2>1. ASSUME NEW r \in 1..n
        PROVE  answers[r].id > 0 /\ answers[r].kind # "use"
    <3>1. answers[r].kind = "result" /\ answers[r].id \in (lastId + 1)..(lastId + n)
      BY <1>4, Zenon
    <3> QED  BY <1>2, <3>1
  <2> QED  BY <1>1, <1>2, <2>1, Zenon DEF Proper
<1> QED  BY <1>1, <1>2, <1>3, <1>4, <1>5, <1>6, Zenon

\* The calls of the turn are answered in the conversation with its two messages.
LEMMA NewAnswers ==
    ASSUME NEW h, lastId \in Nat, Sound(h, lastId),
           NEW content, NEW pos, NEW answers, NEW n, TurnContent(content, pos, answers, n),
           NEW said, said.content = content, NEW told, told.content = answers,
           NEW new, Len(new) = Len(h) + 2, \A x \in 1..Len(h) : new[x] = h[x],
           new[Len(h) + 1] = said, new[Len(h) + 2] = told,
           NEW k \in 1..n
    PROVE  AnsweredIn(new, lastId + k)
<1> DEFINE m == Len(h) + 1
           id == lastId + k
<1>1. Len(h) \in Nat /\ n \in Nat /\ k \in 1..Len(answers)
  BY DEF Sound, TurnContent
<1>2. m \in 1..(Len(new) - 1) /\ m + 1 = Len(h) + 2 /\ ~(id <= lastId)
  BY <1>1
<1>3. new[m].content = content /\ new[m + 1].content = answers
  BY <1>2, Zenon
<1>4. pos[k] \in 1..Len(content) /\ content[pos[k]] = Use(id)
  BY Zenon DEF TurnContent
<1>5. answers[k] = ResultOf(id)
  BY Zenon DEF TurnContent
<1>6. \A a, b \in 1..n : lastId + a = lastId + b => a = b
  BY <1>1
<1> HIDE DEF m, id
<1>7. ASSUME NEW r \in 1..Len(content)
      PROVE  (content[r] = Use(id) => r = pos[k]) /\ content[r] # ResultOf(id)
  <2>1. CASE content[r].kind = "text"
    BY <2>1, BlockParts, Zenon
  <2>2. CASE content[r].kind # "text"
    <3>1. PICK j \in 1..n : pos[j] = r
      BY <2>2, Zenon DEF TurnContent
    <3>2. content[r] = Use(lastId + j)
      BY <3>1, Zenon DEF TurnContent
    <3>3. content[r].kind = "use" /\ content[r].id = lastId + j
      BY <3>2, BlockParts, Zenon
    <3>4. content[r] = Use(id) => j = k
      <4>1. ASSUME content[r] = Use(id) PROVE j = k
        <5>1. lastId + j = lastId + k
          BY <3>3, <4>1, BlockParts DEF id
        <5> QED  BY <1>6, <5>1, Zenon
      <4> QED  BY <4>1, Zenon
    <3>5. content[r] # ResultOf(id)
      BY <3>3, BlockParts, Zenon
    <3> QED  BY <3>1, <3>4, <3>5, Zenon
  <2> QED  BY <2>1, <2>2, Zenon
<1>8. ASSUME NEW r \in 1..Len(answers)
      PROVE  (answers[r] = ResultOf(id) => r = k) /\ answers[r] # Use(id) /\
             answers[r].kind = "result"
  <2>1. r \in 1..n /\ answers[r] = ResultOf(lastId + r)
    BY Zenon DEF TurnContent
  <2>2. answers[r].kind = "result" /\ answers[r].id = lastId + r
    BY <2>1, BlockParts, Zenon
  <2>3. ASSUME answers[r] = ResultOf(id) PROVE r = k
    <3>1. lastId + r = lastId + k
      BY <2>2, <2>3, BlockParts DEF id
    <3> QED  BY <1>6, <2>1, <3>1, Zenon
  <2>4. answers[r] # Use(id)
    BY <2>2, BlockParts, Zenon
  <2> QED  BY <2>2, <2>3, <2>4, Zenon
<1>9. ASSUME NEW x \in 1..Len(h), NEW r \in 1..Len(h[x].content)
      PROVE  h[x].content[r] # Use(id) /\ h[x].content[r] # ResultOf(id)
  <2>1. h[x].content[r].kind # "text" => h[x].content[r].id \in 1..lastId
    BY Zenon DEF Sound, Within
  <2>2. ASSUME h[x].content[r] = Use(id) \/ h[x].content[r] = ResultOf(id) PROVE FALSE
    <3>1. h[x].content[r].kind # "text" /\ h[x].content[r].id = id
      BY <2>2, BlockParts, Zenon
    <3>2. id \in 1..lastId
      BY <2>1, <3>1, Zenon
    <3> QED  BY <1>2, <3>2
  <2> QED  BY <2>2, Zenon
<1>10. ASSUME NEW x \in 1..Len(new), NEW r \in 1..Len(new[x].content)
       PROVE  /\ new[x].content[r] = Use(id) => x = m /\ r = pos[k]
              /\ new[x].content[r] = ResultOf(id) => x = m + 1 /\ r = k
  <2>1. x \in 1..Len(h) \/ x = m \/ x = m + 1
    BY <1>1, <1>2, SMTT(30) DEF m
  <2>2. CASE x \in 1..Len(h)
    BY <1>9, <2>2, Zenon
  <2>3. CASE x = m
    BY <1>3, <1>7, <2>3, Zenon
  <2>4. CASE x = m + 1
    BY <1>3, <1>8, <2>4, Zenon
  <2> QED  BY <2>1, <2>2, <2>3, <2>4, Zenon
<1>11. ASSUME NEW r \in 1..(k - 1) PROVE answers[r].kind = "result"
  <2>1. r \in 1..Len(answers)
    BY <1>1
  <2> QED  BY <1>8, <2>1, Zenon
<1>12. Pair(new, id, m, pos[k], k)
  BY <1>3, <1>4, <1>5, <1>10, <1>11, Zenon DEF Pair
<1>13. AnsweredIn(new, id)
  BY <1>1, <1>2, <1>3, <1>4, <1>12, Zenon DEF AnsweredIn
<1> QED  BY <1>13, Zenon DEF id

\* The inductive invariant: the conversation is sound and answers every call that
\* was made.
WireInv ==
    /\ provider \in Providers
    /\ Sound(history, lastId)
    /\ \A id \in 1..lastId : AnsweredIn(history, id)

\* An empty conversation is sound.
LEMMA WireStart == WireInit => WireInv
<1> SUFFICES ASSUME WireInit PROVE WireInv
  BY Zenon
<1>1. history = <<>> /\ lastId = 0 /\ provider \in Providers
  BY Zenon DEF WireInit, Providers
<1>2. history \in Seq(WireMessage) /\ Len(history) = 0
  BY <1>1
<1>3. Sound(history, lastId)
  BY <1>1, <1>2 DEF Sound, Within
<1> QED  BY <1>1, <1>3 DEF WireInv

\* push_user_prompt keeps the invariant.
LEMMA WirePrompt ==
    ASSUME WireInv, PushUserPrompt
    PROVE  WireInv'
<1>1. /\ provider \in Providers /\ Sound(history, lastId)
      /\ provider' = provider /\ lastId' = lastId
  BY Zenon DEF WireInv, PushUserPrompt
<1>2. lastId \in Nat /\ history \in Seq(WireMessage)
  BY <1>1, Zenon DEF Sound
<1>3. Sound(history', lastId) /\ Grows(history, history', lastId)
  <2>1. CASE /\ Ends("user")
             /\ history' = [history EXCEPT ![Len(history)].content = Append(@, TextBlock)]
    <3>1. history # <<>> /\ history[Len(history)].role = "user"
      BY <2>1, Zenon DEF Ends, Last
    <3> QED  BY <1>1, <1>2, <2>1, <3>1, GrowLast, Zenon
  <2>2. CASE history' = Append(history, [role |-> "user", content |-> <<TextBlock>>])
    <3> DEFINE message == [role |-> "user", content |-> <<TextBlock>>]
    <3>1. PICK content : content = <<TextBlock>>
      BY Zenon
    <3>2. content \in Seq(Block) /\ Len(content) = 1 /\ content[1] = TextBlock /\
          DOMAIN content = 1..1
      BY <3>1, TextIs
    <3>3. message.role = "user" /\ message.content = content /\ message \in WireMessage
      BY <3>1, <3>2, Zenon DEF WireMessage
    <3>4. \A r \in 1..Len(content) : content[r].kind = "text"
      BY <3>2, TextIs
    <3> HIDE DEF message
    <3>5. Proper(message)
      BY <3>2, <3>3, <3>4, Zenon DEF Proper
    <3>6. history' = history \o <<message>>
      BY <1>2, <2>2, <3>3 DEF message
    <3>7. lastId <= lastId
      BY <1>2
    <3>8. \A r \in 1..Len(message.content) :
             message.content[r].kind # "text" => message.content[r].id \in (lastId + 1)..lastId
      BY <3>3, <3>4, Zenon
    <3> QED  BY <1>1, <1>2, <3>5, <3>6, <3>7, <3>8, GrowMore, Zenon
  <2> QED  BY <2>1, <2>2, Zenon DEF PushUserPrompt
<1>4. history' \in Seq(WireMessage)
  BY <1>3, Zenon DEF Sound
<1>5. \A id \in 1..lastId : AnsweredIn(history', id)
  <2>1. \A id \in 1..lastId : AnsweredIn(history, id)
    BY Zenon DEF WireInv
  <2> QED  BY <1>2, <1>3, <1>4, <2>1, AnswerStays, Zenon
<1>6. (provider \in Providers)' /\ Sound(history, lastId)' /\
      (\A id \in 1..lastId : AnsweredIn(history, id))'
  BY <1>1, <1>3, <1>5, Zenon
<1> QED  BY <1>6, Zenon DEF WireInv

\* A turn of the model and the results of its calls keep it.
LEMMA WireAnswer ==
    ASSUME WireInv, CompleteTurn
    PROVE  WireInv'
<1>1. /\ provider \in Providers /\ Sound(history, lastId) /\ provider' = provider
      /\ \A id \in 1..lastId : AnsweredIn(history, id)
  BY Zenon DEF WireInv, CompleteTurn
<1>2. lastId \in Nat /\ history \in Seq(WireMessage) /\ Len(history) \in Nat
  BY <1>1 DEF Sound
<1>3. PICK items \in Responses :
         LET content == Parse(items)
             uses == Only("use", content)
             answers == [i \in DOMAIN uses |-> ResultOf(uses[i].id)]
         IN  /\ lastId' = lastId + Len(uses)
             /\ history' = history \o <<[role |-> "assistant", content |-> content]>>
                           \o (IF uses = <<>> THEN <<>>
                               ELSE <<[role |-> "user", content |-> answers]>>)
  BY Zenon DEF CompleteTurn
<1>4. PICK content, uses, answers, said, told :
         /\ content = Parse(items) /\ uses = Only("use", content)
         /\ answers = [i \in DOMAIN uses |-> ResultOf(uses[i].id)]
         /\ said = [role |-> "assistant", content |-> content]
         /\ told = [role |-> "user", content |-> answers]
  BY Zenon
<1>5. /\ lastId' = lastId + Len(uses)
      /\ history' = history \o <<said>> \o (IF uses = <<>> THEN <<>> ELSE <<told>>)
  BY <1>3, <1>4, Zenon
<1>6. content \in Seq(Spoken) /\ Numbered(uses)
  <2>1. items \in Seq({"text", "call", "broken", "other"})
    BY DEF Responses
  <2> QED  BY <1>1, <1>2, <1>4, <2>1, ReadAny, Zenon
<1>7. PICK pos : TurnContent(content, pos, answers, Len(uses))
  BY <1>2, <1>4, <1>6, TurnParts, Zenon
<1> DEFINE n == Len(uses)
           more == lastId + n
           first == history \o <<said>>
           second == first \o <<told>>
<1>8. n \in Nat /\ more \in Nat /\ lastId <= more /\ more <= more
  BY <1>2, <1>7, SMTT(30) DEF TurnContent
<1>9. /\ Proper(said) /\ said.content = content /\ Proper(told) /\ told.content = answers
      /\ \A r \in 1..Len(content) : content[r].kind # "text" =>
         content[r].id \in (lastId + 1)..more
      /\ \A r \in 1..Len(answers) : answers[r].id \in (lastId + 1)..more
  BY <1>2, <1>4, <1>7, TurnMessages, SMTT(30)
<1> HIDE DEF n, more, first, second
<1>10. Sound(first, more) /\ Grows(history, first, lastId)
  <2>1. \A r \in 1..Len(said.content) :
           said.content[r].kind # "text" => said.content[r].id \in (lastId + 1)..more
    BY <1>9, Zenon
  <2> QED  BY <1>1, <1>2, <1>8, <1>9, <2>1, GrowMore, Zenon DEF first
<1>11. Sound(second, more) /\ Grows(first, second, lastId)
  <2>1. \A r \in 1..Len(told.content) :
           told.content[r].kind # "text" => told.content[r].id \in (lastId + 1)..more
    BY <1>9, Zenon
  <2> QED  BY <1>2, <1>8, <1>9, <1>10, <2>1, GrowMore, Zenon DEF second
<1>12. first \in Seq(WireMessage) /\ second \in Seq(WireMessage)
  BY <1>10, <1>11, Zenon DEF Sound
<1>13. \A id \in 1..lastId : AnsweredIn(first, id)
  BY <1>1, <1>2, <1>10, <1>12, AnswerStays, Zenon
<1>14. \A id \in 1..lastId : AnsweredIn(second, id)
  BY <1>2, <1>11, <1>12, <1>13, AnswerStays, Zenon
<1>15. Sound(history', more) /\ \A id \in 1..more : AnsweredIn(history', id)
  <2>1. CASE uses = <<>>
    <3>1. n = 0 /\ more = lastId
      BY <1>2, <2>1 DEF n, more
    <3>2. history' = first
      <4>1. history' = first \o <<>>
        BY <1>5, <2>1, Zenon DEF first
      <4> QED  BY <1>12, <4>1
    <3> QED  BY <1>10, <1>13, <3>1, <3>2, Zenon
  <2>2. CASE uses # <<>>
    <3>1. history' = second
      BY <1>5, <2>2, Zenon DEF first, second
    <3>2. said \in WireMessage /\ told \in WireMessage
      BY <1>9, Zenon DEF Proper
    <3>3. /\ Len(first) = Len(history) + 1 /\ first[Len(history) + 1] = said
          /\ \A x \in 1..Len(history) : first[x] = history[x]
      BY <1>2, <3>2, ConcatParts, SMTT(30) DEF first
    <3>4. /\ Len(second) = Len(first) + 1 /\ second[Len(first) + 1] = told
          /\ \A x \in 1..Len(first) : second[x] = first[x]
      BY <1>12, <3>2, ConcatParts DEF second
    <3>5. /\ Len(second) = Len(history) + 2 /\ second[Len(history) + 1] = said
          /\ second[Len(history) + 2] = told
      <4>1. Len(history) + 1 \in 1..Len(first) /\ Len(first) + 1 = Len(history) + 2
        BY <1>2, <3>3
      <4> QED  BY <3>3, <3>4, <4>1, Zenon
    <3>6. ASSUME NEW x \in 1..Len(history) PROVE second[x] = history[x]
      <4>1. x \in 1..Len(first)
        BY <1>2, <3>3
      <4> QED  BY <3>3, <3>4, <4>1, Zenon
    <3>7. \A k \in 1..n : AnsweredIn(second, lastId + k)
      <4>1. TurnContent(content, pos, answers, n)
        BY <1>7, Zenon DEF n
      <4> QED  BY <1>1, <1>2, <1>9, <3>5, <3>6, <4>1, NewAnswers, Zenon
    <3>8. ASSUME NEW id \in 1..more PROVE AnsweredIn(second, id)
      <4>1. CASE id \in 1..lastId
        BY <1>14, <4>1, Zenon
      <4>2. CASE id \notin 1..lastId
        <5>1. id - lastId \in 1..n /\ lastId + (id - lastId) = id
          BY <1>2, <1>8, <4>2, SMTT(30) DEF more
        <5> QED  BY <3>7, <5>1, Zenon
      <4> QED  BY <4>1, <4>2, Zenon
    <3> QED  BY <1>11, <3>1, <3>8, Zenon
  <2> QED  BY <2>1, <2>2, Zenon
<1>16. lastId' = more
  BY <1>5, Zenon DEF more, n
<1>17. (provider \in Providers)' /\ Sound(history, lastId)' /\
       (\A id \in 1..lastId : AnsweredIn(history, id))'
  BY <1>1, <1>15, <1>16, Zenon
<1> QED  BY <1>17, Zenon DEF WireInv

\* Every step keeps it.
LEMMA WireStep == WireInv /\ [WireNext]_wireVars => WireInv'
<1> SUFFICES ASSUME WireInv, [WireNext]_wireVars PROVE WireInv'
  BY Zenon
<1>1. ASSUME provider' = provider, history' = history, lastId' = lastId
      PROVE  WireInv'
  BY <1>1, Zenon DEF WireInv
<1>2. CASE PushUserPrompt
  BY <1>2, WirePrompt, Zenon
<1>3. CASE NoResponse
  <2>1. provider' = provider /\ history' = history /\ lastId' = lastId
    BY <1>3, Zenon DEF NoResponse
  <2> QED  BY <1>1, <2>1, Zenon
<1>4. CASE CompleteTurn
  BY <1>4, WireAnswer, Zenon
<1>5. CASE UNCHANGED wireVars
  <2>1. provider' = provider /\ history' = history /\ lastId' = lastId
    BY <1>5, Zenon DEF wireVars
  <2> QED  BY <1>1, <2>1, Zenon
<1> QED  BY <1>2, <1>3, <1>4, <1>5, Zenon DEF WireNext

\* What answers every call is sent with every call answered.
LEMMA WireFollows == WireInv => CallsAnsweredOnWire
<1> SUFFICES ASSUME WireInv PROVE CallsAnsweredOnWire
  BY Zenon
<1>1. /\ provider \in Providers /\ history \in Seq(WireMessage)
      /\ Len(history) \in Nat /\ lastId \in Nat
      /\ \A x \in 1..Len(history) : Proper(history[x])
      /\ \A id \in 1..lastId : AnsweredIn(history, id)
  BY DEF WireInv, Sound
<1>2. PICK f : Sends(f, history, Len(history)) /\ Request = f[Len(history)]
  BY <1>1, RequestIs, Zenon
<1>3. \A x \in 1..Len(history) : ToWire(history[x]) \in Seq(WireItem)
  <2>1. \A x \in 1..Len(history) : Carries(ToWire(history[x]), history[x])
    BY <1>1, WireKeeps, Zenon
  <2> QED  BY <2>1, Zenon DEF Carries
<1>4. Chunks(f, history, Len(history))
  BY <1>1, <1>2, <1>3, SendsChunks, Zenon
<1>5. ASSUME NEW id \in 1..lastId PROVE OnWire(Request, id)
  <2>1. id \in Nat /\ id > 0 /\ AnsweredIn(history, id)
    BY <1>1
  <2>2. OnWire(f[Len(history)], id)
    BY <1>1, <1>4, <2>1, AnswersCarried, Zenon
  <2> QED  BY <1>2, <2>2, Zenon
<1> QED  BY <1>5, Zenon DEF CallsAnsweredOnWire, OnWire

\* Prompts and turns, in any order.
WireSpec == WireInit /\ [][WireNext]_wireVars

\* In every request, whatever the backend's wire format (anthropic.rs, openai.rs,
\* realtime, local.rs), every call ever made stands once, with its output once and
\* after it, and no text of the user between the two (CallsAnsweredOnWire): a
\* request that breaks this is refused by the service.  This is for conversations
\* of any length.
THEOREM CallsStayAnswered == WireSpec => []CallsAnsweredOnWire
BY WireStart, WireStep, WireFollows, PTL DEF WireSpec

=============================================================================
