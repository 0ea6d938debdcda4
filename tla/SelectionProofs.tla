--------------------------- MODULE SelectionProofs ---------------------------
(* What a loop over a sequence keeps: the facts other proofs cite.           *)
EXTENDS Selection, SequencesExt, WellFoundedInduction, NaturalsInduction, TLAPS

\* A set of naturals that is not empty has a least element; what a loop
\* computes is proved by looking at the first turn where it would be wrong.
LEMMA LeastOf ==
    ASSUME NEW T \in SUBSET Nat, T # {}
    PROVE  \E x \in T : \A y \in T : x <= y
<1>1. PICK x \in T : \A y \in T : ~(<<y, x>> \in OpToRel(<, Nat))
  BY NatLessThanWellFounded, WFMin
<1>2. \A y \in T : ~(y < x)
  BY <1>1 DEF OpToRel
<1>3. x \in Nat /\ \A y \in T : y \in Nat
  OBVIOUS
<1> QED
  BY <1>2, <1>3

LEMMA EmptySequence ==
    ASSUME NEW T
    PROVE  <<>> \in Seq(T) /\ Range(<<>>) = {}
BY DEF Range

LEMMA NoElements ==
    ASSUME NEW T, NEW q \in Seq(T)
    PROVE  q = <<>> <=> Len(q) = 0
<1>1. Len(q) = 0 => q = <<>>
  OBVIOUS
<1>2. q = <<>> => Len(q) = 0
  OBVIOUS
<1> QED
  BY <1>1, <1>2

LEMMA AppendRange ==
    ASSUME NEW T, NEW q \in Seq(T), NEW x \in T
    PROVE  /\ Append(q, x) \in Seq(T) /\ Len(Append(q, x)) = Len(q) + 1
           /\ Range(Append(q, x)) = Range(q) \cup {x}
<1> DEFINE a == Append(q, x)
<1>1. /\ a \in Seq(T) /\ Len(a) = Len(q) + 1 /\ Len(q) \in Nat
      /\ DOMAIN a = 1 .. Len(a) /\ DOMAIN q = 1 .. Len(q)
      /\ a[Len(q) + 1] = x /\ \A i \in 1 .. Len(q) : a[i] = q[i]
  OBVIOUS
<1> HIDE DEF a
<1>2. DOMAIN a = DOMAIN q \cup {Len(q) + 1}
  BY <1>1
<1>3. {a[i] : i \in DOMAIN a} = {q[i] : i \in DOMAIN q} \cup {x}
  BY <1>1, <1>2
<1> QED
  BY <1>1, <1>3 DEF Range, a

\* The first element of a sequence and the others are all it holds.
LEMMA HeadTailRange ==
    ASSUME NEW T, NEW q \in Seq(T), q # <<>>
    PROVE  /\ Head(q) \in T /\ Head(q) \in Range(q)
           /\ Tail(q) \in Seq(T) /\ Len(Tail(q)) = Len(q) - 1 /\ Len(q) \in Nat \ {0}
           /\ Range(q) = {Head(q)} \cup Range(Tail(q))
<1> DEFINE a == Tail(q)
<1>1. /\ a \in Seq(T) /\ Len(q) \in Nat /\ Len(q) # 0 /\ Len(a) = Len(q) - 1
      /\ DOMAIN a = 1 .. Len(a) /\ DOMAIN q = 1 .. Len(q)
      /\ Head(q) = q[1] /\ \A i \in 1 .. Len(a) : a[i] = q[i + 1]
      /\ q[1] \in T
  OBVIOUS
<1> HIDE DEF a
<1>2. 1 \in DOMAIN q /\ \A i \in DOMAIN a : i + 1 \in DOMAIN q
  BY <1>1
<1>3. \A i \in DOMAIN q : i = 1 \/ (i - 1 \in DOMAIN a /\ q[i] = a[i - 1])
  BY <1>1
<1>4. {q[i] : i \in DOMAIN q} = {q[1]} \cup {a[i] : i \in DOMAIN a}
  <2>1. ASSUME NEW y \in {q[i] : i \in DOMAIN q} PROVE y \in {q[1]} \cup {a[i] : i \in DOMAIN a}
    BY <1>3
  <2>2. ASSUME NEW y \in {q[1]} \cup {a[i] : i \in DOMAIN a} PROVE y \in {q[i] : i \in DOMAIN q}
    BY <1>1, <1>2
  <2> QED
    BY <2>1, <2>2
<1> QED
  BY <1>1, <1>2, <1>4 DEF Range, a

\* The loop behind Those is defined.
LEMMA KeptExists ==
    ASSUME NEW s, NEW S, NEW n \in Nat
    PROVE  \E f : /\ f = [i \in 0 .. n |-> f[i]] /\ f[0] = <<>>
                 /\ \A i \in 1 .. n : f[i] = Keep(f[i - 1], s[i], S)
<1> DEFINE Runs(m, f) ==
             /\ f = [i \in 0 .. m |-> f[i]] /\ f[0] = <<>>
             /\ \A i \in 1 .. m : f[i] = Keep(f[i - 1], s[i], S)
           Bad == {m \in Nat : ~\E f : Runs(m, f)}
<1> SUFFICES ASSUME Bad # {}
             PROVE  FALSE
  OBVIOUS
<1>1. PICK m \in Bad : \A k \in Bad : m <= k
  BY LeastOf
<1>2. m \in Nat /\ ~\E f : Runs(m, f)
  OBVIOUS
<1>3. m # 0
  <2> SUFFICES ASSUME m = 0
               PROVE  FALSE
    OBVIOUS
  <2> DEFINE f == [i \in 0 .. 0 |-> <<>>]
  <2>1. f[0] = <<>> /\ f = [i \in 0 .. 0 |-> f[i]] /\ \A i \in 1 .. 0 : FALSE
    OBVIOUS
  <2> QED
    BY <1>2, <2>1
<1>4. m - 1 \in Nat /\ m - 1 \notin Bad
  <2>1. m - 1 \in Nat /\ ~(m <= m - 1)
    BY <1>2, <1>3
  <2> HIDE DEF Bad
  <2> QED
    BY <1>1, <2>1
<1>5. PICK f : Runs(m - 1, f)
  BY <1>4
<1> DEFINE g == [i \in 0 .. m |-> IF i < m THEN f[i] ELSE Keep(f[m - 1], s[m], S)]
<1>6. Runs(m, g)
  <2>1. g = [i \in 0 .. m |-> g[i]] /\ g[0] = <<>>
    BY <1>2, <1>3, <1>5
  <2>2. ASSUME NEW i \in 1 .. m
        PROVE  g[i] = Keep(g[i - 1], s[i], S)
    <3>1. i \in 0 .. m /\ i - 1 \in 0 .. m /\ i - 1 < m /\ g[i - 1] = f[i - 1]
      BY <1>2
    <3>2. CASE i = m
      BY <1>2, <1>3, <3>1, <3>2
    <3>3. CASE i # m
      <4>1. i < m /\ i \in 1 .. (m - 1)
        BY <1>2, <3>3
      <4> QED
        BY <1>5, <3>1, <4>1
    <3> QED
      BY <3>2, <3>3
  <2> QED
    BY <2>1, <2>2
<1> QED
  BY <1>2, <1>6

\* What the loop computes, turn by turn.
LEMMA KeptTurns ==
    ASSUME NEW s, NEW S, NEW n \in Nat, n = Len(s)
    PROVE  \E p : /\ Those(s, S) = p[n]
                 /\ p[0] = <<>>
                 /\ \A i \in 1 .. n : p[i] = Keep(p[i - 1], s[i], S)
<1> DEFINE Runs(f) ==
             f = [i \in 0 .. n |-> IF i = 0 THEN <<>> ELSE Keep(f[i - 1], s[i], S)]
           p == CHOOSE f : Runs(f)
<1>1. Runs(p)
  <2>1. PICK f : /\ f = [i \in 0 .. n |-> f[i]] /\ f[0] = <<>>
                 /\ \A i \in 1 .. n : f[i] = Keep(f[i - 1], s[i], S)
    BY KeptExists
  <2>2. \A i \in 0 .. n : f[i] = IF i = 0 THEN <<>> ELSE Keep(f[i - 1], s[i], S)
    BY <2>1
  <2>3. Runs(f)
    BY <2>1, <2>2
  <2> HIDE DEF Runs
  <2> QED
    BY <2>3
<1>2. Those(s, S) = p[n]
  BY DEF Those
<1> HIDE DEF p
<1>3. 0 \in 0 .. n /\ \A i \in 1 .. n : i \in 0 .. n /\ i # 0
  OBVIOUS
<1>4. p[0] = <<>> /\ \A i \in 1 .. n : p[i] = Keep(p[i - 1], s[i], S)
  BY <1>1, <1>3
<1> QED
  BY <1>2, <1>4

\* Those(s, S) is a sequence that holds the elements of s that are in S.
LEMMA ThoseFacts ==
    ASSUME NEW T, NEW s \in Seq(T), NEW S
    PROVE  /\ Those(s, S) \in Seq(T)
           /\ Range(Those(s, S)) = Range(s) \cap S
<1>1. Len(s) \in Nat /\ \A i \in 1 .. Len(s) : s[i] \in T
  OBVIOUS
<1>4. PICK p : /\ Those(s, S) = p[Len(s)]
               /\ p[0] = <<>>
               /\ \A i \in 1 .. Len(s) : p[i] = Keep(p[i - 1], s[i], S)
  BY <1>1, KeptTurns
<1>3. Those(s, S) = p[Len(s)]
  BY <1>4
<1> DEFINE Good(m) == /\ p[m] \in Seq(T)
                      /\ \A x : x \in Range(p[m]) <=> \E j \in 1 .. m : x = s[j] /\ x \in S
           Bad == {m \in 0 .. Len(s) : ~Good(m)}
<1>5. Bad = {}
  <2> SUFFICES ASSUME Bad # {}
               PROVE  FALSE
    OBVIOUS
  <2>1. Bad \in SUBSET Nat
    OBVIOUS
  <2>2. PICK m \in Bad : \A k \in Bad : m <= k
    BY <2>1, LeastOf
  <2>3. m \in 0 .. Len(s) /\ ~Good(m)
    OBVIOUS
  <2>4. m # 0
    <3>1. p[0] \in Seq(T) /\ Range(p[0]) = {}
      BY <1>4, EmptySequence
    <3>2. \A j \in 1 .. 0 : FALSE
      OBVIOUS
    <3> QED
      BY <2>3, <3>1, <3>2
  <2>5. m \in 1 .. Len(s) /\ m - 1 \in 0 .. Len(s) /\ m - 1 < m
    BY <1>1, <2>3, <2>4
  <2>6. Good(m - 1)
    <3>1. ~(m <= m - 1)
      BY <2>5
    <3>2. m - 1 \notin Bad
      <4> HIDE DEF Bad
      <4> QED
        BY <2>2, <3>1
    <3> HIDE DEF Good
    <3> QED
      BY <2>5, <3>2
  <2>7. CASE s[m] \in S
    <3> DEFINE q == p[m - 1]
    <3>1. p[m] = Append(q, s[m])
      BY <1>4, <2>5, <2>7 DEF Keep
    <3>2. q \in Seq(T) /\ s[m] \in T
      BY <1>1, <2>5, <2>6
    <3> HIDE DEF q
    <3>3. Append(q, s[m]) \in Seq(T) /\ Range(Append(q, s[m])) = Range(q) \cup {s[m]}
      BY <3>2, AppendRange
    <3>4. \A x : x \in Range(q) <=> \E j \in 1 .. (m - 1) : x = s[j] /\ x \in S
      BY <2>6 DEF q
    <3>5. 1 .. m = 1 .. (m - 1) \cup {m}
      BY <2>5
    <3>6. Good(m)
      BY <2>7, <3>1, <3>3, <3>4, <3>5
    <3> QED
      BY <2>3, <3>6
  <2>8. CASE s[m] \notin S
    <3>1. p[m] = p[m - 1]
      BY <1>4, <2>5, <2>8 DEF Keep
    <3>2. 1 .. m = 1 .. (m - 1) \cup {m}
      BY <2>5
    <3>3. Good(m)
      BY <2>6, <2>8, <3>1, <3>2
    <3> QED
      BY <2>3, <3>3
  <2> QED
    BY <2>7, <2>8
<1>6. Good(Len(s))
  <2> HIDE DEF Good
  <2> QED
    BY <1>1, <1>5
<1>7. Range(s) = {s[j] : j \in 1 .. Len(s)}
  BY DEF Range
<1> QED
  BY <1>3, <1>6, <1>7
==============================================================================
