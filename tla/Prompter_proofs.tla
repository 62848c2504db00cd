-------------------------- MODULE Prompter_proofs --------------------------
(***************************************************************************)
(* Proofs about Prompter, for any manifests, fixture files and answers,    *)
(* and any number of runs.                                                 *)
(***************************************************************************)
EXTENDS Prompter, SequenceTheorems, WellFoundedInduction, TLAPS

-----------------------------------------------------------------------------
(* Numbers, and functions that are defined by recursion *)

\* A set of numbers has a least member.
LEMMA Least ==
  ASSUME NEW T \in SUBSET Nat, T # {}
  PROVE  \E n \in T : \A k \in T : n <= k
<1> DEFINE R == {p \in Nat \X Nat : p[1] < p[2]}
<1>0. R = OpToRel(<, Nat)
  BY DEF OpToRel
<1>1. IsWellFoundedOn(R, Nat)
  BY <1>0, NatLessThanWellFounded
<1> HIDE DEF R
<1>2. \E x \in T : \A y \in T : <<y, x>> \notin R
  BY <1>1, WFMin, Zenon
<1>3. \A x, y \in Nat : <<y, x>> \notin R => x <= y
  BY DEF R
<1> QED
  BY <1>2, <1>3

\* Induction, for a set of numbers in the place of a predicate.
LEMMA Induction ==
  ASSUME NEW S, 0 \in S, \A n \in Nat : n \in S => n + 1 \in S
  PROVE  Nat \subseteq S
<1> SUFFICES ASSUME Nat \ S # {} PROVE FALSE
  OBVIOUS
<1>1. PICK n \in Nat \ S : \A k \in Nat \ S : n <= k
  <2> DEFINE T == Nat \ S
  <2>1. T \in SUBSET Nat /\ T # {}
    OBVIOUS
  <2> HIDE DEF T
  <2>2. \E x \in T : \A k \in T : x <= k
    BY <2>1, Least
  <2> QED
    BY <2>2 DEF T
<1>2. n # 0 /\ n - 1 \in Nat /\ ~(n <= n - 1)
  BY <1>1
<1>3. n - 1 \in S
  BY <1>1, <1>2
<1> QED
  BY <1>1, <1>2, <1>3

\* Each value of g on 0..N comes from the one before.
Follows(g, N, start, step) == g[0] = start /\ \A n \in 1..N : g[n] = step[n][g[n - 1]]

\* A function on 0..N may be defined by recursion if its values stay in V.
LEMMA Recursion ==
  ASSUME NEW N \in Nat, NEW V, NEW start \in V, NEW step \in [1..N -> [V -> V]]
  PROVE  \E g \in [0..N -> V] : Follows(g, N, start, step)
<1> DEFINE Good(g, k) == g[0] = start /\ \A n \in 1..k : n \in 1..N => g[n] = step[n][g[n - 1]]
           S == {k \in Nat : \E g \in [0..N -> V] : Good(g, k)}
<1>1. 0 \in S
  <2>1. Good([n \in 0..N |-> start], 0)
    OBVIOUS
  <2>2. [n \in 0..N |-> start] \in [0..N -> V]
    OBVIOUS
  <2> HIDE DEF Good
  <2> QED
    BY <2>1, <2>2
<1>2. ASSUME NEW k \in Nat, k \in S PROVE k + 1 \in S
  <2>1. PICK g \in [0..N -> V] : Good(g, k)
    BY <1>2
  <2>2. CASE k + 1 \notin 1..N
    <3>1. Good(g, k + 1)
      BY <2>1, <2>2
    <3> HIDE DEF Good
    <3> QED
      BY <3>1
  <2>3. CASE k + 1 \in 1..N
    <3> DEFINE v == step[k + 1][g[k]]
               h == [g EXCEPT ![k + 1] = v]
    <3>1. v \in V
      BY <2>3
    <3>2. h \in [0..N -> V]
      BY <3>1
    <3>3. h[k + 1] = v /\ \A n \in 0..k : h[n] = g[n]
      BY <2>3
    <3>4. h[0] = start
      BY <2>1, <3>3
    <3>5. ASSUME NEW n \in 1..(k + 1), n \in 1..N PROVE h[n] = step[n][h[n - 1]]
      <4> HIDE DEF h
      <4>1. CASE n = k + 1
        BY <3>3, <4>1
      <4>2. CASE n # k + 1
        <5>1. n \in 1..k /\ n - 1 \in 0..k /\ n \in 0..k
          BY <4>2
        <5>2. g[n] = step[n][g[n - 1]]
          BY <2>1, <3>5, <5>1
        <5> QED
          BY <3>3, <5>1, <5>2
      <4> QED
        BY <4>1, <4>2
    <3> HIDE DEF h
    <3>6. Good(h, k + 1)
      BY <3>4, <3>5
    <3> HIDE DEF Good
    <3> QED
      BY <3>2, <3>6
  <2> QED
    BY <2>2, <2>3
<1> HIDE DEF S
<1>3. N \in S
  BY <1>1, <1>2, Induction
<1>4. PICK g \in [0..N -> V] : Good(g, N)
  BY <1>3 DEF S
<1>5. Follows(g, N, start, step)
  BY <1>4 DEF Follows
<1> QED
  BY <1>5

\* What is true of the first value and of each from the one before is true of all.
LEMMA Stepwise ==
  ASSUME NEW N \in Nat, NEW S, 0 \in S, \A n \in 1..N : n - 1 \in S => n \in S
  PROVE  0..N \subseteq S
<1> DEFINE T == {n \in Nat : n \in 0..N => n \in S}
<1>1. 0 \in T
  OBVIOUS
<1>2. ASSUME NEW n \in Nat, n \in T PROVE n + 1 \in T
  BY <1>2
<1>3. Nat \subseteq T
  <2> HIDE DEF T
  <2> QED
    BY <1>1, <1>2, Induction
<1> QED
  BY <1>3

-----------------------------------------------------------------------------
(* The declarations of a manifest *)

\* The step of Order.
LEMMA OrderIs ==
  ASSUME NEW decls \in Seq(Field)
  PROVE  /\ Order(decls)[0] = << >>
         /\ \A n \in 1..Len(decls) :
              Order(decls)[n] =
                IF \E j \in 1..(n - 1) : decls[j].key = decls[n].key THEN Order(decls)[n - 1]
                ELSE Append(Order(decls)[n - 1], decls[n].key)
<1> DEFINE N == Len(decls)
           Next1(n, s) == IF \E j \in 1..(n - 1) : decls[j].key = decls[n].key THEN s
                          ELSE Append(s, decls[n].key)
           Of(g, n) == IF n = 0 THEN << >>
                       ELSE IF \E j \in 1..(n - 1) : decls[j].key = decls[n].key THEN g[n - 1]
                       ELSE Append(g[n - 1], decls[n].key)
           F(g) == [n \in 0..N |-> Of(g, n)]
           f == CHOOSE g : g = F(g)
           V == Seq(Keys)
           step == [n \in 1..N |-> [s \in V |-> Next1(n, s)]]
<1>0. N \in Nat
  OBVIOUS
<1>1. \A n \in 1..N : decls[n].key \in Keys
  <2>1. \A n \in 1..N : decls[n] \in Field
    BY ElementOfSeq
  <2>2. \A d \in Field : d.key \in Keys
    BY DEF Field
  <2> QED
    BY <2>1, <2>2, Zenon
<1>2. << >> \in V
  OBVIOUS
<1>3. \A n \in 1..N, s \in V : Next1(n, s) \in V
  BY <1>1
<1>4. \A g : Of(g, 0) = << >> /\ \A n \in 1..N : Of(g, n) = Next1(n, g[n - 1])
  <2>1. \A n \in 1..N : n # 0
    BY <1>0
  <2> QED
    BY <2>1, Zenon
<1>5. Order(decls) = f
  BY DEF Order
<1> HIDE DEF Next1, Of, N, V
<1>6. step \in [1..N -> [V -> V]]
  BY <1>3
<1>7. PICK g \in [0..N -> V] : g[0] = << >> /\ \A n \in 1..N : g[n] = step[n][g[n - 1]]
  <2> DEFINE start == << >>
  <2>1. start \in V
    BY <1>2
  <2> HIDE DEF step, start
  <2>2. \E g \in [0..N -> V] : Follows(g, N, start, step)
    BY <1>0, <1>6, <2>1, Recursion
  <2> QED
    BY <2>2, Zenon DEF start, Follows
<1>8. \A n \in 1..N : g[n] = Next1(n, g[n - 1])
  <2> SUFFICES ASSUME NEW n \in 1..N PROVE g[n] = Next1(n, g[n - 1])
    OBVIOUS
  <2>1. g[n - 1] \in V
    BY <1>0
  <2>2. step[n][g[n - 1]] = Next1(n, g[n - 1])
    BY <2>1
  <2> QED
    BY <1>7, <2>2, Zenon
<1>9. \A n \in 0..N : g[n] = Of(g, n)
  <2> SUFFICES ASSUME NEW n \in 0..N PROVE g[n] = Of(g, n)
    OBVIOUS
  <2>1. n = 0 \/ n \in 1..N
    BY <1>0
  <2> QED
    BY <1>4, <1>7, <1>8, <2>1
<1>10. g = F(g)
  BY <1>9
<1> HIDE DEF F
<1>11. f = F(f)
  BY <1>10
<1> HIDE DEF f
<1>12. f[0] = << >> /\ \A n \in 1..N : f[n] = Next1(n, f[n - 1])
  <2>1. \A n \in 0..N : f[n] = Of(f, n)
    BY <1>11 DEF F
  <2>2. 0 \in 0..N /\ \A n \in 1..N : n \in 0..N
    BY <1>0
  <2> QED
    BY <1>4, <2>1, <2>2
<1> QED
  BY <1>5, <1>12 DEF Next1, N

\* The keys in s are those of the first n declarations, each once.
Mentioned(decls, n, s) ==
  /\ s \in Seq(Keys)
  /\ \A p, q \in 1..Len(s) : p # q => s[p] # s[q]
  /\ \A j \in 1..n : \E p \in 1..Len(s) : s[p] = decls[j].key
  /\ \A p \in 1..Len(s) : \E j \in 1..n : s[p] = decls[j].key

\* One more declaration: its key is new, or it is there already.
LEMMA OneMoreMention ==
  ASSUME NEW decls, NEW n \in Nat, NEW s, Mentioned(decls, n, s), NEW k \in Keys,
         k = decls[n + 1].key
  PROVE  /\ (\E j \in 1..n : decls[j].key = k) => Mentioned(decls, n + 1, s)
         /\ ~(\E j \in 1..n : decls[j].key = k) => Mentioned(decls, n + 1, Append(s, k))
<1>1. ASSUME \E j \in 1..n : decls[j].key = k PROVE Mentioned(decls, n + 1, s)
  <2>1. ASSUME NEW j \in 1..(n + 1) PROVE \E p \in 1..Len(s) : s[p] = decls[j].key
    <3>1. \E i \in 1..n : decls[i].key = decls[j].key
      <4>1. j \in 1..n \/ j = n + 1
        OBVIOUS
      <4> QED
        BY <1>1, <4>1
    <3>2. PICK i \in 1..n : decls[i].key = decls[j].key
      BY <3>1
    <3>3. \E p \in 1..Len(s) : s[p] = decls[i].key
      BY DEF Mentioned
    <3> QED
      BY <3>2, <3>3
  <2>2. ASSUME NEW p \in 1..Len(s) PROVE \E j \in 1..(n + 1) : s[p] = decls[j].key
    <3>1. PICK j \in 1..n : s[p] = decls[j].key
      BY DEF Mentioned
    <3>2. j \in 1..(n + 1)
      OBVIOUS
    <3> QED
      BY <3>1, <3>2
  <2> QED
    BY <2>1, <2>2 DEF Mentioned
<1>2. ASSUME ~(\E j \in 1..n : decls[j].key = k) PROVE Mentioned(decls, n + 1, Append(s, k))
  <2> DEFINE t == Append(s, k)
  <2>1. s \in Seq(Keys)
    BY DEF Mentioned
  <2>2. /\ t \in Seq(Keys) /\ Len(t) = Len(s) + 1 /\ t[Len(s) + 1] = k
        /\ \A p \in 1..Len(s) : t[p] = s[p]
    BY <2>1, AppendProperties
  <2>3. Len(s) \in Nat
    BY <2>1
  <2>4. \A p \in 1..Len(s) : s[p] # k
    BY <1>2 DEF Mentioned
  <2> HIDE DEF t
  <2>5. ASSUME NEW p \in 1..Len(t), NEW q \in 1..Len(t), p # q PROVE t[p] # t[q]
    <3>1. p \in 1..Len(s) \/ p = Len(s) + 1
      BY <2>2, <2>3
    <3>2. q \in 1..Len(s) \/ q = Len(s) + 1
      BY <2>2, <2>3
    <3>3. CASE p \in 1..Len(s) /\ q \in 1..Len(s)
      BY <2>2, <2>5, <3>3 DEF Mentioned
    <3>4. CASE p \in 1..Len(s) /\ q = Len(s) + 1
      BY <2>2, <2>4, <3>4
    <3>5. CASE q \in 1..Len(s) /\ p = Len(s) + 1
      BY <2>2, <2>4, <3>5
    <3> QED
      BY <2>5, <3>1, <3>2, <3>3, <3>4, <3>5
  <2>6. ASSUME NEW j \in 1..(n + 1) PROVE \E p \in 1..Len(t) : t[p] = decls[j].key
    <3>1. CASE j \in 1..n
      <4>1. PICK p \in 1..Len(s) : s[p] = decls[j].key
        BY <3>1 DEF Mentioned
      <4>2. p \in 1..Len(t) /\ t[p] = s[p]
        BY <2>2, <2>3
      <4> QED
        BY <4>1, <4>2
    <3>2. CASE j = n + 1
      <4>1. Len(s) + 1 \in 1..Len(t)
        BY <2>2, <2>3
      <4> QED
        BY <2>2, <3>2, <4>1
    <3> QED
      BY <3>1, <3>2
  <2>7. ASSUME NEW p \in 1..Len(t) PROVE \E j \in 1..(n + 1) : t[p] = decls[j].key
    <3>1. CASE p \in 1..Len(s)
      <4>1. PICK j \in 1..n : s[p] = decls[j].key
        BY <3>1 DEF Mentioned
      <4>2. j \in 1..(n + 1) /\ t[p] = s[p]
        BY <2>2, <3>1
      <4> QED
        BY <4>1, <4>2
    <3>2. CASE p = Len(s) + 1
      <4>1. n + 1 \in 1..(n + 1)
        OBVIOUS
      <4> QED
        BY <2>2, <3>2, <4>1
    <3> QED
      BY <2>2, <2>3, <3>1, <3>2
  <2>8. Mentioned(decls, n + 1, t)
    BY <2>2, <2>5, <2>6, <2>7 DEF Mentioned
  <2> QED
    BY <2>8 DEF t
<1> QED
  BY <1>1, <1>2

\* Order names the keys of the declarations, each once.
LEMMA OrderMentions ==
  ASSUME NEW decls \in Seq(Field)
  PROVE  Mentioned(decls, Len(decls), Order(decls)[Len(decls)])
<1> DEFINE N == Len(decls)
           S == {n \in 0..N : Mentioned(decls, n, Order(decls)[n])}
<1>0. N \in Nat
  OBVIOUS
<1>1. 0 \in S
  <2>1. Mentioned(decls, 0, << >>)
    BY EmptySeq DEF Mentioned
  <2>2. Order(decls)[0] = << >>
    BY OrderIs
  <2> QED
    BY <1>0, <2>1, <2>2
<1>2. ASSUME NEW n \in 1..N, n - 1 \in S PROVE n \in S
  <2>1. n - 1 \in Nat /\ (n - 1) + 1 = n /\ n \in 0..N
    BY <1>0
  <2>2. decls[n].key \in Keys
    <3>1. decls[n] \in Field
      BY ElementOfSeq
    <3> QED
      BY <3>1 DEF Field
  <2>3. Mentioned(decls, n - 1, Order(decls)[n - 1])
    BY <1>2
  <2>4. Order(decls)[n] =
          IF \E j \in 1..(n - 1) : decls[j].key = decls[n].key THEN Order(decls)[n - 1]
          ELSE Append(Order(decls)[n - 1], decls[n].key)
    BY OrderIs
  <2>5. Mentioned(decls, n, Order(decls)[n])
    <3> DEFINE m == n - 1
               s == Order(decls)[m]
               k == decls[n].key
    <3> HIDE DEF m, s, k, N
    <3>1. m \in Nat /\ k \in Keys /\ k = decls[m + 1].key /\ m + 1 = n /\ Mentioned(decls, m, s)
      BY <2>1, <2>2, <2>3 DEF m, s, k
    <3>2. /\ (\E j \in 1..m : decls[j].key = k) => Mentioned(decls, n, s)
          /\ ~(\E j \in 1..m : decls[j].key = k) => Mentioned(decls, n, Append(s, k))
      BY <3>1, OneMoreMention
    <3>3. Order(decls)[n] = IF \E j \in 1..m : decls[j].key = k THEN s ELSE Append(s, k)
      BY <2>4 DEF m, s, k
    <3> QED
      BY <3>2, <3>3, Zenon
  <2> QED
    BY <2>1, <2>5
<1>3. 0..N \subseteq S
  <2> HIDE DEF S, N
  <2> QED
    BY <1>0, <1>1, <1>2, Stepwise
<1> QED
  BY <1>0, <1>3

\* The last declaration of a key.
LEMMA LastDeclaration ==
  ASSUME NEW decls \in Seq(Field), NEW j \in 1..Len(decls)
  PROVE  \E i \in 1..Len(decls) :
           /\ Declaration(decls, decls[j].key) = decls[i] /\ decls[i].key = decls[j].key
           /\ \A l \in 1..Len(decls) : decls[l].key = decls[j].key => l <= i
<1> DEFINE N == Len(decls)
           S == {i \in DOMAIN decls : decls[i].key = decls[j].key}
           T == {n \in Nat : \E i \in S : n = N - i}
<1>1. N \in Nat /\ DOMAIN decls = 1..N /\ j \in S
  BY LenProperties
<1>2. T \in SUBSET Nat /\ T # {}
  <2>1. N - j \in T
    BY <1>1
  <2> QED
    BY <2>1
<1>3. PICK n \in T : \A k \in T : n <= k
  <2> HIDE DEF T
  <2> QED
    BY <1>2, Least
<1>4. PICK i \in S : n = N - i
  OBVIOUS
<1>5. \A l \in S : i >= l
  <2> SUFFICES ASSUME NEW l \in S PROVE i >= l
    OBVIOUS
  <2>1. N - l \in T
    BY <1>1
  <2>2. n <= N - l
    BY <1>3, <2>1
  <2> QED
    BY <1>1, <1>4, <2>2
<1>6. \E x \in S : \A y \in S : x >= y
  BY <1>5
<1> DEFINE x == Max(S)
<1>7. x \in S /\ \A y \in S : x >= y
  BY <1>6, Zenon DEF Max
<1>8. Declaration(decls, decls[j].key) = decls[x]
  BY DEF Declaration
<1> HIDE DEF x
<1>9. x \in 1..N /\ decls[x].key = decls[j].key
  BY <1>1, <1>7
<1>10. \A l \in 1..N : decls[l].key = decls[j].key => l <= x
  <2> SUFFICES ASSUME NEW l \in 1..N, decls[l].key = decls[j].key PROVE l <= x
    OBVIOUS
  <2>1. l \in S
    BY <1>1
  <2> QED
    BY <1>7, <1>9, <2>1
<1> QED
  BY <1>8, <1>9, <1>10

Distinct(fs) == \A p, q \in 1..Len(fs) : p # q => fs[p].key # fs[q].key

\* connectionFields: each key has one field, what was declared last.
LEMMA MergedIs ==
  ASSUME NEW decls \in Seq(Field)
  PROVE  /\ Merged(decls) \in Seq(Field) /\ Distinct(Merged(decls))
         /\ \A p \in 1..Len(Merged(decls)) : \E j \in 1..Len(decls) : Merged(decls)[p] = decls[j]
         /\ \A j \in 1..Len(decls) :
              (\A l \in 1..Len(decls) : decls[l].key = decls[j].key => l <= j) =>
                \E p \in 1..Len(Merged(decls)) : Merged(decls)[p] = decls[j]
<1> DEFINE fs == Merged(decls)
           N == Len(decls)
           s == Order(decls)[N]
<1>0. N \in Nat /\ \A j \in 1..N : decls[j] \in Field
  BY ElementOfSeq
<1>1. Mentioned(decls, N, s)
  BY OrderMentions
<1>2. fs = [n \in 1..Len(s) |-> Declaration(decls, s[n])]
  BY DEF Merged
<1> HIDE DEF fs, s, N
<1>3. Len(s) \in Nat
  BY <1>1 DEF Mentioned
<1>4. ASSUME NEW p \in 1..Len(s)
      PROVE  \E i \in 1..N : /\ fs[p] = decls[i] /\ decls[i].key = s[p]
                             /\ \A l \in 1..N : decls[l].key = s[p] => l <= i
  <2>1. PICK j \in 1..N : s[p] = decls[j].key
    BY <1>1 DEF Mentioned
  <2>2. \E i \in 1..N : /\ Declaration(decls, s[p]) = decls[i] /\ decls[i].key = s[p]
                        /\ \A l \in 1..N : decls[l].key = s[p] => l <= i
    BY <2>1, LastDeclaration DEF N
  <2>3. fs[p] = Declaration(decls, s[p])
    BY <1>2
  <2> QED
    BY <2>2, <2>3
<1>5. \A p \in 1..Len(s) : fs[p] \in Field /\ fs[p].key = s[p] /\ \E j \in 1..N : fs[p] = decls[j]
  BY <1>0, <1>4
<1>6. fs \in Seq(Field) /\ Len(fs) = Len(s)
  <2>1. fs \in [1..Len(s) -> Field]
    BY <1>2, <1>5
  <2> QED
    BY <1>3, <2>1
<1>7. Distinct(fs)
  BY <1>1, <1>5, <1>6 DEF Distinct, Mentioned
<1>8. ASSUME NEW j \in 1..N, \A l \in 1..N : decls[l].key = decls[j].key => l <= j
      PROVE  \E p \in 1..Len(fs) : fs[p] = decls[j]
  <2>1. PICK p \in 1..Len(s) : s[p] = decls[j].key
    BY <1>1 DEF Mentioned
  <2>2. PICK i \in 1..N : /\ fs[p] = decls[i] /\ decls[i].key = s[p]
                          /\ \A l \in 1..N : decls[l].key = s[p] => l <= i
    BY <1>4
  <2>3. i <= j /\ j <= i
    BY <1>8, <2>1, <2>2
  <2>4. i = j
    BY <1>0, <2>3
  <2> QED
    BY <1>6, <2>2, <2>4
<1> QED
  BY <1>5, <1>6, <1>7, <1>8 DEF fs, N

\* The sections of a manifest.
LEMMA MethodsType ==
  ASSUME manifest \in Manifests
  PROVE  /\ Len(manifest.methods) \in Nat /\ DOMAIN manifest.methods = 1..Len(manifest.methods)
         /\ 0 \in 0..Len(manifest.methods)
         /\ \A n \in 1..Len(manifest.methods) : n \in 0..Len(manifest.methods)
         /\ Len(manifest.methods) = 0 => manifest.methods = << >>
         /\ manifest.shared \in Seq(Field)
         /\ \A n \in DOMAIN manifest.methods :
              manifest.methods[n].fields \in Seq(Field) /\ Distinct(manifest.methods[n].fields)
<1> DEFINE Method == [type : STRING, fields : Seq(Field)]
           ms == manifest.methods
<1>1. ms \in Seq(Method) /\ manifest.shared \in Seq(Field)
  BY PrompterAssumption
<1>2. \A x \in Method : x.fields \in Seq(Field)
  OBVIOUS
<1>3. \A n \in DOMAIN ms : \A i, j \in DOMAIN ms[n].fields :
        i # j => ms[n].fields[i].key # ms[n].fields[j].key
  BY PrompterAssumption
<1> HIDE DEF Method, ms
<1>4. Len(ms) \in Nat /\ DOMAIN ms = 1..Len(ms) /\ \A n \in DOMAIN ms : ms[n] \in Method
  BY <1>1
<1>5. Len(ms) = 0 => ms = << >>
  BY <1>1
<1>6. ASSUME NEW n \in DOMAIN ms PROVE ms[n].fields \in Seq(Field) /\ Distinct(ms[n].fields)
  <2>1. ms[n].fields \in Seq(Field)
    BY <1>2, <1>4
  <2>2. DOMAIN ms[n].fields = 1..Len(ms[n].fields)
    BY <2>1, LenProperties
  <2> QED
    BY <1>3, <2>1, <2>2 DEF Distinct
<1> QED
  BY <1>1, <1>4, <1>5, <1>6 DEF ms

\* What a manifest declares for a method, and the fields that a run visits.
LEMMA FieldsOfIs ==
  ASSUME manifest \in Manifests, NEW n \in 0..Len(manifest.methods)
  PROVE  /\ FieldsOf(n) \in Seq(Field) /\ Distinct(FieldsOf(n))
         /\ \A p \in 1..Len(FieldsOf(n)) : FieldsOf(n)[p] \in FieldDecls
         /\ n # 0 => \A d \in Range(manifest.methods[n].fields) :
                       \E p \in 1..Len(FieldsOf(n)) : FieldsOf(n)[p] = d
<1> DEFINE shared == manifest.shared
           own    == IF n = 0 THEN << >> ELSE manifest.methods[n].fields
           decls  == shared \o own
<1>1. /\ Len(manifest.methods) \in Nat /\ DOMAIN manifest.methods = 1..Len(manifest.methods)
      /\ shared \in Seq(Field)
      /\ \A i \in DOMAIN manifest.methods :
           manifest.methods[i].fields \in Seq(Field) /\ Distinct(manifest.methods[i].fields)
  BY MethodsType
<1>2. n # 0 => n \in DOMAIN manifest.methods
  BY <1>1
<1>3. own \in Seq(Field) /\ Distinct(own)
  <2>1. CASE n = 0
    <3>1. own = << >>
      BY <2>1
    <3>2. << >> \in Seq(Field) /\ Distinct(<< >>)
      BY EmptySeq DEF Distinct
    <3> QED
      BY <3>1, <3>2
  <2>2. CASE n # 0
    <3>1. own = manifest.methods[n].fields
      BY <2>2
    <3>2. manifest.methods[n].fields \in Seq(Field)
      BY <1>1, <1>2, <2>2
    <3>3. Distinct(manifest.methods[n].fields)
      BY <1>1, <1>2, <2>2
    <3> QED
      BY <3>1, <3>2, <3>3
  <2> QED
    BY <2>1, <2>2
<1>4. /\ \A i \in 1..Len(shared) : shared[i] \in FieldDecls
      /\ \A i \in 1..Len(own) : own[i] \in FieldDecls
  <2>1. \A i \in 1..Len(shared) : shared[i] \in Range(shared)
    <3>1. DOMAIN shared = 1..Len(shared)
      BY <1>1, LenProperties
    <3> QED
      BY <3>1 DEF Range
  <2>2. \A d \in Range(shared) : d \in FieldDecls
    BY DEF FieldDecls
  <2>3. ASSUME n # 0 PROVE \A i \in 1..Len(own) : own[i] \in FieldDecls
    <3>1. own = manifest.methods[n].fields
      BY <2>3
    <3>2. \A d \in Range(manifest.methods[n].fields) : d \in FieldDecls
      BY <1>2, <2>3 DEF FieldDecls
    <3>3. DOMAIN own = 1..Len(own)
      BY <1>3, LenProperties
    <3>4. \A i \in 1..Len(own) : own[i] \in Range(own)
      BY <3>3 DEF Range
    <3> QED
      BY <3>1, <3>2, <3>4
  <2>4. ASSUME n = 0 PROVE \A i \in 1..Len(own) : own[i] \in FieldDecls
    <3>1. own = << >>
      BY <2>4
    <3>2. Len(own) = 0
      BY <3>1, EmptySeq
    <3> QED
      BY <3>2
  <2> QED
    BY <2>1, <2>2, <2>3, <2>4
<1>5. FieldsOf(n) = Merged(decls)
  BY DEF FieldsOf
<1>6. n # 0 => Range(manifest.methods[n].fields) = {own[i] : i \in 1..Len(own)}
  <2>1. DOMAIN own = 1..Len(own)
    BY <1>3, LenProperties
  <2>2. n # 0 => own = manifest.methods[n].fields
    OBVIOUS
  <2> HIDE DEF own
  <2> QED
    BY <2>1, <2>2 DEF Range
<1> HIDE DEF shared, own
<1>7. /\ decls \in Seq(Field) /\ Len(decls) = Len(shared) + Len(own)
      /\ \A i \in 1..Len(shared) : decls[i] = shared[i]
      /\ \A i \in 1..Len(own) : decls[Len(shared) + i] = own[i]
      /\ Len(shared) \in Nat /\ Len(own) \in Nat
  <2>1. Len(shared) \in Nat /\ Len(own) \in Nat
    BY <1>1, <1>3
  <2> QED
    BY <1>1, <1>3, <2>1, ConcatProperties
<1> HIDE DEF decls
<1>8. \A i \in 1..Len(decls) : i \in 1..Len(shared) \/ \E k \in 1..Len(own) : i = Len(shared) + k
  <2> SUFFICES ASSUME NEW i \in 1..Len(decls), i \notin 1..Len(shared)
               PROVE  \E k \in 1..Len(own) : i = Len(shared) + k
    OBVIOUS
  <2>1. i - Len(shared) \in 1..Len(own) /\ i = Len(shared) + (i - Len(shared))
    BY <1>7
  <2> QED
    BY <2>1
<1>9. \A i \in 1..Len(decls) : decls[i] \in FieldDecls
  BY <1>4, <1>7, <1>8
<1>10. ASSUME NEW k \in 1..Len(own)
       PROVE  \E p \in 1..Len(Merged(decls)) : Merged(decls)[p] = own[k]
  <2> DEFINE j == Len(shared) + k
  <2>1. j \in 1..Len(decls) /\ decls[j] = own[k]
    BY <1>7
  <2>2. ASSUME NEW l \in 1..Len(decls), decls[l].key = decls[j].key PROVE l <= j
    <3>1. CASE l \in 1..Len(shared)
      BY <1>7, <3>1
    <3>2. CASE \E i \in 1..Len(own) : l = Len(shared) + i
      <4>1. PICK i \in 1..Len(own) : l = Len(shared) + i
        BY <3>2
      <4>2. own[i].key = own[k].key
        BY <1>7, <2>1, <2>2, <4>1
      <4>3. i = k
        BY <1>3, <4>2 DEF Distinct
      <4> QED
        BY <1>7, <4>1, <4>3
    <3> QED
      BY <1>8, <3>1, <3>2
  <2> HIDE DEF j
  <2>3. \E p \in 1..Len(Merged(decls)) : Merged(decls)[p] = decls[j]
    <3>1. decls \in Seq(Field)
      BY <1>7
    <3>2. \A l \in 1..Len(decls) : decls[l].key = decls[j].key => l <= j
      BY <2>2
    <3> QED
      BY <2>1, <3>1, <3>2, MergedIs, Zenon
  <2> QED
    BY <2>1, <2>3
<1>11. /\ Merged(decls) \in Seq(Field) /\ Distinct(Merged(decls))
       /\ \A p \in 1..Len(Merged(decls)) : \E j \in 1..Len(decls) : Merged(decls)[p] = decls[j]
  <2>1. decls \in Seq(Field)
    BY <1>7
  <2> QED
    BY <2>1, MergedIs, Zenon
<1>12. \A p \in 1..Len(Merged(decls)) : Merged(decls)[p] \in FieldDecls
  BY <1>9, <1>11
<1>13. n # 0 => \A d \in Range(manifest.methods[n].fields) :
                  \E p \in 1..Len(Merged(decls)) : Merged(decls)[p] = d
  BY <1>6, <1>10
<1> QED
  BY <1>5, <1>11, <1>12, <1>13

\* The first of some methods is one of them.
LEMMA MinIs ==
  ASSUME NEW N \in Nat, NEW S \in SUBSET (1..N), S # {}
  PROVE  Min(S) \in S
<1>1. S \in SUBSET Nat
  OBVIOUS
<1>2. \E x \in S : \A y \in S : x <= y
  BY <1>1, Least
<1> QED
  BY <1>2, Zenon DEF Min

-----------------------------------------------------------------------------
(* The answers to the fields *)

\* The step of Lines.
LEMMA LinesSteps ==
  ASSUME NEW fs \in Seq(Field), NEW known, NEW a
  PROVE  /\ Lines(fs, known, a)[0] = << >>
         /\ \A n \in 1..Len(fs) :
              Lines(fs, known, a)[n] =
                IF fs[Len(fs) - n + 1].key \in DOMAIN known THEN Lines(fs, known, a)[n - 1]
                ELSE <<a[fs[Len(fs) - n + 1].key]>> \o Lines(fs, known, a)[n - 1]
<1> DEFINE N == Len(fs)
           key(n) == fs[N - n + 1].key
           Next1(n, s) == IF key(n) \in DOMAIN known THEN s ELSE <<a[key(n)]>> \o s
           Of(g, n) == IF n = 0 THEN << >>
                       ELSE IF key(n) \in DOMAIN known THEN g[n - 1]
                       ELSE <<a[key(n)]>> \o g[n - 1]
           F(g) == [n \in 0..N |-> Of(g, n)]
           f == CHOOSE g : g = F(g)
           T == {a[fs[i].key] : i \in 1..Len(fs)}
           V == Seq(T)
           step == [n \in 1..N |-> [s \in V |-> Next1(n, s)]]
<1>0. N \in Nat
  OBVIOUS
<1>1. \A n \in 1..N : a[key(n)] \in T
  <2> SUFFICES ASSUME NEW n \in 1..N PROVE a[key(n)] \in T
    OBVIOUS
  <2>1. N - n + 1 \in 1..Len(fs)
    BY <1>0
  <2> QED
    BY <2>1
<1>2. << >> \in V
  OBVIOUS
<1>3. \A n \in 1..N, s \in V : Next1(n, s) \in V
  <2> SUFFICES ASSUME NEW n \in 1..N, NEW s \in V PROVE Next1(n, s) \in V
    OBVIOUS
  <2> DEFINE t == a[key(n)]
  <2>1. t \in T
    BY <1>1
  <2> HIDE DEF t, T
  <2>2. <<t>> \o s \in V
    <3>1. <<t>> \in Seq(T)
      BY <2>1
    <3> QED
      BY <3>1, ConcatProperties
  <2> QED
    BY <2>2 DEF t
<1>4. \A g : Of(g, 0) = << >> /\ \A n \in 1..N : Of(g, n) = Next1(n, g[n - 1])
  <2>1. \A n \in 1..N : n # 0
    BY <1>0
  <2> HIDE DEF key
  <2> QED
    BY <2>1, Zenon
<1>5. Lines(fs, known, a) = f
  BY DEF Lines
<1> HIDE DEF Next1, Of, N, V, T
<1>6. step \in [1..N -> [V -> V]]
  BY <1>3
<1>7. PICK g \in [0..N -> V] : g[0] = << >> /\ \A n \in 1..N : g[n] = step[n][g[n - 1]]
  <2> DEFINE start == << >>
  <2>1. start \in V
    BY <1>2
  <2> HIDE DEF step, start
  <2>2. \E g \in [0..N -> V] : Follows(g, N, start, step)
    BY <1>0, <1>6, <2>1, Recursion
  <2> QED
    BY <2>2, Zenon DEF start, Follows
<1>8. \A n \in 1..N : g[n] = Next1(n, g[n - 1])
  <2> SUFFICES ASSUME NEW n \in 1..N PROVE g[n] = Next1(n, g[n - 1])
    OBVIOUS
  <2>1. g[n - 1] \in V
    BY <1>0
  <2>2. step[n][g[n - 1]] = Next1(n, g[n - 1])
    BY <2>1
  <2> QED
    BY <1>7, <2>2, Zenon
<1>9. \A n \in 0..N : g[n] = Of(g, n)
  <2> SUFFICES ASSUME NEW n \in 0..N PROVE g[n] = Of(g, n)
    OBVIOUS
  <2>1. n = 0 \/ n \in 1..N
    BY <1>0
  <2> QED
    BY <1>4, <1>7, <1>8, <2>1
<1>10. g = F(g)
  BY <1>9
<1> HIDE DEF F
<1>11. f = F(f)
  BY <1>10
<1> HIDE DEF f
<1>12. f[0] = << >> /\ \A n \in 1..N : f[n] = Next1(n, f[n - 1])
  <2>1. \A n \in 0..N : f[n] = Of(f, n)
    BY <1>11 DEF F
  <2>2. 0 \in 0..N /\ \A n \in 1..N : n \in 0..N
    BY <1>0
  <2> QED
    BY <1>4, <2>1, <2>2
<1>13. \A n \in 1..N :
         f[n] = IF key(n) \in DOMAIN known THEN f[n - 1] ELSE <<a[key(n)]>> \o f[n - 1]
  <2> HIDE DEF key
  <2> QED
    BY <1>12, Zenon DEF Next1
<1> QED
  BY <1>5, <1>12, <1>13, Zenon DEF N

\* The answers are lines that a user types at a field.
LEMMA LinesType ==
  ASSUME NEW fs \in Seq(Field), NEW known, NEW a,
         \A i \in 1..Len(fs) : a[fs[i].key] \in Texts
  PROVE  \A n \in 0..Len(fs) : Lines(fs, known, a)[n] \in Seq(Texts)
<1> DEFINE N == Len(fs)
           f == Lines(fs, known, a)
           S == {n \in 0..N : f[n] \in Seq(Texts)}
<1>0. N \in Nat
  OBVIOUS
<1>1. 0 \in S
  <2>1. f[0] = << >> /\ << >> \in Seq(Texts)
    BY LinesSteps, EmptySeq
  <2>2. f[0] \in Seq(Texts)
    BY <2>1, Zenon
  <2> HIDE DEF f
  <2> QED
    BY <1>0, <2>2
<1>2. ASSUME NEW n \in 1..N, n - 1 \in S PROVE n \in S
  <2> DEFINE k == N - n + 1
             t == a[fs[k].key]
  <2>1. k \in 1..Len(fs)
    BY <1>0
  <2>2. t \in Texts
    BY <2>1
  <2>3. f[n] = IF fs[k].key \in DOMAIN known THEN f[n - 1] ELSE <<t>> \o f[n - 1]
    BY LinesSteps
  <2> HIDE DEF k, t, f
  <2>4. f[n - 1] \in Seq(Texts)
    BY <1>2
  <2>5. <<t>> \o f[n - 1] \in Seq(Texts)
    <3>1. <<t>> \in Seq(Texts)
      BY <2>2
    <3> QED
      BY <2>4, <3>1, ConcatProperties
  <2>6. f[n] \in Seq(Texts)
    BY <2>3, <2>4, <2>5, Zenon
  <2> QED
    BY <1>0, <2>6
<1>3. 0..N \subseteq S
  <2> HIDE DEF S, f, N
  <2> QED
    BY <1>0, <1>1, <1>2, Stepwise
<1> QED
  BY <1>3

-----------------------------------------------------------------------------
(* The echo of the terminal *)

\* What readPasswordNoEcho found is what it restores: an echo, unless an earlier run was
\* interrupted without one.
EchoInv ==
  /\ EchoRestored
  /\ pc = "secret" => orig \/ "secret" \in cut

LEMMA EchoInit == Init => EchoInv
BY DEF Init, EchoInv, EchoRestored

LEMMA EchoStep == EchoInv /\ [Next]_vars => EchoInv'
<1> SUFFICES ASSUME EchoInv, [Next]_vars PROVE EchoInv'
  OBVIOUS
<1> USE DEF EchoInv, EchoRestored, terminal, Fail
<1>1. CASE UNCHANGED vars
  BY <1>1 DEF vars
<1>2. CASE Start
  <2>1. /\ pc # "secret" /\ pc' # "secret"
        /\ echo' = echo \/ echo' = TRUE
        /\ cut' = cut
    BY <1>2 DEF Start, Active, Ended
  <2> QED
    BY <2>1
<1>3. CASE PickMethod
  BY <1>3 DEF PickMethod, Chosen, ChosenIn, AskOrNone
<1>4. CASE ReadChoice
  BY <1>4 DEF ReadChoice, Chosen, ChosenIn
<1>5. CASE SkipField
  BY <1>5 DEF SkipField
<1>6. CASE Prompt
  BY <1>6 DEF Prompt
<1>7. CASE ReadField
  BY <1>7 DEF ReadField, Accept
<1>8. CASE ReadSecret
  BY <1>8 DEF ReadSecret, Accept
<1>9. CASE Resolve
  BY <1>9 DEF Resolve
<1>10. CASE OpenFile
  BY <1>10 DEF OpenFile
<1>11. CASE WriteFile
  BY <1>11 DEF WriteFile
<1>12. CASE ReadError
  BY <1>12 DEF ReadError
<1>13. CASE UserTypes
  BY <1>13 DEF UserTypes
<1>14. CASE Interrupt
  BY <1>14 DEF Interrupt
<1> QED
  BY <1>1, <1>2, <1>3, <1>4, <1>5, <1>6, <1>7, <1>8, <1>9, <1>10, <1>11, <1>12, <1>13, <1>14
     DEF Next, Step

\* The deferred restore of readPasswordNoEcho: the terminal echoes, except while a secret is
\* typed and after an interrupt of that.
THEOREM EchoIsRestored == Spec => []EchoRestored
<1>1. EchoInv => EchoRestored
  BY DEF EchoInv
<1> QED
  BY EchoInit, EchoStep, <1>1, PTL DEF Spec, Safety

-----------------------------------------------------------------------------
(* What the author wrote *)

\* Does a fixture with this connection hold what the author wrote?
Keeps(f, connection) ==
  LET a == Loaded(authored)
  IN  /\ f.auth = a.auth /\ f.expect = a.expect
      /\ \A k \in DOMAIN a.connection :
           k \in DOMAIN connection /\ connection[k] = a.connection[k]

Parts == {"auth", "connection", "expect"}

\* Unless a run was cut short in SaveFixture, the file and a run hold what the author wrote.
\* A field is only asked for if it is not in the connection yet.
KeptInv ==
  /\ DOMAIN file.fixture = Parts
  /\ DOMAIN fixture = Parts
  /\ pc \in {"prompt", "secret"} => Head(fields).key \notin DOMAIN out
  /\ "save" \notin cut =>
       /\ pc # "write" => Keeps(Loaded(file), Loaded(file).connection)
       /\ Active => Keeps(fixture, out)

LEMMA KeptInit == Init => KeptInv
<1> SUFFICES ASSUME Init PROVE KeptInv
  OBVIOUS
<1>1. DOMAIN file.fixture = Parts
  BY PrompterAssumption DEF Init, Parts
<1>2. DOMAIN fixture = Parts
  BY DEF Init, DefaultFixture, Parts
<1>3. Keeps(Loaded(file), Loaded(file).connection)
  BY DEF Init, Keeps
<1>4. pc = "idle"
  BY DEF Init
<1> QED
  BY <1>1, <1>2, <1>3, <1>4 DEF KeptInv, Active, Ended

\* One more value leaves those that are there.
LEMMA OneMore ==
  ASSUME NEW d, NEW v, NEW connection, NEW f, d \notin DOMAIN connection,
         Keeps(f, connection)
  PROVE  Keeps(f, With(connection, d, v))
<1> DEFINE new == With(connection, d, v)
<1>1. \A k \in DOMAIN connection : k \in DOMAIN new /\ new[k] = connection[k]
  BY DEF With
<1> HIDE DEF new
<1> QED
  BY <1>1 DEF Keeps, new

LEMMA KeptAccept ==
  ASSUME KeptInv, pc \in {"prompt", "secret"}, NEW line, Accept(Head(fields), line),
         UNCHANGED <<file, authored, fixture, cut>>
  PROVE  KeptInv'
<1> DEFINE d == Head(fields)
<1>1. d.key \notin DOMAIN out
  BY DEF KeptInv
<1>2. \/ out' = out
      \/ \E v : out' = With(out, d.key, v)
  BY Zenon DEF Accept
<1>3. pc' \in {"failed", "fields"}
  BY DEF Accept, Fail
<1>4. "save" \notin cut => Keeps(fixture, out')
  <2>1. "save" \notin cut => Keeps(fixture, out)
    BY DEF KeptInv, Active, Ended
  <2> QED
    BY <1>1, <1>2, <2>1, OneMore
<1>5. "save" \notin cut => Keeps(Loaded(file), Loaded(file).connection)
  BY DEF KeptInv
<1> QED
  BY <1>3, <1>4, <1>5 DEF KeptInv, Keeps, Loaded

LEMMA KeptStep == KeptInv /\ [Next]_vars => KeptInv'
<1> SUFFICES ASSUME KeptInv, [Next]_vars PROVE KeptInv'
  OBVIOUS
<1>0. /\ pc \in {"pick", "choice", "fields", "prompt", "secret", "save", "write"} => Active
      /\ pc' \in Ended => ~Active'
  BY DEF Active, Ended
<1> DEFINE Kept == UNCHANGED <<file, authored, fixture, out, cut>>
<1> USE DEF Fail, given, input, terminal, run
\* Most steps leave the file and the connection alone, and do not reach a prompt.
<1>1. ASSUME Kept, Active' => Active, pc' = "write" <=> pc = "write",
             pc' \notin {"prompt", "secret"} PROVE KeptInv'
  BY <1>1 DEF KeptInv, Keeps, Loaded
<1>2. CASE UNCHANGED vars
  BY <1>2 DEF vars, KeptInv, Keeps, Loaded, Active
<1>3. CASE Start
  <2>1. /\ UNCHANGED <<file, authored, cut>>
        /\ pc # "write" /\ pc' \in {"failed", "pick"}
        /\ fixture' = Loaded(file) /\ out' = fixture'.connection
    BY <1>3 DEF Start, Active, Ended
  <2>2. DOMAIN fixture' = Parts
    BY <2>1 DEF KeptInv, Loaded, DefaultFixture, Parts
  <2>3. "save" \notin cut => Keeps(Loaded(file), Loaded(file).connection)
    BY <2>1 DEF KeptInv
  <2> QED
    BY <2>1, <2>2, <2>3 DEF KeptInv, Keeps, Loaded
<1>4. CASE PickMethod
  <2>1. Kept /\ pc = "pick" /\ pc' \in {"fields", "choice", "failed"}
    BY <1>4 DEF PickMethod, Chosen, ChosenIn, AskOrNone
  <2> QED
    BY <1>0, <1>1, <2>1
<1>5. CASE ReadChoice
  <2>1. Kept /\ pc = "choice" /\ pc' \in {"fields", "failed"}
    BY <1>5 DEF ReadChoice, Chosen, ChosenIn
  <2> QED
    BY <1>0, <1>1, <2>1
<1>6. CASE SkipField
  <2>1. Kept /\ pc = "fields" /\ pc' \in {"fields", "failed"}
    BY <1>6 DEF SkipField
  <2> QED
    BY <1>0, <1>1, <2>1
<1>7. CASE Prompt
  <2>1. /\ Kept /\ fields' = fields /\ pc = "fields" /\ pc' \in {"prompt", "secret"}
        /\ Head(fields).key \notin DOMAIN out
    BY <1>7 DEF Prompt
  <2> QED
    BY <1>0, <2>1 DEF KeptInv, Keeps, Loaded
<1>8. CASE ReadField
  <2>1. PICK line : Accept(Head(fields), line)
    BY <1>8 DEF ReadField
  <2> QED
    BY <1>8, <2>1, KeptAccept DEF ReadField
<1>9. CASE ReadSecret
  <2>1. PICK line : Accept(Head(fields), line)
    BY <1>9 DEF ReadSecret
  <2> QED
    BY <1>9, <2>1, KeptAccept DEF ReadSecret
<1>10. CASE Resolve
  <2>1. Kept /\ pc = "fields" /\ pc' \in {"save", "done"}
    BY <1>10 DEF Resolve
  <2> QED
    BY <1>0, <1>1, <2>1
<1>11. CASE OpenFile
  <2>1. /\ UNCHANGED <<authored, fixture, out, cut>> /\ pc = "save"
        /\ \/ pc' = "write" /\ file' = [state |-> "empty", fixture |-> DefaultFixture]
           \/ pc' = "failed" /\ UNCHANGED file
    BY <1>11 DEF OpenFile
  <2>2. DOMAIN DefaultFixture = Parts
    BY DEF DefaultFixture, Parts
  <2> QED
    BY <1>0, <2>1, <2>2 DEF KeptInv, Keeps, Loaded, Ended
<1>12. CASE WriteFile
  <2>1. CASE /\ file' = [state |-> "present", fixture |-> Resolved]
             /\ pc' = "done" /\ UNCHANGED cut
    <3>1. /\ DOMAIN Resolved = Parts /\ Resolved.auth = fixture.auth
          /\ Resolved.expect = fixture.expect /\ Resolved.connection = out
      BY DEF Resolved, KeptInv, Parts
    <3>2. "save" \notin cut => Keeps(fixture, out)
      BY <1>0, <1>12 DEF KeptInv, WriteFile
    <3>3. UNCHANGED <<authored, fixture, out>>
      BY <1>12 DEF WriteFile
    <3>4. Loaded(file') = Resolved
      BY <2>1 DEF Loaded
    <3>5. "save" \notin cut => Keeps(Resolved, out)
      BY <3>1, <3>2 DEF Keeps
    <3> QED
      BY <1>0, <2>1, <3>1, <3>3, <3>4, <3>5 DEF KeptInv, Keeps, Loaded, Ended
  <2>2. CASE pc' = "failed" /\ cut' = cut \cup {"save"} /\ DOMAIN file'.fixture = Parts
    BY <1>12, <2>2 DEF WriteFile, KeptInv
  <2>3. DOMAIN DefaultFixture = Parts /\ DOMAIN Resolved = Parts
    BY DEF DefaultFixture, Resolved, KeptInv, Parts
  <2>4. \A known \in SUBSET DOMAIN out :
          DOMAIN [Resolved EXCEPT !.connection = Restrict(out, known),
                                  !.expect = "default"] = Parts
    BY <2>3
  <2>5. ASSUME \/ file' \in [state : {"empty", "garbled"}, fixture : {DefaultFixture}]
               \/ \E known \in SUBSET DOMAIN out :
                    file' = [state |-> "present",
                             fixture |-> [Resolved EXCEPT !.connection = Restrict(out, known),
                                                          !.expect = "default"]]
        PROVE  DOMAIN file'.fixture = Parts
    <3>1. CASE file' \in [state : {"empty", "garbled"}, fixture : {DefaultFixture}]
      BY <2>3, <3>1
    <3>2. CASE \E known \in SUBSET DOMAIN out :
                 file' = [state |-> "present",
                          fixture |-> [Resolved EXCEPT !.connection = Restrict(out, known),
                                                       !.expect = "default"]]
      <4>1. PICK known \in SUBSET DOMAIN out :
              file' = [state |-> "present",
                       fixture |-> [Resolved EXCEPT !.connection = Restrict(out, known),
                                                    !.expect = "default"]]
        BY <3>2
      <4> QED
        BY <2>4, <4>1
    <3> QED
      BY <2>5, <3>1, <3>2
  <2> QED
    BY <1>12, <2>1, <2>2, <2>5, Zenon DEF WriteFile
<1>13. CASE ReadError
  <2>1. Kept /\ pc' = "failed" /\ pc \in {"prompt", "secret"}
    BY <1>13 DEF ReadError
  <2> QED
    BY <1>0, <1>1, <2>1
<1>14. CASE UserTypes
  BY <1>14 DEF UserTypes, KeptInv, Keeps, Loaded, Active
<1>15. CASE Interrupt
  <2>1. /\ UNCHANGED <<file, authored, fixture, out>> /\ pc' = "idle"
        /\ pc = "write" => "save" \in cut'
        /\ cut \subseteq cut'
    BY <1>15 DEF Interrupt
  <2> QED
    BY <1>0, <2>1 DEF KeptInv, Keeps, Loaded, Ended
<1> QED
  BY <1>2, <1>3, <1>4, <1>5, <1>6, <1>7, <1>8, <1>9, <1>10, <1>11, <1>12, <1>13, <1>14, <1>15
     DEF Next, Step

\* Whatever is resolved, saved and loaded again, what the author wrote by hand stays in the
\* file (SaveFixture writes the loaded fixture back), unless a run was cut short in the write.
THEOREM AuthorsPartsAreKept == Spec => []AuthorsPartsSurvive
<1>1. KeptInv => AuthorsPartsSurvive
  BY Zenon DEF KeptInv, Keeps, AuthorsPartsSurvive
<1> QED
  BY KeptInit, KeptStep, <1>1, PTL DEF Spec, Safety

-----------------------------------------------------------------------------
(* The invariant of a run *)

AllLines  == Texts \cup Range(Numerals)
DeclaredKeys == {d.key : d \in FieldDecls}

Connection(c) == \A k \in DOMAIN c : k \in Keys /\ c[k] \in Texts

\* Where the fields of the method are visited, and where it is not chosen yet.
Visiting == {"fields", "prompt", "secret"}
Choosing == {"pick", "choice"}

TypeInv ==
  /\ manifest \in Manifests
  /\ file.state \in {"missing", "empty", "garbled", "present"}
  /\ Connection(file.fixture.connection) /\ Connection(fixture.connection) /\ Connection(out)
  /\ echo \in BOOLEAN /\ orig \in BOOLEAN
  /\ runs \in 0..MaxRuns
  /\ pc \in Ended \cup Choosing \cup Visiting \cup {"save", "write"}
  /\ method \in 0..Len(manifest.methods)
  /\ fields \in Seq(Field) /\ \A i \in 1..Len(fields) : fields[i] \in FieldDecls
  /\ cut \subseteq {"save", "secret"}

\* What is typed at a field, or left for one, is no choice of a method.
LinesInv ==
  /\ stdin \in Seq(AllLines) /\ reader \in Seq(AllLines)
  /\ flags.interactive =>
       /\ wants.method \in Range(Numerals) \cup {"blank"}
       /\ wants.answers \in [DeclaredKeys -> Texts]
  /\ pc \in Visiting => stdin \in Seq(Texts) /\ reader \in Seq(Texts)
  /\ pc \in Choosing =>
       /\ reader = << >>
       /\ SeveralMethods(fixture) => stdin = << >> \/ Tail(stdin) \in Seq(Texts)
       /\ ~SeveralMethods(fixture) => stdin \in Seq(Texts)
  /\ pc = "choice" => SeveralMethods(fixture)
  /\ pc \in {"choice", "prompt", "secret"} => flags.interactive
  /\ pc \in {"prompt", "secret"} => fields # << >>
  /\ pc \in {"save", "write"} => flags.save
  /\ ~flags.interactive => stdin = << >>

\* The method of a fixture for which nobody has to be asked.
MethodOf(f) ==
  IF manifest.methods = << >> THEN 0 ELSE IF f.auth = "unset" THEN 1 ELSE Min(Among(f.auth))
Found(f) == manifest.methods = << >> \/ f.auth = "unset" \/ Among(f.auth) # {}

\* Is each answer meant for the field whose prompt reads it?
Heard == flags.interactive /\ (flags.tty \/ ~SeveralMethods(fixture))

\* What a field comes to that the fixture lacks: o is the connection, a the answers, h is Heard.
Settled(d, known, o, h, a) ==
  d.key \notin DOMAIN known =>
    /\ d.required => d.key \in DOMAIN o
    /\ d.key \in DOMAIN o => o[d.key] = d.default \/ Coerces(d, o[d.key])
    /\ h => IF a[d.key] # "blank" THEN d.key \in DOMAIN o /\ o[d.key] = a[d.key]
            ELSE IF d.default # "nil" THEN d.key \in DOMAIN o /\ o[d.key] = d.default
            ELSE d.key \notin DOMAIN o /\ ~d.required

\* The first n fields are settled, and the others untouched.
Visited(fs, n, known, o, h, a) ==
  /\ \A i \in 1..n : Settled(fs[i], known, o, h, a)
  /\ \A i \in (n + 1)..Len(fs) : fs[i].key \in DOMAIN o => fs[i].key \in DOMAIN known

\* The rest is left of the fields, and those before it are settled.
AtField(fs, rest, known, o, h, a) ==
  LET n == Len(fs) - Len(rest)
  IN  /\ n >= 0
      /\ \A i \in 1..Len(rest) : rest[i] = fs[n + i]
      /\ Visited(fs, n, known, o, h, a)

Extends(o, known) == \A k \in DOMAIN known : k \in DOMAIN o /\ o[k] = known[k]

FieldInv ==
  /\ pc \in Visiting =>
       AtField(FieldsOf(method), fields, fixture.connection, out, Heard, wants.answers)
  /\ pc \in {"save", "write", "done"} =>
       Visited(FieldsOf(method), Len(FieldsOf(method)), fixture.connection, out, Heard,
               wants.answers)
  /\ Active \/ pc = "done" => Extends(out, fixture.connection)
  /\ pc \in Choosing => out = fixture.connection
  /\ pc \in {"prompt", "secret"} => Head(fields).key \notin DOMAIN out
  /\ ~flags.interactive /\ (Active \/ pc = "done") => out = fixture.connection
  /\ pc \in Visiting \cup {"save", "write", "done"} /\ ~SeveralMethods(fixture) =>
       Found(fixture) /\ method = MethodOf(fixture)

\* The lines that are still to be read are the answers to the fields that are still to be visited.
InputInv ==
  /\ flags.interactive /\ flags.tty =>
       /\ Active => reader = << >>
       /\ pc \in {"pick", "fields"} => stdin = << >>
       /\ pc = "choice" => Len(stdin) <= 1
       /\ pc \in {"prompt", "secret"} => stdin \in {<< >>, <<wants.answers[Head(fields).key]>>}
  /\ flags.interactive /\ ~flags.tty /\ ~SeveralMethods(fixture) =>
       /\ pc = "pick" /\ Found(fixture) =>
            LET fs == FieldsOf(MethodOf(fixture))
            IN  stdin = Lines(fs, fixture.connection, wants.answers)[Len(fs)]
       /\ pc \in Visiting =>
            reader \o stdin = Lines(FieldsOf(method), fixture.connection, wants.answers)[Len(fields)]
  /\ pc = "secret" => flags.tty

\* A run resolves this fixture without a question.
Resolvable(f) ==
  ~SeveralMethods(f) =>
    /\ Found(f)
    /\ \A i \in 1..Len(FieldsOf(MethodOf(f))) :
         FieldsOf(MethodOf(f))[i].required => FieldsOf(MethodOf(f))[i].key \in DOMAIN f.connection

SavedInv ==
  /\ DOMAIN saved = {"valid", "connection"}
  /\ pc = "write" => ~saved.valid
  /\ saved.valid =>
       /\ file.state = "present" /\ file.fixture.connection = saved.connection
       /\ Resolvable(file.fixture)
       /\ ~flags.save => fixture = file.fixture
       /\ ~flags.save /\ ~flags.interactive /\ ~SeveralMethods(fixture) => pc # "failed"

RunInv == TypeInv /\ LinesInv /\ FieldInv /\ InputInv /\ SavedInv

-----------------------------------------------------------------------------
(* What a field comes to *)

\* promptField accepts the line for the field d: o becomes o2.
Taken(d, line, o, o2) ==
  \/ line = "blank" /\ d.default = "nil" /\ ~d.required /\ o2 = o
  \/ line = "blank" /\ d.default # "nil" /\ o2 = With(o, d.key, d.default)
  \/ line # "blank" /\ Coerces(d, line) /\ o2 = With(o, d.key, line)

\* Accept fails, or takes the line.
LEMMA AcceptIs ==
  ASSUME NEW d, NEW line, Accept(d, line)
  PROVE  \/ pc' = "failed" /\ UNCHANGED <<fields, out>>
         \/ pc' = "fields" /\ fields' = Tail(fields) /\ Taken(d, line, out, out')
<1>1. CASE line = "blank" /\ d.default = "nil"
  BY <1>1, Zenon DEF Accept, Taken, Fail
<1>2. CASE line = "blank" /\ d.default # "nil"
  BY <1>2, Zenon DEF Accept, Taken, Fail
<1>3. CASE line # "blank"
  BY <1>3, Zenon DEF Accept, Taken, Fail
<1> QED
  BY <1>1, <1>2, <1>3

\* With changes the value of one key.
LEMMA WithIs ==
  ASSUME NEW o, NEW k, NEW v
  PROVE  /\ k \in DOMAIN With(o, k, v) /\ With(o, k, v)[k] = v
         /\ \A l : l # k => (l \in DOMAIN With(o, k, v) <=> l \in DOMAIN o)
         /\ \A l \in DOMAIN o : l # k => With(o, k, v)[l] = o[l]
BY DEF With

\* A line that is taken settles the value of its key, and of no other.
LEMMA TakenIs ==
  ASSUME NEW d \in Field, NEW line \in Texts, NEW o, NEW o2, Taken(d, line, o, o2),
         d.key \notin DOMAIN o
  PROVE  /\ \A l : l # d.key => (l \in DOMAIN o2 <=> l \in DOMAIN o)
         /\ \A l \in DOMAIN o : l \in DOMAIN o2 /\ o2[l] = o[l]
         /\ Connection(o) => Connection(o2)
         /\ IF line # "blank" THEN d.key \in DOMAIN o2 /\ o2[d.key] = line /\ Coerces(d, line)
            ELSE IF d.default # "nil" THEN d.key \in DOMAIN o2 /\ o2[d.key] = d.default
            ELSE d.key \notin DOMAIN o2 /\ ~d.required
<1> DEFINE k == d.key
<1>0. k \in Keys /\ d.default \in Texts \cup {"nil"}
  BY DEF Field
<1>1. CASE line = "blank" /\ d.default = "nil" /\ ~d.required /\ o2 = o
  BY <1>1
<1>2. ASSUME NEW v \in Texts, o2 = With(o, k, v)
      PROVE  /\ \A l : l # k => (l \in DOMAIN o2 <=> l \in DOMAIN o)
             /\ \A l \in DOMAIN o : l \in DOMAIN o2 /\ o2[l] = o[l]
             /\ Connection(o) => Connection(o2)
             /\ k \in DOMAIN o2 /\ o2[k] = v
  <2>0. k \notin DOMAIN o
    OBVIOUS
  <2> HIDE DEF k
  <2>1. /\ k \in DOMAIN o2 /\ o2[k] = v
        /\ \A l : l # k => (l \in DOMAIN o2 <=> l \in DOMAIN o)
        /\ \A l \in DOMAIN o : l # k => o2[l] = o[l]
    BY <1>2, WithIs
  <2>2. \A l \in DOMAIN o : l \in DOMAIN o2 /\ o2[l] = o[l]
    BY <2>0, <2>1
  <2>3. ASSUME Connection(o), NEW l \in DOMAIN o2 PROVE l \in Keys /\ o2[l] \in Texts
    <3>1. v \in Texts
      BY <1>2
    <3>2. CASE l = k
      BY <1>0, <2>1, <3>1, <3>2
    <3>3. CASE l # k
      BY <2>1, <2>3, <3>3 DEF Connection
    <3> QED
      BY <3>2, <3>3
  <2> QED
    BY <2>1, <2>2, <2>3 DEF Connection
<1>3. CASE line = "blank" /\ d.default # "nil" /\ o2 = With(o, k, d.default)
  <2>1. /\ \A l : l # k => (l \in DOMAIN o2 <=> l \in DOMAIN o)
        /\ \A l \in DOMAIN o : l \in DOMAIN o2 /\ o2[l] = o[l]
        /\ Connection(o) => Connection(o2)
        /\ k \in DOMAIN o2 /\ o2[k] = d.default
    BY <1>0, <1>2, <1>3
  <2> QED
    BY <1>3, <2>1
<1>4. CASE line # "blank" /\ Coerces(d, line) /\ o2 = With(o, k, line)
  <2>1. /\ \A l : l # k => (l \in DOMAIN o2 <=> l \in DOMAIN o)
        /\ \A l \in DOMAIN o : l \in DOMAIN o2 /\ o2[l] = o[l]
        /\ Connection(o) => Connection(o2)
        /\ k \in DOMAIN o2 /\ o2[k] = line
    BY <1>2, <1>4
  <2> QED
    BY <1>4, <2>1
<1> QED
  BY <1>1, <1>3, <1>4, Zenon DEF Taken

\* A field whose line is taken is settled.
LEMMA TakenSettles ==
  ASSUME NEW d \in Field, NEW line \in Texts, NEW o, NEW o2, Taken(d, line, o, o2),
         d.key \notin DOMAIN o, NEW known, NEW h \in BOOLEAN, NEW a, h => line = a[d.key]
  PROVE  Settled(d, known, o2, h, a)
<1>1. IF line # "blank" THEN d.key \in DOMAIN o2 /\ o2[d.key] = line /\ Coerces(d, line)
      ELSE IF d.default # "nil" THEN d.key \in DOMAIN o2 /\ o2[d.key] = d.default
      ELSE d.key \notin DOMAIN o2 /\ ~d.required
  BY TakenIs
<1>2. CASE line # "blank"
  BY <1>1, <1>2, Zenon DEF Settled
<1>3. CASE line = "blank" /\ d.default # "nil"
  BY <1>1, <1>3, Zenon DEF Settled
<1>4. CASE line = "blank" /\ d.default = "nil"
  BY <1>1, <1>4, Zenon DEF Settled
<1> QED
  BY <1>2, <1>3, <1>4

\* One more field is visited, and the values of the others stay.
LEMMA VisitOne ==
  ASSUME NEW fs \in Seq(Field), Distinct(fs), NEW n \in Nat, n < Len(fs),
         NEW known, NEW o, NEW o2, NEW h, NEW a,
         Visited(fs, n, known, o, h, a),
         \A l : l # fs[n + 1].key => (l \in DOMAIN o2 <=> l \in DOMAIN o),
         \A l \in DOMAIN o : l # fs[n + 1].key => o2[l] = o[l],
         Settled(fs[n + 1], known, o2, h, a)
  PROVE  Visited(fs, n + 1, known, o2, h, a)
<1>0. Len(fs) \in Nat /\ n + 1 \in 1..Len(fs)
  OBVIOUS
<1>1. ASSUME NEW i \in 1..Len(fs), i # n + 1
      PROVE  /\ fs[i].key \in DOMAIN o2 <=> fs[i].key \in DOMAIN o
             /\ fs[i].key \in DOMAIN o => o2[fs[i].key] = o[fs[i].key]
  <2>1. fs[i].key # fs[n + 1].key
    BY <1>0, <1>1 DEF Distinct
  <2> QED
    BY <2>1
<1>2. ASSUME NEW i \in 1..(n + 1) PROVE Settled(fs[i], known, o2, h, a)
  <2>1. CASE i = n + 1
    BY <2>1
  <2>2. CASE i # n + 1
    <3>1. i \in 1..n /\ i \in 1..Len(fs)
      BY <1>0, <2>2
    <3>2. Settled(fs[i], known, o, h, a)
      BY <3>1 DEF Visited
    <3> DEFINE d == fs[i]
    <3> HIDE DEF d
    <3>3. /\ d.key \in DOMAIN o2 <=> d.key \in DOMAIN o
          /\ d.key \in DOMAIN o => o2[d.key] = o[d.key]
      BY <1>1, <2>2, <3>1 DEF d
    <3>4. Settled(d, known, o, h, a)
      BY <3>2 DEF d
    <3>5. Settled(d, known, o2, h, a)
      BY <3>3, <3>4 DEF Settled
    <3> QED
      BY <3>5 DEF d
  <2> QED
    BY <2>1, <2>2
<1>3. ASSUME NEW i \in ((n + 1) + 1)..Len(fs), fs[i].key \in DOMAIN o2
      PROVE  fs[i].key \in DOMAIN known
  <2>1. i \in 1..Len(fs) /\ i # n + 1 /\ i \in (n + 1)..Len(fs)
    BY <1>0
  <2>2. fs[i].key \in DOMAIN o
    BY <1>1, <1>3, <2>1
  <2> QED
    BY <2>1, <2>2 DEF Visited
<1> QED
  BY <1>2, <1>3 DEF Visited

\* A field that is known already, or that cannot be asked for.
LEMMA SkipOne ==
  ASSUME NEW fs \in Seq(Field), Distinct(fs), NEW n \in Nat, n < Len(fs),
         NEW known, NEW o, NEW h \in BOOLEAN, NEW a,
         Visited(fs, n, known, o, h, a),
         fs[n + 1].key \in DOMAIN o \/ (~h /\ ~fs[n + 1].required)
  PROVE  Visited(fs, n + 1, known, o, h, a)
<1>1. n + 1 \in (n + 1)..Len(fs)
  OBVIOUS
<1>2. Settled(fs[n + 1], known, o, h, a)
  <2>1. CASE fs[n + 1].key \in DOMAIN o
    <3>1. fs[n + 1].key \in DOMAIN known
      BY <1>1, <2>1 DEF Visited
    <3> QED
      BY <3>1 DEF Settled
  <2>2. CASE fs[n + 1].key \notin DOMAIN o
    BY <2>2, Zenon DEF Settled
  <2> QED
    BY <2>1, <2>2
<1> QED
  BY <1>2, VisitOne

-----------------------------------------------------------------------------
(* Reading a line *)

\* ReadString takes the head of what is read ahead, or else reads the first n lines.
LEMMA ReadsIs ==
  ASSUME NEW buffer, NEW r \in Reads(buffer)
  PROVE  \/ buffer # << >> /\ r = [line |-> Head(buffer), ahead |-> Tail(buffer), left |-> stdin]
         \/ /\ buffer = << >> /\ stdin # << >>
            /\ \E n \in 1..(IF flags.tty THEN 1 ELSE Len(stdin)) :
                 r = [line |-> Head(stdin), ahead |-> SubSeq(stdin, 2, n),
                      left |-> SubSeq(stdin, n + 1, Len(stdin))]
         \/ /\ buffer = << >> /\ stdin = << >> /\ ~flags.tty
            /\ r = [line |-> "blank", ahead |-> << >>, left |-> << >>]
<1>1. CASE buffer # << >>
  BY <1>1, Zenon DEF Reads
<1>2. CASE buffer = << >> /\ stdin # << >>
  <2>1. r \in {[line |-> Head(stdin), ahead |-> SubSeq(stdin, 2, n),
                left |-> SubSeq(stdin, n + 1, Len(stdin))] :
                 n \in 1..(IF flags.tty THEN 1 ELSE Len(stdin))}
    BY <1>2, Zenon DEF Reads
  <2> QED
    BY <1>2, <2>1, Zenon
<1>3. CASE buffer = << >> /\ stdin = << >>
  BY <1>3, Zenon DEF Reads
<1> QED
  BY <1>1, <1>2, <1>3

\* Taking the first n of some lines, for n at least one.
LEMMA TakeLines ==
  ASSUME NEW S, NEW s \in Seq(S), s # << >>, NEW n \in 1..Len(s)
  PROVE  /\ Head(s) \in S /\ Tail(s) \in Seq(S) /\ Head(s) = s[1]
         /\ SubSeq(s, 2, n) \in Seq(S) /\ SubSeq(s, n + 1, Len(s)) \in Seq(S)
         /\ SubSeq(s, 2, n) \o SubSeq(s, n + 1, Len(s)) = Tail(s)
         /\ n = 1 => SubSeq(s, 2, n) = << >>
<1>0. Len(s) \in Nat
  OBVIOUS
<1>1. Head(s) \in S /\ Tail(s) \in Seq(S) /\ Head(s) = s[1]
  OBVIOUS
<1>2. Tail(s) = SubSeq(s, 2, Len(s))
  BY TailIsSubSeq
<1>3. SubSeq(s, 2, n) \in Seq(S)
  <2>1. \A i \in 2..n : s[i] \in S
    BY <1>0
  <2> QED
    BY <2>1, SubSeqProperties
<1>4. SubSeq(s, n + 1, Len(s)) \in Seq(S)
  <2>1. \A i \in (n + 1)..Len(s) : s[i] \in S
    BY <1>0
  <2> QED
    BY <1>0, <2>1, SubSeqProperties
<1>5. SubSeq(s, 2, n) \o SubSeq(s, n + 1, Len(s)) = SubSeq(s, 2, Len(s))
  <2>1. 2 \in 1..(Len(s) + 1) /\ n \in (2 - 1)..Len(s) /\ Len(s) \in n..Len(s)
    BY <1>0
  <2> QED
    BY <2>1, ConcatAdjacentSubSeq
<1>6. n = 1 => SubSeq(s, 2, n) = << >>
  BY SubSeqEmpty
<1> QED
  BY <1>1, <1>2, <1>3, <1>4, <1>5, <1>6, Zenon

\* A terminal hands out one line, a pipe at least one.
LEMMA ReadCount ==
  ASSUME stdin # << >>, Len(stdin) \in Nat, stdin # << >> => Len(stdin) >= 1,
         NEW n \in 1..(IF flags.tty THEN 1 ELSE Len(stdin))
  PROVE  n \in 1..Len(stdin) /\ (flags.tty => n = 1)
BY DEF Reads

\* What a read returns and leaves is of the lines that were there.
LEMMA ReadsType ==
  ASSUME NEW S, "blank" \in S, stdin \in Seq(S), NEW buffer \in Seq(S), NEW r \in Reads(buffer)
  PROVE  r.line \in S /\ r.ahead \in Seq(S) /\ r.left \in Seq(S)
<1>1. CASE buffer # << >> /\ r = [line |-> Head(buffer), ahead |-> Tail(buffer), left |-> stdin]
  <2>1. Head(buffer) \in S /\ Tail(buffer) \in Seq(S)
    BY <1>1
  <2> QED
    BY <1>1, <2>1
<1>2. CASE /\ buffer = << >> /\ stdin # << >>
           /\ \E n \in 1..(IF flags.tty THEN 1 ELSE Len(stdin)) :
                r = [line |-> Head(stdin), ahead |-> SubSeq(stdin, 2, n),
                     left |-> SubSeq(stdin, n + 1, Len(stdin))]
  <2>1. PICK n \in 1..(IF flags.tty THEN 1 ELSE Len(stdin)) :
               r = [line |-> Head(stdin), ahead |-> SubSeq(stdin, 2, n),
                    left |-> SubSeq(stdin, n + 1, Len(stdin))]
    BY <1>2
  <2>2. Len(stdin) \in Nat /\ Len(stdin) >= 1
    BY <1>2, EmptySeq
  <2>3. n \in 1..Len(stdin)
    BY <1>2, <2>2, ReadCount
  <2>4. /\ Head(stdin) \in S /\ SubSeq(stdin, 2, n) \in Seq(S)
        /\ SubSeq(stdin, n + 1, Len(stdin)) \in Seq(S)
    BY <1>2, <2>3, TakeLines, Zenon
  <2> QED
    BY <2>1, <2>4
<1>3. CASE r = [line |-> "blank", ahead |-> << >>, left |-> << >>]
  <2>1. << >> \in Seq(S)
    BY EmptySeq
  <2> QED
    BY <1>3, <2>1
<1> QED
  BY <1>1, <1>2, <1>3, ReadsIs, Zenon

\* Equal lines have equal heads and equal tails.
LEMMA SameLines ==
  ASSUME NEW S, NEW x \in S, NEW y \in S, NEW t \in Seq(S), NEW u \in Seq(S),
         <<x>> \o t = <<y>> \o u
  PROVE  x = y /\ t = u
<1>1. <<x>> \in Seq(S) /\ <<y>> \in Seq(S)
  OBVIOUS
<1>2. /\ Len(<<x>> \o t) = 1 + Len(t) /\ (<<x>> \o t)[1] = x
      /\ \A i \in 1..Len(t) : (<<x>> \o t)[1 + i] = t[i]
  OBVIOUS
<1>3. /\ Len(<<y>> \o u) = 1 + Len(u) /\ (<<y>> \o u)[1] = y
      /\ \A i \in 1..Len(u) : (<<y>> \o u)[1 + i] = u[i]
  OBVIOUS
<1> DEFINE w == <<x>> \o t
<1>4. w = <<y>> \o u
  OBVIOUS
<1>5. Len(w) = 1 + Len(t) /\ Len(w) = 1 + Len(u) /\ w[1] = x /\ w[1] = y
  BY <1>2, <1>3, <1>4
<1>6. \A i \in 1..Len(t) : w[1 + i] = t[i]
  BY <1>2
<1>7. \A i \in 1..Len(u) : w[1 + i] = u[i]
  BY <1>3, <1>4
<1> HIDE DEF w
<1>8. Len(t) = Len(u)
  BY <1>5
<1>9. \A i \in 1..Len(t) : t[i] = u[i]
  BY <1>6, <1>7, <1>8
<1> QED
  BY <1>5, <1>8, <1>9, SeqEqual

\* The lines that are there after the read.
Unread(r) == r.ahead \o r.left

\* The line is the first that is there, and the others stay for those who read on with the buffer.
LEMMA ReadsNext ==
  ASSUME NEW S, stdin \in Seq(S), NEW buffer \in Seq(S), NEW r \in Reads(buffer),
         NEW x \in S, NEW rest \in Seq(S), buffer \o stdin = <<x>> \o rest
  PROVE  r.line = x /\ Unread(r) = rest
<1> USE DEF Unread
<1>1. CASE buffer # << >> /\ r = [line |-> Head(buffer), ahead |-> Tail(buffer), left |-> stdin]
  <2>1. Head(buffer) \in S /\ Tail(buffer) \in Seq(S) /\ buffer = <<Head(buffer)>> \o Tail(buffer)
    BY <1>1
  <2>2. <<Head(buffer)>> \o (Tail(buffer) \o stdin) = <<x>> \o rest
    <3>1. <<Head(buffer)>> \in Seq(S)
      BY <2>1
    <3> QED
      BY <2>1, <3>1, ConcatAssociative
  <2> DEFINE u == Tail(buffer) \o stdin
             y == Head(buffer)
  <2>3. u \in Seq(S) /\ y \in S
    BY <2>1, ConcatProperties
  <2>4. r.line = y /\ r.ahead \o r.left = u
    BY <1>1
  <2> HIDE DEF u, y
  <2>5. y = x /\ u = rest
    <3>1. <<y>> \o u = <<x>> \o rest
      BY <2>2 DEF u, y
    <3> QED
      BY <2>3, <3>1, SameLines
  <2> QED
    BY <2>4, <2>5
<1>2. CASE /\ buffer = << >> /\ stdin # << >>
           /\ \E n \in 1..(IF flags.tty THEN 1 ELSE Len(stdin)) :
                r = [line |-> Head(stdin), ahead |-> SubSeq(stdin, 2, n),
                     left |-> SubSeq(stdin, n + 1, Len(stdin))]
  <2>1. PICK n \in 1..(IF flags.tty THEN 1 ELSE Len(stdin)) :
               r = [line |-> Head(stdin), ahead |-> SubSeq(stdin, 2, n),
                    left |-> SubSeq(stdin, n + 1, Len(stdin))]
    BY <1>2
  <2>2. Len(stdin) \in Nat /\ Len(stdin) >= 1
    BY <1>2, EmptySeq
  <2>3. n \in 1..Len(stdin)
    BY <1>2, <2>2, ReadCount
  <2>4. /\ Head(stdin) \in S /\ Tail(stdin) \in Seq(S)
        /\ SubSeq(stdin, 2, n) \o SubSeq(stdin, n + 1, Len(stdin)) = Tail(stdin)
    BY <1>2, <2>3, TakeLines, Zenon
  <2>5. stdin = <<x>> \o rest
    BY <1>2, ConcatEmptySeq
  <2>6. Head(stdin) = x /\ Tail(stdin) = rest
    BY <1>2, <2>5
  <2> QED
    BY <2>1, <2>4, <2>6
<1>3. CASE buffer = << >> /\ stdin = << >>
  <2>1. buffer \o stdin = << >>
    BY <1>3, ConcatEmptySeq
  <2>2. <<x>> \o rest # << >>
    OBVIOUS
  <2> QED
    BY <2>1, <2>2
<1> QED
  BY <1>1, <1>2, <1>3, ReadsIs, Zenon

\* A choice that is read takes at least one line with it.
LEMMA ReadsRest ==
  ASSUME NEW S, stdin \in Seq(S), NEW T, stdin = << >> \/ Tail(stdin) \in Seq(T),
         NEW r \in Reads(<< >>)
  PROVE  r.left \in Seq(T)
<1>1. CASE /\ stdin # << >>
           /\ \E n \in 1..(IF flags.tty THEN 1 ELSE Len(stdin)) :
                r = [line |-> Head(stdin), ahead |-> SubSeq(stdin, 2, n),
                     left |-> SubSeq(stdin, n + 1, Len(stdin))]
  <2>1. PICK n \in 1..(IF flags.tty THEN 1 ELSE Len(stdin)) :
               r = [line |-> Head(stdin), ahead |-> SubSeq(stdin, 2, n),
                    left |-> SubSeq(stdin, n + 1, Len(stdin))]
    BY <1>1
  <2>2. Len(stdin) \in Nat /\ Len(stdin) >= 1
    BY <1>1, EmptySeq
  <2>3. n \in 1..Len(stdin)
    BY <1>1, <2>2, ReadCount
  <2>4. \A i \in (n + 1)..Len(stdin) : stdin[i] \in T
    <3>1. Tail(stdin) \in Seq(T)
      BY <1>1
    <3>2. /\ Len(Tail(stdin)) = Len(stdin) - 1
          /\ \A i \in 1..Len(Tail(stdin)) : Tail(stdin)[i] = stdin[i + 1]
      BY <1>1, HeadTailProperties
    <3>3. \A i \in 1..Len(Tail(stdin)) : Tail(stdin)[i] \in T
      BY <3>1, ElementOfSeq
    <3>4. ASSUME NEW i \in (n + 1)..Len(stdin) PROVE stdin[i] \in T
      <4>1. i - 1 \in 1..Len(Tail(stdin)) /\ (i - 1) + 1 = i
        BY <2>2, <2>3, <3>2
      <4> QED
        BY <3>2, <3>3, <4>1
    <3> QED
      BY <3>4
  <2>5. SubSeq(stdin, n + 1, Len(stdin)) \in Seq(T)
    BY <2>2, <2>3, <2>4, SubSeqProperties
  <2> QED
    BY <2>1, <2>5
<1>2. CASE r = [line |-> "blank", ahead |-> << >>, left |-> << >>]
  BY <1>2, EmptySeq
<1> QED
  BY <1>1, <1>2, ReadsIs, Zenon

\* One line was typed at the terminal.
LEMMA ReadsTyped ==
  ASSUME NEW S, stdin \in Seq(S), flags.tty, Len(stdin) <= 1, NEW r \in Reads(<< >>)
  PROVE  stdin # << >> /\ r.line = Head(stdin) /\ r.ahead = << >> /\ r.left = << >>
<1>1. PICK n \in 1..(IF flags.tty THEN 1 ELSE Len(stdin)) :
             /\ stdin # << >>
             /\ r = [line |-> Head(stdin), ahead |-> SubSeq(stdin, 2, n),
                     left |-> SubSeq(stdin, n + 1, Len(stdin))]
  BY ReadsIs, Zenon
<1>2. Len(stdin) \in Nat /\ Len(stdin) >= 1
  BY <1>1, EmptySeq
<1>3. n = 1 /\ Len(stdin) = 1
  <2>1. n \in 1..Len(stdin) /\ n = 1
    BY <1>1, <1>2, ReadCount
  <2>2. \A k \in Nat : k <= 1 /\ k >= 1 => k = 1
    OBVIOUS
  <2>3. Len(stdin) = 1
    BY <1>2, <2>2, Zenon
  <2> QED
    BY <2>1, <2>3
<1>4. SubSeq(stdin, 2, n) = << >> /\ SubSeq(stdin, n + 1, Len(stdin)) = << >>
  BY <1>2, <1>3, SubSeqEmpty
<1> QED
  BY <1>1, <1>4

-----------------------------------------------------------------------------
(* The steps of a run *)

\* What the manifest says stays what it is.
LEMMA Static ==
  ASSUME manifest' = manifest
  PROVE  /\ FieldDecls' = FieldDecls /\ DeclaredKeys' = DeclaredKeys
         /\ method' = method => FieldsOf(method)' = FieldsOf(method)
         /\ fixture' = fixture =>
              /\ SeveralMethods(fixture)' = SeveralMethods(fixture)
              /\ Found(fixture)' = Found(fixture)
              /\ MethodOf(fixture)' = MethodOf(fixture)
              /\ flags' = flags => Heard' = Heard
<1>1. FieldDecls' = FieldDecls
  BY DEF FieldDecls
<1>2. DeclaredKeys' = DeclaredKeys
  BY <1>1 DEF DeclaredKeys
<1>3. method' = method => FieldsOf(method)' = FieldsOf(method)
  BY DEF FieldsOf
<1>4. ASSUME fixture' = fixture
      PROVE  /\ SeveralMethods(fixture)' = SeveralMethods(fixture)
             /\ Found(fixture)' = Found(fixture)
             /\ MethodOf(fixture)' = MethodOf(fixture)
  BY <1>4 DEF SeveralMethods, Found, MethodOf, Among
<1>5. fixture' = fixture /\ flags' = flags => Heard' = Heard
  BY <1>4 DEF Heard
<1> QED
  BY <1>1, <1>2, <1>3, <1>4, <1>5

\* What a step in pickAuthMethod may do.
Picked ==
  \/ /\ pc' = "failed" /\ UNCHANGED <<method, fields>>
     /\ ~SeveralMethods(fixture) => ~Found(fixture)
  \/ pc' = "choice" /\ UNCHANGED <<method, fields>> /\ flags.interactive /\ SeveralMethods(fixture)
  \/ /\ pc' = "fields" /\ (SeveralMethods(fixture) => pc = "choice" \/ ~flags.interactive)
     /\ \E n \in 0..Len(manifest.methods) :
          /\ method' = n /\ fields' = FieldsOf(n)
          /\ ~SeveralMethods(fixture) => Found(fixture) /\ n = MethodOf(fixture)

\* ChosenIn fails, or chooses the first method.
LEMMA ChosenInIs ==
  ASSUME manifest \in Manifests, NEW S \in SUBSET DOMAIN manifest.methods, ChosenIn(S)
  PROVE  \/ S = {} /\ pc' = "failed" /\ UNCHANGED <<method, fields>>
         \/ /\ S # {} /\ pc' = "fields" /\ Min(S) \in 1..Len(manifest.methods)
            /\ method' = Min(S) /\ fields' = FieldsOf(Min(S))
<1>1. CASE S = {}
  BY <1>1 DEF ChosenIn, Fail
<1>2. CASE S # {}
  <2>1. Chosen(Min(S))
    BY <1>2 DEF ChosenIn
  <2>2. Min(S) \in 1..Len(manifest.methods)
    BY <1>2, MethodsType, MinIs
  <2> QED
    BY <1>2, <2>1, <2>2 DEF Chosen
<1> QED
  BY <1>1, <1>2

\* PickMethod is a step in pickAuthMethod, and so is ...
LEMMA PickIs ==
  ASSUME manifest \in Manifests, PickMethod
  PROVE  Picked
<1> DEFINE L == Len(manifest.methods)
<1>1. L \in Nat /\ 0 \in 0..L /\ (\A n \in 1..L : n \in 0..L)
  BY MethodsType
<1>2. \A t : Among(t) \in SUBSET DOMAIN manifest.methods
  BY DEF Among
<1>3. CASE manifest.methods = << >>
  <2>1. Chosen(0)
    BY <1>3 DEF PickMethod
  <2>2. Found(fixture) /\ MethodOf(fixture) = 0 /\ ~SeveralMethods(fixture)
    <3>1. ~(Len(<< >>) > 1)
      OBVIOUS
    <3> QED
      BY <1>3, <3>1 DEF Found, MethodOf, SeveralMethods
  <2> QED
    BY <1>1, <2>1, <2>2 DEF Picked, Chosen
<1>4. CASE manifest.methods # << >> /\ fixture.auth # "unset"
  <2>1. ChosenIn(Among(fixture.auth))
    BY <1>4 DEF PickMethod
  <2> DEFINE S == Among(fixture.auth)
  <2>2. \/ S = {} /\ pc' = "failed" /\ UNCHANGED <<method, fields>>
        \/ /\ S # {} /\ pc' = "fields" /\ Min(S) \in 1..L
           /\ method' = Min(S) /\ fields' = FieldsOf(Min(S))
    BY <1>2, <2>1, ChosenInIs
  <2>3. S # {} <=> Found(fixture)
    BY <1>4 DEF Found
  <2>4. MethodOf(fixture) = Min(S)
    BY <1>4 DEF MethodOf
  <2>5. ~SeveralMethods(fixture)
    BY <1>4 DEF SeveralMethods
  <2> HIDE DEF S
  <2> QED
    BY <1>1, <2>2, <2>3, <2>4, <2>5 DEF Picked
<1>5. CASE manifest.methods # << >> /\ fixture.auth = "unset" /\ L = 1
  <2>1. Chosen(1)
    BY <1>5 DEF PickMethod
  <2>2. Found(fixture) /\ MethodOf(fixture) = 1 /\ ~SeveralMethods(fixture)
    BY <1>5 DEF Found, MethodOf, SeveralMethods
  <2>3. 1 \in 0..L
    BY <1>5
  <2> QED
    BY <2>1, <2>2, <2>3 DEF Picked, Chosen
<1>6. CASE manifest.methods # << >> /\ fixture.auth = "unset" /\ L # 1
  <2>1. AskOrNone
    BY <1>6 DEF PickMethod
  <2>2. SeveralMethods(fixture)
    <3>1. L # 0
      BY <1>6, MethodsType
    <3>2. \A n \in Nat : n # 0 /\ n # 1 => n > 1
      OBVIOUS
    <3>3. L > 1
      BY <1>1, <1>6, <3>1, <3>2, Zenon
    <3> QED
      BY <1>6, <3>3, Zenon DEF SeveralMethods
  <2>3. CASE flags.interactive
    BY <2>1, <2>2, <2>3 DEF AskOrNone, Picked
  <2>4. CASE ~flags.interactive
    <3> DEFINE S == Among("none")
    <3>1. ChosenIn(S)
      BY <2>1, <2>4 DEF AskOrNone
    <3>2. \/ S = {} /\ pc' = "failed" /\ UNCHANGED <<method, fields>>
          \/ /\ S # {} /\ pc' = "fields" /\ Min(S) \in 1..L
             /\ method' = Min(S) /\ fields' = FieldsOf(Min(S))
      BY <1>2, <3>1, ChosenInIs
    <3> HIDE DEF S
    <3> QED
      BY <1>1, <2>2, <2>4, <3>2 DEF Picked
  <2> QED
    BY <2>3, <2>4
<1> QED
  BY <1>3, <1>4, <1>5, <1>6

\* ... ReadChoice, which never asks again.
LEMMA ChoiceIs ==
  ASSUME manifest \in Manifests, ReadChoice, SeveralMethods(fixture)
  PROVE  /\ Picked /\ pc' \in {"failed", "fields"}
         /\ \E r \in Reads(<< >>) : stdin' = r.left
<1>1. PICK r \in Reads(<< >>) :
        /\ stdin' = r.left
        /\ ChosenIn({i \in DOMAIN manifest.methods : Numerals[i] = r.line})
  BY DEF ReadChoice
<1> DEFINE S == {i \in DOMAIN manifest.methods : Numerals[i] = r.line}
           L == Len(manifest.methods)
<1>2. \/ S = {} /\ pc' = "failed" /\ UNCHANGED <<method, fields>>
      \/ /\ S # {} /\ pc' = "fields" /\ Min(S) \in 1..L
         /\ method' = Min(S) /\ fields' = FieldsOf(Min(S))
  BY <1>1, ChosenInIs
<1>3. \A n \in 1..L : n \in 0..L
  BY MethodsType
<1> HIDE DEF S, L
<1>5. pc = "choice"
  BY DEF ReadChoice
<1>4. Picked /\ pc' \in {"failed", "fields"}
  BY <1>2, <1>3, <1>5 DEF Picked, L
<1> QED
  BY <1>1, <1>4

-----------------------------------------------------------------------------
(* Types *)

\* What is loaded is a connection if what is in the file is one.
LEMMA LoadedIs ==
  ASSUME NEW f, Connection(f.fixture.connection)
  PROVE  Connection(Loaded(f).connection)
<1>1. Connection(DefaultFixture.connection)
  <2>1. DefaultFixture.connection = << >>
    BY DEF DefaultFixture
  <2>2. DOMAIN << >> = {}
    OBVIOUS
  <2> QED
    BY <2>1, <2>2 DEF Connection
<1> QED
  BY <1>1 DEF Loaded

LEMMA TypeInit == Init => TypeInv
<1> SUFFICES ASSUME Init PROVE TypeInv
  OBVIOUS
<1>1. /\ file \in Authored /\ fixture = DefaultFixture /\ out = << >> /\ fields = << >>
      /\ manifest \in Manifests /\ echo = TRUE /\ orig = TRUE /\ runs = 0 /\ pc = "idle"
      /\ method = 0 /\ cut = {}
  BY DEF Init
<1>2. file.state \in {"missing", "empty", "garbled", "present"}
  BY <1>1, PrompterAssumption
<1>3. Connection(file.fixture.connection)
  <2>1. /\ DOMAIN file.fixture.connection \subseteq Keys
        /\ Range(file.fixture.connection) \subseteq Texts
    BY <1>1, PrompterAssumption
  <2> QED
    BY <2>1 DEF Connection, Range
<1>4. Connection(fixture.connection) /\ Connection(out)
  <2>1. DefaultFixture.connection = << >>
    BY DEF DefaultFixture
  <2>2. DOMAIN << >> = {}
    OBVIOUS
  <2> QED
    BY <1>1, <2>1, <2>2 DEF Connection
<1>5. fields \in Seq(Field) /\ \A i \in 1..Len(fields) : fields[i] \in FieldDecls
  <2>1. << >> \in Seq(Field) /\ Len(<< >>) = 0
    BY EmptySeq
  <2> QED
    BY <1>1, <2>1
<1>6. method \in 0..Len(manifest.methods)
  BY <1>1, MethodsType
<1>7. runs \in 0..MaxRuns
  BY <1>1, PrompterAssumption
<1> QED
  BY <1>1, <1>2, <1>3, <1>4, <1>5, <1>6, <1>7 DEF TypeInv, Ended

\* What a step in pickAuthMethod leaves of the types.
LEMMA PickedTypes ==
  ASSUME TypeInv, Picked, manifest' = manifest
  PROVE  /\ method' \in 0..Len(manifest.methods)
         /\ fields' \in Seq(Field) /\ \A i \in 1..Len(fields') : fields'[i] \in FieldDecls
         /\ pc' \in {"failed", "choice", "fields"}
<1>0. manifest \in Manifests
  BY DEF TypeInv
<1>1. CASE UNCHANGED <<method, fields>> /\ pc' \in {"failed", "choice"}
  BY <1>1 DEF TypeInv
<1>2. CASE pc' = "fields" /\ \E n \in 0..Len(manifest.methods) : method' = n /\ fields' = FieldsOf(n)
  <2>1. PICK n \in 0..Len(manifest.methods) : method' = n /\ fields' = FieldsOf(n)
    BY <1>2
  <2>2. FieldsOf(n) \in Seq(Field) /\ \A p \in 1..Len(FieldsOf(n)) : FieldsOf(n)[p] \in FieldDecls
    BY <1>0, FieldsOfIs
  <2> QED
    BY <1>2, <2>1, <2>2
<1> QED
  BY <1>1, <1>2 DEF Picked

\* The next field, and those after it.
LEMMA TailTypes ==
  ASSUME TypeInv, fields # << >>, fields' = Tail(fields)
  PROVE  /\ Head(fields) \in Field /\ Head(fields) \in FieldDecls /\ Head(fields) = fields[1]
         /\ fields' \in Seq(Field) /\ Len(fields') = Len(fields) - 1
         /\ \A i \in 1..Len(fields') : fields'[i] = fields[i + 1]
         /\ \A i \in 1..Len(fields') : fields'[i] \in FieldDecls
<1>1. fields \in Seq(Field) /\ \A i \in 1..Len(fields) : fields[i] \in FieldDecls
  BY DEF TypeInv
<1>2. Len(fields) \in Nat /\ Len(fields) >= 1
  BY <1>1, EmptySeq
<1>3. Head(fields) = fields[1] /\ 1 \in 1..Len(fields)
  BY <1>1, <1>2
<1>4. /\ Head(fields) \in Field /\ fields' \in Seq(Field) /\ Len(fields') = Len(fields) - 1
      /\ \A i \in 1..Len(fields') : fields'[i] = fields[i + 1]
  BY <1>1, HeadTailProperties
<1>5. \A i \in 1..Len(fields') : i + 1 \in 1..Len(fields)
  BY <1>2, <1>4
<1>6. \A i \in 1..Len(fields') : fields'[i] \in FieldDecls
  BY <1>1, <1>4, <1>5
<1>7. Head(fields) \in FieldDecls
  BY <1>1, <1>3
<1> QED
  BY <1>3, <1>4, <1>6, <1>7

\* The next field is one that the manifest declares.
LEMMA HeadType ==
  ASSUME TypeInv, fields # << >>
  PROVE  Head(fields) \in Field /\ Head(fields) \in FieldDecls
<1>1. fields \in Seq(Field) /\ \A i \in 1..Len(fields) : fields[i] \in FieldDecls
  BY DEF TypeInv
<1>2. Len(fields) \in Nat /\ Len(fields) >= 1
  BY <1>1, EmptySeq
<1>3. Head(fields) = fields[1] /\ 1 \in 1..Len(fields)
  BY <1>1, <1>2
<1> QED
  BY <1>1, <1>3

\* The line that a prompt reads.
LEMMA PromptReads ==
  ASSUME LinesInv, \/ ReadField /\ pc = "prompt"
                   \/ ReadSecret /\ pc = "secret"
  PROVE  \E line \in Texts : Accept(Head(fields), line)
<1>0. stdin \in Seq(Texts) /\ reader \in Seq(Texts) /\ << >> \in Seq(Texts) /\ "blank" \in Texts
  BY PrompterAssumption DEF LinesInv, Visiting
<1>1. CASE ReadField
  <2>1. PICK r \in Reads(reader) : Accept(Head(fields), r.line)
    BY <1>1 DEF ReadField
  <2>2. r.line \in Texts
    BY <1>0, ReadsType
  <2> QED
    BY <2>1, <2>2
<1>2. CASE ReadSecret
  <2>1. PICK r \in Reads(<< >>) : Accept(Head(fields), r.line)
    BY <1>2 DEF ReadSecret
  <2>2. r.line \in Texts
    BY <1>0, ReadsType
  <2> QED
    BY <2>1, <2>2
<1> QED
  BY <1>1, <1>2

\* A line that is accepted or refused leaves the types.
LEMMA TypeAccept ==
  ASSUME TypeInv, LinesInv, FieldInv, pc \in {"prompt", "secret"},
         NEW line \in Texts, Accept(Head(fields), line),
         UNCHANGED <<manifest, file, fixture, runs, orig, method, cut>>, echo' \in BOOLEAN
  PROVE  TypeInv'
<1>0. FieldDecls' = FieldDecls
  BY Static
<1>1. fields # << >> /\ Head(fields).key \notin DOMAIN out
  BY DEF LinesInv, FieldInv
<1>2. CASE pc' = "failed" /\ UNCHANGED <<fields, out>>
  BY <1>0, <1>2 DEF TypeInv, Ended
<1>3. CASE pc' = "fields" /\ fields' = Tail(fields) /\ Taken(Head(fields), line, out, out')
  <2>1. /\ Head(fields) \in Field
        /\ fields' \in Seq(Field) /\ \A i \in 1..Len(fields') : fields'[i] \in FieldDecls
    BY <1>1, <1>3, TailTypes
  <2>2. Connection(out')
    <3>1. Connection(out)
      BY DEF TypeInv
    <3> QED
      BY <1>1, <1>3, <2>1, <3>1, TakenIs
  <2> QED
    BY <1>0, <1>3, <2>1, <2>2 DEF TypeInv, Visiting
<1> QED
  BY <1>2, <1>3, AcceptIs

\* So does a write, whatever of it is there.
LEMMA WriteType ==
  ASSUME TypeInv, DOMAIN fixture = Parts, pc = "write", WriteFile
  PROVE  /\ file'.state \in {"missing", "empty", "garbled", "present"}
         /\ Connection(file'.fixture.connection)
<1>1. Connection(out)
  BY DEF TypeInv
<1>2. DOMAIN Resolved = Parts /\ Resolved.connection = out
  BY DEF Resolved, Parts
<1>3. CASE file' = [state |-> "present", fixture |-> Resolved]
  BY <1>1, <1>2, <1>3
<1>4. CASE file' \in [state : {"empty", "garbled"}, fixture : {DefaultFixture}]
  <2>1. file'.state \in {"empty", "garbled"} /\ file'.fixture.connection = << >>
    BY <1>4 DEF DefaultFixture
  <2>2. Connection(<< >>)
    BY DEF Connection
  <2> QED
    BY <2>1, <2>2
<1>5. ASSUME NEW known \in SUBSET DOMAIN out,
             file' = [state |-> "present",
                      fixture |-> [Resolved EXCEPT !.connection = Restrict(out, known),
                                                   !.expect = "default"]]
      PROVE  file'.state = "present" /\ Connection(file'.fixture.connection)
  <2>1. file'.state = "present" /\ file'.fixture.connection = Restrict(out, known)
    BY <1>2, <1>5 DEF Parts
  <2>2. Connection(Restrict(out, known))
    BY <1>1 DEF Connection, Restrict
  <2> QED
    BY <2>1, <2>2
<1> QED
  BY <1>3, <1>4, <1>5 DEF WriteFile

LEMMA TypeStep == TypeInv /\ LinesInv /\ FieldInv /\ KeptInv /\ [Next]_vars => TypeInv'
<1> SUFFICES ASSUME TypeInv, LinesInv, FieldInv, KeptInv, [Next]_vars PROVE TypeInv'
  OBVIOUS
<1> USE DEF Fail, given, input, terminal, run
\* Most steps leave everything but pc alone.
<1>1. ASSUME UNCHANGED <<manifest, file, fixture, out, runs, method, fields, cut>>,
             echo' \in BOOLEAN, orig' \in BOOLEAN,
             pc' \in Ended \cup Choosing \cup Visiting \cup {"save", "write"}
      PROVE  TypeInv'
  <2>1. FieldDecls' = FieldDecls
    BY <1>1, Static
  <2> QED
    BY <1>1, <2>1 DEF TypeInv
<1>0. echo \in BOOLEAN /\ orig \in BOOLEAN
      /\ pc \in Ended \cup Choosing \cup Visiting \cup {"save", "write"}
  BY DEF TypeInv
<1>2. CASE UNCHANGED vars
  BY <1>0, <1>1, <1>2 DEF vars
<1>3. CASE Start
  <2>1. /\ UNCHANGED <<manifest, file, orig, cut>> /\ runs < MaxRuns /\ runs' = runs + 1
        /\ fixture' = Loaded(file) /\ out' = fixture'.connection /\ method' = 0
        /\ fields' = << >> /\ pc' \in {"failed", "pick"} /\ echo' \in {echo, TRUE}
    BY <1>3 DEF Start
  <2>2. Connection(fixture'.connection)
    BY <2>1, LoadedIs DEF TypeInv
  <2>3. runs' \in 0..MaxRuns
    <3>1. runs \in 0..MaxRuns
      BY DEF TypeInv
    <3> QED
      BY <2>1, <3>1, PrompterAssumption
  <2>4. fields' \in Seq(Field) /\ \A i \in 1..Len(fields') : fields'[i] \in FieldDecls
    <3>1. << >> \in Seq(Field) /\ Len(<< >>) = 0
      BY EmptySeq
    <3> QED
      BY <2>1, <3>1
  <2>5. 0 \in 0..Len(manifest.methods)
    BY MethodsType DEF TypeInv
  <2>6. FieldDecls' = FieldDecls
    BY <2>1, Static
  <2> QED
    BY <2>1, <2>2, <2>3, <2>4, <2>5, <2>6 DEF TypeInv, Ended, Choosing
<1>4. CASE PickMethod \/ ReadChoice
  <2>1. manifest \in Manifests
    BY DEF TypeInv
  <2>2. Picked
    <3>1. CASE PickMethod
      BY <2>1, <3>1, PickIs
    <3>2. CASE ReadChoice
      <4>1. SeveralMethods(fixture)
        BY <3>2 DEF ReadChoice, LinesInv
      <4> QED
        BY <2>1, <3>2, <4>1, ChoiceIs
    <3> QED
      BY <1>4, <3>1, <3>2
  <2>3. UNCHANGED <<manifest, file, fixture, out, runs, echo, orig, cut>>
    BY <1>4 DEF PickMethod, ReadChoice
  <2>4. FieldDecls' = FieldDecls
    BY <2>3, Static
  <2>5. /\ method' \in 0..Len(manifest.methods)
        /\ fields' \in Seq(Field) /\ \A i \in 1..Len(fields') : fields'[i] \in FieldDecls
        /\ pc' \in {"failed", "choice", "fields"}
    BY <2>2, <2>3, PickedTypes
  <2> QED
    BY <2>3, <2>4, <2>5 DEF TypeInv, Ended, Choosing, Visiting
<1>5. CASE SkipField
  <2>1. /\ UNCHANGED <<manifest, file, fixture, out, runs, method, echo, orig, cut>>
        /\ fields # << >> /\ pc = "fields"
        /\ \/ fields' = Tail(fields) /\ pc' = pc
           \/ fields' = fields /\ pc' = "failed"
    BY <1>5 DEF SkipField
  <2>2. CASE fields' = Tail(fields) /\ pc' = pc
    <3>1. fields' \in Seq(Field) /\ \A i \in 1..Len(fields') : fields'[i] \in FieldDecls
      BY <2>1, <2>2, TailTypes
    <3>2. FieldDecls' = FieldDecls
      BY <2>1, Static
    <3> QED
      BY <2>1, <2>2, <3>1, <3>2 DEF TypeInv
  <2>3. CASE fields' = fields /\ pc' = "failed"
    BY <1>0, <1>1, <2>1, <2>3 DEF Ended
  <2> QED
    BY <2>1, <2>2, <2>3
<1>6. CASE Prompt
  <2>1. /\ UNCHANGED <<manifest, file, fixture, out, runs, method, fields, cut>>
        /\ pc' \in {"prompt", "secret"} /\ echo' \in BOOLEAN /\ orig' \in BOOLEAN
    BY <1>0, <1>6 DEF Prompt
  <2> QED
    BY <1>1, <2>1 DEF Visiting
<1>7. CASE ReadField \/ ReadSecret
  <2>1. /\ UNCHANGED <<manifest, file, fixture, runs, orig, method, cut>>
        /\ pc \in {"prompt", "secret"} /\ echo' \in BOOLEAN
    BY <1>0, <1>7 DEF ReadField, ReadSecret
  <2>2. PICK line \in Texts : Accept(Head(fields), line)
    BY <1>7, PromptReads DEF ReadField, ReadSecret
  <2> QED
    BY <2>1, <2>2, TypeAccept
<1>8. CASE Resolve
  <2>1. /\ UNCHANGED <<manifest, file, fixture, out, runs, method, fields, echo, orig, cut>>
        /\ pc' \in {"save", "done"}
    BY <1>8 DEF Resolve
  <2> QED
    BY <1>0, <1>1, <2>1 DEF Ended
<1>9. CASE OpenFile
  <2>1. /\ UNCHANGED <<manifest, fixture, out, runs, method, fields, echo, orig, cut>>
        /\ \/ pc' = "write" /\ file' = [state |-> "empty", fixture |-> DefaultFixture]
           \/ pc' = "failed" /\ file' = file
    BY <1>9 DEF OpenFile
  <2>2. /\ file'.state \in {"missing", "empty", "garbled", "present"}
        /\ Connection(file'.fixture.connection)
    <3>1. CASE file' = file
      BY <3>1 DEF TypeInv
    <3>2. CASE file' = [state |-> "empty", fixture |-> DefaultFixture]
      <4>1. file'.state = "empty" /\ file'.fixture.connection = << >>
        BY <3>2 DEF DefaultFixture
      <4>2. Connection(<< >>)
        BY DEF Connection
      <4> QED
        BY <4>1, <4>2
    <3> QED
      BY <2>1, <3>1, <3>2
  <2>3. FieldDecls' = FieldDecls
    BY <2>1, Static
  <2> QED
    BY <2>1, <2>2, <2>3 DEF TypeInv, Ended
<1>10. CASE WriteFile
  <2>1. /\ UNCHANGED <<manifest, fixture, out, runs, method, fields, echo, orig>>
        /\ pc' \in {"done", "failed"} /\ cut' \subseteq {"save", "secret"}
    BY <1>10 DEF WriteFile, TypeInv
  <2>2. /\ file'.state \in {"missing", "empty", "garbled", "present"}
        /\ Connection(file'.fixture.connection)
    BY <1>10, WriteType DEF WriteFile, KeptInv
  <2>3. FieldDecls' = FieldDecls
    BY <2>1, Static
  <2> QED
    BY <2>1, <2>2, <2>3 DEF TypeInv, Ended
<1>11. CASE ReadError
  <2>1. /\ UNCHANGED <<manifest, file, fixture, out, runs, method, fields, orig, cut>>
        /\ pc' = "failed" /\ echo' \in BOOLEAN
    BY <1>0, <1>11 DEF ReadError
  <2> QED
    BY <1>0, <1>1, <2>1 DEF Ended
<1>12. CASE UserTypes
  <2>1. UNCHANGED <<manifest, file, fixture, out, runs, method, fields, echo, orig, cut, pc>>
    BY <1>12 DEF UserTypes
  <2> QED
    BY <1>0, <1>1, <2>1
<1>13. CASE Interrupt
  <2>1. /\ UNCHANGED <<manifest, file, fixture, out, runs, method, fields, echo, orig>>
        /\ pc' = "idle" /\ cut' \subseteq {"save", "secret"}
    BY <1>13 DEF Interrupt, TypeInv
  <2>2. FieldDecls' = FieldDecls
    BY <2>1, Static
  <2> QED
    BY <2>1, <2>2 DEF TypeInv, Ended
<1> QED
  BY <1>2, <1>3, <1>4, <1>5, <1>6, <1>7, <1>8, <1>9, <1>10, <1>11, <1>12, <1>13 DEF Next, Step

-----------------------------------------------------------------------------
(* Lines *)

\* The lines typed at a field, and those typed at a choice.
LEMMA AllLinesIs ==
  /\ Texts \subseteq AllLines /\ "blank" \in Texts /\ << >> \in Seq(Texts)
  /\ \A s \in Seq(Texts) : s \in Seq(AllLines)
  /\ \A t \in Range(Numerals) \cup {"blank"} : t \in AllLines
<1>1. "blank" \in Texts /\ Texts \subseteq AllLines
  BY PrompterAssumption DEF AllLines
<1>2. << >> \in Seq(Texts)
  BY EmptySeq
<1>3. ASSUME NEW s \in Seq(Texts) PROVE s \in Seq(AllLines)
  BY <1>1, <1>3
<1>4. \A t \in Range(Numerals) \cup {"blank"} : t \in AllLines
  BY <1>1 DEF AllLines
<1> QED
  BY <1>1, <1>2, <1>3, <1>4

\* What a user pipes in: the choice, if there is one, and the answers to the fields.
LEMMA ScriptIs ==
  ASSUME manifest \in Manifests, NEW f, NEW w
  PROVE  \E m \in 0..Len(manifest.methods) :
           /\ ~SeveralMethods(f) /\ Found(f) => m = MethodOf(f)
           /\ Script(f, w) = (IF SeveralMethods(f) THEN <<w.method>> ELSE << >>)
                \o Lines(FieldsOf(m), f.connection, w.answers)[Len(FieldsOf(m))]
<1> DEFINE L == Len(manifest.methods)
           fits(i) == IF SeveralMethods(f) THEN Numerals[i] = w.method
                      ELSE f.auth \in {"unset", manifest.methods[i].type}
           S == {i \in DOMAIN manifest.methods : fits(i)}
           m == IF S = {} THEN 0 ELSE Min(S)
<1>1. /\ L \in Nat /\ DOMAIN manifest.methods = 1..L /\ 0 \in 0..L
      /\ \A n \in 1..L : n \in 0..L
      /\ L = 0 => manifest.methods = << >>
  BY MethodsType
<1>2. m \in 0..L
  <2>1. S # {} => Min(S) \in 1..L
    <3>1. S \in SUBSET (1..L)
      BY <1>1
    <3> HIDE DEF S, L
    <3> QED
      BY <1>1, <3>1, MinIs
  <2> HIDE DEF S, L
  <2> QED
    BY <1>1, <2>1
<1>3. ASSUME ~SeveralMethods(f), Found(f) PROVE m = MethodOf(f)
  <2>1. CASE manifest.methods = << >>
    <3>1. S = {}
      BY <2>1
    <3> QED
      BY <2>1, <3>1 DEF MethodOf
  <2>2. CASE manifest.methods # << >> /\ f.auth = "unset"
    <3>1. L = 1
      <4>1. \A n \in Nat : n # 0 /\ ~(n > 1) => n = 1
        OBVIOUS
      <4>2. L # 0 /\ ~(L > 1)
        BY <1>1, <1>3, <2>2 DEF SeveralMethods
      <4> QED
        BY <1>1, <4>1, <4>2, Zenon
    <3>2. S = 1..1
      BY <1>1, <1>3, <2>2, <3>1
    <3>3. S = {1} /\ S # {}
      BY <3>2
    <3>4. Min(S) \in S
      <4>1. S \in SUBSET (1..1) /\ 1 \in Nat
        BY <3>2
      <4> HIDE DEF S
      <4> QED
        BY <3>3, <4>1, MinIs
    <3> HIDE DEF S
    <3>5. m = 1
      BY <3>3, <3>4
    <3> HIDE DEF m
    <3> QED
      BY <2>2, <3>5 DEF MethodOf
  <2>3. CASE manifest.methods # << >> /\ f.auth # "unset"
    <3>1. S = Among(f.auth)
      BY <1>3, <2>3 DEF Among
    <3>2. S # {}
      BY <1>3, <2>3, <3>1 DEF Found
    <3> HIDE DEF S
    <3> QED
      BY <2>3, <3>1, <3>2 DEF MethodOf
  <2> QED
    BY <2>1, <2>2, <2>3
<1>4. Script(f, w) = (IF SeveralMethods(f) THEN <<w.method>> ELSE << >>)
        \o Lines(FieldsOf(m), f.connection, w.answers)[Len(FieldsOf(m))]
  BY Zenon DEF Script
<1> HIDE DEF m, L
<1> QED
  BY <1>2, <1>3, <1>4 DEF L

\* The answers to the fields of a method.
LEMMA AnswersType ==
  ASSUME manifest \in Manifests, NEW a \in [DeclaredKeys -> Texts], NEW known,
         NEW m \in 0..Len(manifest.methods)
  PROVE  Lines(FieldsOf(m), known, a)[Len(FieldsOf(m))] \in Seq(Texts)
<1> DEFINE fs == FieldsOf(m)
<1>1. fs \in Seq(Field) /\ \A p \in 1..Len(fs) : fs[p] \in FieldDecls
  BY FieldsOfIs
<1>2. \A p \in 1..Len(fs) : fs[p].key \in DeclaredKeys
  BY <1>1 DEF DeclaredKeys
<1> HIDE DEF fs
<1>3. \A p \in 1..Len(fs) : a[fs[p].key] \in Texts
  BY <1>2
<1>4. Len(fs) \in 0..Len(fs)
  BY <1>1
<1>5. Lines(fs, known, a)[Len(fs)] \in Seq(Texts)
  BY <1>1, <1>3, <1>4, LinesType
<1> QED
  BY <1>5 DEF fs

\* No line that is piped in after the choice is a choice.
LEMMA ScriptType ==
  ASSUME manifest \in Manifests, NEW f, NEW w,
         w.method \in Range(Numerals) \cup {"blank"}, w.answers \in [DeclaredKeys -> Texts]
  PROVE  /\ Script(f, w) \in Seq(AllLines)
         /\ SeveralMethods(f) => Tail(Script(f, w)) \in Seq(Texts)
         /\ ~SeveralMethods(f) => Script(f, w) \in Seq(Texts)
<1>1. PICK m \in 0..Len(manifest.methods) :
        Script(f, w) = (IF SeveralMethods(f) THEN <<w.method>> ELSE << >>)
          \o Lines(FieldsOf(m), f.connection, w.answers)[Len(FieldsOf(m))]
  BY ScriptIs
<1> DEFINE s == Lines(FieldsOf(m), f.connection, w.answers)[Len(FieldsOf(m))]
           x == w.method
<1>2. s \in Seq(Texts)
  BY AnswersType
<1>3. x \in AllLines /\ s \in Seq(AllLines)
  BY <1>2, AllLinesIs
<1>4. Script(f, w) = (IF SeveralMethods(f) THEN <<x>> ELSE << >>) \o s
  BY <1>1
<1> HIDE DEF s, x
<1>5. CASE SeveralMethods(f)
  <2>1. Script(f, w) = <<x>> \o s
    BY <1>4, <1>5
  <2>2. <<x>> \o s \in Seq(AllLines) /\ Tail(<<x>> \o s) = s
    BY <1>3
  <2> QED
    BY <1>2, <1>5, <2>1, <2>2
<1>6. CASE ~SeveralMethods(f)
  <2>1. Script(f, w) = s
    BY <1>2, <1>4, <1>6, ConcatEmptySeq
  <2> QED
    BY <1>2, <1>3, <1>6, <2>1
<1> QED
  BY <1>5, <1>6

LEMMA LinesInit == Init => LinesInv
<1> SUFFICES ASSUME Init PROVE LinesInv
  OBVIOUS
<1>1. /\ stdin = << >> /\ reader = << >> /\ flags.interactive = FALSE /\ pc = "idle"
  BY DEF Init
<1>2. << >> \in Seq(AllLines)
  BY EmptySeq
<1> QED
  BY <1>1, <1>2 DEF LinesInv, Visiting, Choosing

LEMMA LinesStep == TypeInv /\ LinesInv /\ [Next]_vars => LinesInv'
<1> SUFFICES ASSUME TypeInv, LinesInv, [Next]_vars PROVE LinesInv'
  OBVIOUS
<1> USE DEF Fail, given, input, terminal, run
<1>0. manifest \in Manifests /\ AllLines' = AllLines
  BY DEF TypeInv, AllLines
<1>1. ASSUME UNCHANGED <<stdin, reader, flags, wants, fixture, manifest>>,
             pc' \in Visiting => pc \in Visiting,
             pc' \in Choosing => pc \in Choosing,
             pc' = "choice" => SeveralMethods(fixture),
             pc' \in {"choice", "prompt", "secret"} => flags.interactive,
             pc' \in {"prompt", "secret"} => fields' # << >>,
             pc' \in {"save", "write"} => flags.save
      PROVE  LinesInv'
  <2>1. DeclaredKeys' = DeclaredKeys /\ SeveralMethods(fixture)' = SeveralMethods(fixture)
    BY <1>1, Static
  <2> QED
    BY <1>0, <1>1, <2>1 DEF LinesInv
<1>2. CASE UNCHANGED vars
  BY <1>1, <1>2 DEF vars, LinesInv
<1>3. CASE Start
  <2>1. /\ UNCHANGED manifest /\ reader' = << >> /\ pc' \in {"failed", "pick"}
        /\ \/ /\ flags'.interactive = TRUE
              /\ wants'.method \in Range(Numerals) \cup {"blank"}
              /\ wants'.answers \in [DeclaredKeys -> Texts]
              /\ stdin' = << >> \/ stdin' = Script(fixture', wants')
           \/ flags'.interactive = FALSE /\ stdin' = << >>
    BY <1>3 DEF Start, DeclaredKeys
  <2>2. DeclaredKeys' = DeclaredKeys
    BY <2>1, Static
  <2>3. SeveralMethods(fixture)' <=> SeveralMethods(fixture')
    BY <2>1 DEF SeveralMethods
  <2>4. stdin' = << >> \/ (flags'.interactive /\ stdin' = Script(fixture', wants'))
    BY <2>1
  <2>5. /\ stdin' \in Seq(AllLines) /\ reader' \in Seq(AllLines)
        /\ SeveralMethods(fixture') => stdin' = << >> \/ Tail(stdin') \in Seq(Texts)
        /\ ~SeveralMethods(fixture') => stdin' \in Seq(Texts)
    <3>1. CASE stdin' = << >>
      BY <2>1, <3>1, AllLinesIs
    <3>2. CASE flags'.interactive /\ stdin' = Script(fixture', wants')
      <4>1. /\ Script(fixture', wants') \in Seq(AllLines)
            /\ SeveralMethods(fixture') => Tail(Script(fixture', wants')) \in Seq(Texts)
            /\ ~SeveralMethods(fixture') => Script(fixture', wants') \in Seq(Texts)
        BY <1>0, <2>1, <3>2, ScriptType
      <4> QED
        BY <2>1, <3>2, <4>1, AllLinesIs
    <3> QED
      BY <2>4, <3>1, <3>2
  <2>6. flags'.interactive =>
          /\ wants'.method \in Range(Numerals) \cup {"blank"}
          /\ wants'.answers \in [DeclaredKeys -> Texts]
    BY <2>1
  <2>7. ~flags'.interactive => stdin' = << >>
    BY <2>1
  <2> QED
    BY <1>0, <2>1, <2>2, <2>3, <2>5, <2>6, <2>7 DEF LinesInv, Visiting, Choosing
<1>4. CASE PickMethod
  <2>1. Picked
    BY <1>0, <1>4, PickIs
  <2>2. UNCHANGED <<stdin, reader, flags, wants, fixture, manifest>> /\ pc = "pick"
    BY <1>4 DEF PickMethod
  <2>3. CASE pc' = "fields"
    <3>1. stdin \in Seq(Texts) /\ reader \in Seq(Texts)
      <4>1. reader \in Seq(Texts)
        BY <2>2, AllLinesIs DEF LinesInv, Choosing
      <4>2. CASE ~SeveralMethods(fixture)
        BY <2>2, <4>2 DEF LinesInv, Choosing
      <4>3. CASE SeveralMethods(fixture)
        <5>1. ~flags.interactive
          BY <2>1, <2>2, <2>3, <4>3 DEF Picked
        <5> QED
          BY <4>1, <5>1, AllLinesIs DEF LinesInv
      <4> QED
        BY <4>1, <4>2, <4>3
    <3>2. DeclaredKeys' = DeclaredKeys
      BY <2>2, Static
    <3> QED
      BY <1>0, <2>2, <2>3, <3>1, <3>2 DEF LinesInv, Visiting, Choosing
  <2>4. CASE pc' = "choice" /\ flags.interactive /\ SeveralMethods(fixture)
    BY <1>1, <2>2, <2>4 DEF Visiting, Choosing
  <2>5. CASE pc' = "failed"
    BY <1>1, <2>2, <2>5 DEF Visiting, Choosing
  <2> QED
    BY <2>1, <2>3, <2>4, <2>5 DEF Picked
<1>5. CASE ReadChoice
  <2>1. /\ UNCHANGED <<reader, flags, wants, fixture, manifest>> /\ pc = "choice"
        /\ flags.interactive
    BY <1>5 DEF ReadChoice, LinesInv
  <2>2. SeveralMethods(fixture)
    BY <2>1 DEF LinesInv
  <2>3. PICK r \in Reads(<< >>) : stdin' = r.left
    BY <1>0, <1>5, <2>2, ChoiceIs
  <2>4. pc' \in {"failed", "fields"}
    BY <1>0, <1>5, <2>2, ChoiceIs
  <2>5. /\ reader = << >> /\ stdin \in Seq(AllLines)
        /\ stdin = << >> \/ Tail(stdin) \in Seq(Texts)
    BY <2>1, <2>2 DEF LinesInv, Choosing
  <2>6. r.left \in Seq(Texts)
    BY <2>5, ReadsRest
  <2>7. stdin' \in Seq(Texts) /\ reader' \in Seq(Texts)
    BY <2>1, <2>3, <2>5, <2>6, AllLinesIs
  <2>8. stdin' \in Seq(AllLines) /\ reader' \in Seq(AllLines)
    BY <2>7, AllLinesIs
  <2>9. DeclaredKeys' = DeclaredKeys
    BY <2>1, Static
  <2> QED
    BY <1>0, <2>1, <2>4, <2>7, <2>8, <2>9 DEF LinesInv, Visiting, Choosing
<1>6. CASE SkipField
  <2>1. /\ UNCHANGED <<stdin, reader, flags, wants, fixture, manifest>> /\ pc = "fields"
        /\ pc' \in {"fields", "failed"}
    BY <1>6 DEF SkipField
  <2> QED
    BY <1>1, <2>1 DEF Visiting, Choosing
<1>7. CASE Prompt
  <2>1. /\ UNCHANGED <<stdin, reader, flags, wants, fixture, manifest, fields>> /\ pc = "fields"
        /\ pc' \in {"prompt", "secret"} /\ flags.interactive /\ fields # << >>
    BY <1>7 DEF Prompt
  <2> QED
    BY <1>1, <2>1 DEF Visiting, Choosing
<1>8. CASE ReadField \/ ReadSecret
  <2>1. /\ UNCHANGED <<flags, wants, fixture, manifest>> /\ pc \in {"prompt", "secret"}
        /\ flags.interactive
    BY <1>8 DEF ReadField, ReadSecret, LinesInv
  <2>2. stdin \in Seq(Texts) /\ reader \in Seq(Texts)
    BY <2>1 DEF LinesInv, Visiting
  <2>3. \E line : Accept(Head(fields), line)
    BY <1>8 DEF ReadField, ReadSecret
  <2>4. pc' \in {"fields", "failed"}
    BY <2>3, AcceptIs
  <2>5. stdin' \in Seq(Texts) /\ reader' \in Seq(Texts)
    <3>1. CASE ReadField
      <4>1. PICK r \in Reads(reader) : reader' = r.ahead /\ stdin' = r.left
        BY <3>1 DEF ReadField
      <4> QED
        BY <2>2, <4>1, ReadsType, AllLinesIs
    <3>2. CASE ReadSecret
      <4>1. reader' = reader /\ \E r \in Reads(<< >>) : stdin' = r.left
        BY <3>2 DEF ReadSecret
      <4>2. PICK r \in Reads(<< >>) : stdin' = r.left
        BY <4>1
      <4> QED
        BY <2>2, <4>1, <4>2, ReadsType, AllLinesIs
    <3> QED
      BY <1>8, <3>1, <3>2
  <2>6. stdin' \in Seq(AllLines) /\ reader' \in Seq(AllLines)
    BY <2>5, AllLinesIs
  <2>7. DeclaredKeys' = DeclaredKeys
    BY <2>1, Static
  <2> QED
    BY <1>0, <2>1, <2>4, <2>5, <2>6, <2>7 DEF LinesInv, Visiting, Choosing
<1>9. CASE Resolve
  <2>1. /\ UNCHANGED <<stdin, reader, flags, wants, fixture, manifest>>
        /\ pc' \in {"save", "done"} /\ (pc' = "save" => flags.save)
    BY <1>9 DEF Resolve
  <2> QED
    BY <1>1, <2>1 DEF Visiting, Choosing
<1>10. CASE OpenFile \/ WriteFile
  <2>1. /\ UNCHANGED <<stdin, reader, flags, wants, fixture, manifest>>
        /\ pc' \in {"write", "done", "failed"} /\ flags.save
    BY <1>10 DEF OpenFile, WriteFile, LinesInv
  <2> QED
    BY <1>1, <2>1 DEF Visiting, Choosing
<1>11. CASE ReadError \/ Interrupt
  <2>1. /\ UNCHANGED <<stdin, reader, flags, wants, fixture, manifest>>
        /\ pc' \in {"failed", "idle"}
    BY <1>11 DEF ReadError, Interrupt
  <2> QED
    BY <1>1, <2>1 DEF Visiting, Choosing
<1>12. CASE UserTypes
  <2>1. /\ UNCHANGED <<pc, reader, flags, wants, run, manifest>>
        /\ \/ pc = "choice" /\ stdin' = <<wants.method>>
           \/ pc \in {"prompt", "secret"} /\ stdin' = <<wants.answers[Head(fields).key]>>
    BY <1>12 DEF UserTypes
  <2>2. flags.interactive
    BY <2>1 DEF LinesInv
  <2>3. DeclaredKeys' = DeclaredKeys /\ SeveralMethods(fixture)' = SeveralMethods(fixture)
    BY <2>1, Static
  <2>4. CASE pc = "choice" /\ stdin' = <<wants.method>>
    <3>1. wants.method \in AllLines
      BY <2>2, AllLinesIs DEF LinesInv
    <3>2. stdin' \in Seq(AllLines) /\ Tail(stdin') = << >>
      BY <2>4, <3>1
    <3>3. SeveralMethods(fixture)
      BY <2>4 DEF LinesInv
    <3> QED
      BY <1>0, <2>1, <2>2, <2>3, <2>4, <3>2, <3>3, AllLinesIs DEF LinesInv, Visiting, Choosing
  <2>5. CASE pc \in {"prompt", "secret"} /\ stdin' = <<wants.answers[Head(fields).key]>>
    <3>1. Head(fields) \in FieldDecls
      BY <2>5, HeadType DEF LinesInv
    <3>2. wants.answers[Head(fields).key] \in Texts
      <4>1. Head(fields).key \in DeclaredKeys
        BY <3>1 DEF DeclaredKeys
      <4> QED
        BY <2>2, <4>1 DEF LinesInv
    <3>3. stdin' \in Seq(Texts) /\ stdin' \in Seq(AllLines)
      BY <2>5, <3>2, AllLinesIs
    <3> QED
      BY <1>0, <2>1, <2>2, <2>3, <2>5, <3>3 DEF LinesInv, Visiting, Choosing
  <2> QED
    BY <2>1, <2>4, <2>5
<1> QED
  BY <1>2, <1>3, <1>4, <1>5, <1>6, <1>7, <1>8, <1>9, <1>10, <1>11, <1>12 DEF Next, Step

-----------------------------------------------------------------------------
(* Fields *)

\* The next field is settled.
LEMMA AtNext ==
  ASSUME NEW fs \in Seq(Field), Distinct(fs), NEW rest \in Seq(Field), rest # << >>,
         NEW known, NEW o, NEW o2, NEW h, NEW a,
         AtField(fs, rest, known, o, h, a),
         \A l : l # Head(rest).key => (l \in DOMAIN o2 <=> l \in DOMAIN o),
         \A l \in DOMAIN o : l # Head(rest).key => o2[l] = o[l],
         Settled(Head(rest), known, o2, h, a)
  PROVE  AtField(fs, Tail(rest), known, o2, h, a)
<1> DEFINE n == Len(fs) - Len(rest)
<1>1. /\ Len(fs) \in Nat /\ Len(rest) \in Nat /\ Len(rest) >= 1
      /\ Head(rest) = rest[1] /\ 1 \in 1..Len(rest)
      /\ Tail(rest) \in Seq(Field) /\ Len(Tail(rest)) = Len(rest) - 1
      /\ \A i \in 1..Len(Tail(rest)) : Tail(rest)[i] = rest[i + 1]
  BY HeadTailProperties, EmptySeq
<1>2. n >= 0 /\ (\A i \in 1..Len(rest) : rest[i] = fs[n + i]) /\ Visited(fs, n, known, o, h, a)
  BY Zenon DEF AtField
<1>3. n \in Nat /\ n < Len(fs) /\ Len(fs) - Len(Tail(rest)) = n + 1
  BY <1>1, <1>2
<1>4. Head(rest) = fs[n + 1]
  BY <1>1, <1>2
<1>5. \A i \in 1..Len(Tail(rest)) : Tail(rest)[i] = fs[(n + 1) + i]
  <2> SUFFICES ASSUME NEW i \in 1..Len(Tail(rest)) PROVE Tail(rest)[i] = fs[(n + 1) + i]
    OBVIOUS
  <2>1. i + 1 \in 1..Len(rest) /\ n + (i + 1) = (n + 1) + i
    BY <1>1, <1>3
  <2> QED
    BY <1>1, <1>2, <2>1
<1> HIDE DEF n
<1>6. Visited(fs, n + 1, known, o2, h, a)
  <2>1. /\ \A l : l # fs[n + 1].key => (l \in DOMAIN o2 <=> l \in DOMAIN o)
        /\ \A l \in DOMAIN o : l # fs[n + 1].key => o2[l] = o[l]
        /\ Settled(fs[n + 1], known, o2, h, a)
    BY <1>4, Zenon
  <2> QED
    BY <1>2, <1>3, <2>1, VisitOne, Zenon
<1>7. n + 1 >= 0
  BY <1>3
<1> QED
  BY <1>3, <1>5, <1>6, <1>7, Zenon DEF AtField

\* The next field is skipped.
LEMMA AtSkip ==
  ASSUME NEW fs \in Seq(Field), Distinct(fs), NEW rest \in Seq(Field), rest # << >>,
         NEW known, NEW o, NEW h \in BOOLEAN, NEW a,
         AtField(fs, rest, known, o, h, a),
         Head(rest).key \in DOMAIN o \/ (~h /\ ~Head(rest).required)
  PROVE  /\ AtField(fs, Tail(rest), known, o, h, a)
         /\ Head(rest).key \in DOMAIN o => Head(rest).key \in DOMAIN known
<1> DEFINE n == Len(fs) - Len(rest)
<1>1. /\ Len(fs) \in Nat /\ Len(rest) \in Nat /\ Len(rest) >= 1
      /\ Head(rest) = rest[1] /\ 1 \in 1..Len(rest)
  BY HeadTailProperties, EmptySeq
<1>2. n >= 0 /\ (\A i \in 1..Len(rest) : rest[i] = fs[n + i]) /\ Visited(fs, n, known, o, h, a)
  BY Zenon DEF AtField
<1>3. n + 1 \in (n + 1)..Len(fs)
  BY <1>1, <1>2
<1>4. Head(rest) = fs[n + 1]
  BY <1>1, <1>2
<1>5. Head(rest).key \in DOMAIN o => Head(rest).key \in DOMAIN known
  <2> HIDE DEF n
  <2> QED
    BY <1>2, <1>3, <1>4 DEF Visited
<1>6. Settled(Head(rest), known, o, h, a)
  <2>1. CASE Head(rest).key \in DOMAIN o
    BY <1>5, <2>1 DEF Settled
  <2>2. CASE Head(rest).key \notin DOMAIN o
    BY <2>2, Zenon DEF Settled
  <2> QED
    BY <2>1, <2>2
<1>7. AtField(fs, Tail(rest), known, o, h, a)
  BY <1>6, AtNext
<1> QED
  BY <1>5, <1>7

\* The answer to the next field is the next of the lines, unless the connection has the field.
LEMMA NextLine ==
  ASSUME NEW fs \in Seq(Field), NEW rest \in Seq(Field), rest # << >>,
         NEW known, NEW o, NEW h, NEW a, AtField(fs, rest, known, o, h, a)
  PROVE  /\ Len(Tail(rest)) \in 0..Len(fs)
         /\ Lines(fs, known, a)[Len(rest)] =
              IF Head(rest).key \in DOMAIN known THEN Lines(fs, known, a)[Len(Tail(rest))]
              ELSE <<a[Head(rest).key]>> \o Lines(fs, known, a)[Len(Tail(rest))]
<1> DEFINE n == Len(fs) - Len(rest)
           m == Len(rest)
<1>1. /\ Len(fs) \in Nat /\ m \in Nat /\ m >= 1
      /\ Head(rest) = rest[1] /\ 1 \in 1..m /\ Len(Tail(rest)) = m - 1
  BY HeadTailProperties, EmptySeq
<1>2. n >= 0 /\ (\A i \in 1..Len(rest) : rest[i] = fs[n + i])
  BY Zenon DEF AtField
<1>3. m \in 1..Len(fs) /\ n + 1 = Len(fs) - m + 1 /\ m - 1 \in 0..Len(fs)
  BY <1>1, <1>2
<1>4. Head(rest) = fs[Len(fs) - m + 1]
  BY <1>1, <1>2, <1>3
<1>5. Lines(fs, known, a)[m] =
        IF fs[Len(fs) - m + 1].key \in DOMAIN known THEN Lines(fs, known, a)[m - 1]
        ELSE <<a[fs[Len(fs) - m + 1].key]>> \o Lines(fs, known, a)[m - 1]
  BY <1>3, LinesSteps
<1> HIDE DEF n
<1> QED
  BY <1>1, <1>3, <1>4, <1>5, Zenon

\* No field has been visited yet, and the connection is that of the fixture.
LEMMA AtFirst ==
  ASSUME NEW fs \in Seq(Field), NEW o, NEW h, NEW a
  PROVE  AtField(fs, fs, o, o, h, a)
<1>1. Len(fs) \in Nat /\ Len(fs) - Len(fs) = 0
  OBVIOUS
<1>2. \A i \in 1..Len(fs) : fs[i] = fs[0 + i]
  BY <1>1
<1>3. Visited(fs, 0, o, o, h, a)
  BY DEF Visited
<1> QED
  BY <1>1, <1>2, <1>3 DEF AtField

\* A pipe holds the answer to a field that is asked for, and then the others.
LEMMA PipedLines ==
  ASSUME TypeInv, LinesInv, FieldInv, InputInv, flags.interactive, ~flags.tty,
         ~SeveralMethods(fixture), pc \in Visiting, fields # << >>
  PROVE  LET d    == Head(fields)
             rest == Lines(FieldsOf(method), fixture.connection, wants.answers)[Len(Tail(fields))]
         IN  /\ rest \in Seq(Texts)
             /\ d.key \in DOMAIN out => reader \o stdin = rest
             /\ d.key \notin DOMAIN out =>
                  /\ wants.answers[d.key] \in Texts
                  /\ reader \o stdin = <<wants.answers[d.key]>> \o rest
<1> DEFINE fs == FieldsOf(method)
           known == fixture.connection
           a == wants.answers
           d == Head(fields)
           m == Len(Tail(fields))
           rest == Lines(fs, known, a)[m]
<1>1. /\ manifest \in Manifests /\ method \in 0..Len(manifest.methods)
      /\ fields \in Seq(Field) /\ d \in FieldDecls
  BY HeadType DEF TypeInv
<1>2. /\ fs \in Seq(Field) /\ Distinct(fs)
      /\ \A p \in 1..Len(fs) : fs[p] \in FieldDecls
  BY <1>1, FieldsOfIs
<1>3. AtField(fs, fields, known, out, Heard, a)
  BY DEF FieldInv
<1>4. a \in [DeclaredKeys -> Texts]
  BY DEF LinesInv
<1>5. \A e \in FieldDecls : a[e.key] \in Texts
  BY <1>4 DEF DeclaredKeys
<1>6. Extends(out, known)
  BY DEF FieldInv, Active, Ended, Visiting
<1>7. Heard \in BOOLEAN
  BY DEF Heard
<1> HIDE DEF fs, known, a, d, m
<1>8. /\ m \in 0..Len(fs)
      /\ Lines(fs, known, a)[Len(fields)] =
           IF d.key \in DOMAIN known THEN rest ELSE <<a[d.key]>> \o rest
  <2>1. AtField(fs, fields, known, out, Heard, a) =>
          /\ Len(Tail(fields)) \in 0..Len(fs)
          /\ Lines(fs, known, a)[Len(fields)] =
               IF Head(fields).key \in DOMAIN known THEN Lines(fs, known, a)[Len(Tail(fields))]
               ELSE <<a[Head(fields).key]>> \o Lines(fs, known, a)[Len(Tail(fields))]
    BY <1>1, <1>2, NextLine
  <2> QED
    BY <1>3, <2>1, Zenon DEF d, m
<1>9. rest \in Seq(Texts)
  <2>1. \A p \in 1..Len(fs) : a[fs[p].key] \in Texts
    BY <1>2, <1>5
  <2> QED
    BY <1>2, <1>8, <2>1, LinesType
<1>10. reader \o stdin = Lines(fs, known, a)[Len(fields)]
  BY Zenon DEF InputInv, fs, known, a
<1>11. d.key \in DOMAIN out => d.key \in DOMAIN known
  <2>1. AtField(fs, fields, known, out, Heard, a) =>
          (Head(fields).key \in DOMAIN out => Head(fields).key \in DOMAIN known)
    BY <1>1, <1>2, <1>7, AtSkip
  <2> QED
    BY <1>3, <2>1, Zenon DEF d
<1>12. d.key \in DOMAIN known => d.key \in DOMAIN out
  BY <1>6 DEF Extends
<1>13. a[d.key] \in Texts
  BY <1>1, <1>5
<1>14. /\ d.key \in DOMAIN out => reader \o stdin = rest
       /\ d.key \notin DOMAIN out => reader \o stdin = <<a[d.key]>> \o rest
  BY <1>8, <1>10, <1>11, <1>12, Zenon
<1> QED
  BY <1>9, <1>13, <1>14, Zenon DEF fs, known, a, d, m

\* The answer that a prompt hears is the one meant for its field.
LEMMA HeardIs ==
  ASSUME TypeInv, LinesInv, FieldInv, InputInv, Heard,
         \/ ReadField /\ pc = "prompt"
         \/ ReadSecret /\ pc = "secret"
  PROVE  \E line \in Texts :
           Accept(Head(fields), line) /\ line = wants.answers[Head(fields).key]
<1> DEFINE d == Head(fields)
           x == wants.answers[d.key]
<1>0. /\ stdin \in Seq(Texts) /\ reader \in Seq(Texts) /\ << >> \in Seq(Texts)
      /\ flags.interactive /\ fields # << >> /\ d.key \notin DOMAIN out
      /\ \A b : b \in Seq(Texts) => \A r \in Reads(b) : r.line \in Texts
  <2>1. stdin \in Seq(Texts) /\ reader \in Seq(Texts) /\ << >> \in Seq(Texts) /\ "blank" \in Texts
    BY AllLinesIs DEF LinesInv, Visiting
  <2>2. \A b : b \in Seq(Texts) => \A r \in Reads(b) : r.line \in Texts
    BY <2>1, ReadsType
  <2> QED
    BY <2>1, <2>2 DEF LinesInv, FieldInv
<1>1. CASE flags.tty
  <2>1. reader = << >> /\ stdin \in {<< >>, <<x>>}
    BY <1>0, <1>1 DEF InputInv, Active, Ended
  <2> HIDE DEF x
  <2>2. Len(stdin) <= 1 /\ (stdin # << >> => Head(stdin) = x)
    <3>1. CASE stdin = << >>
      BY <3>1, EmptySeq
    <3>2. CASE stdin = <<x>>
      BY <3>2
    <3> QED
      BY <2>1, <3>1, <3>2
  <2>3. PICK r \in Reads(<< >>) : Accept(d, r.line)
    BY <2>1 DEF ReadField, ReadSecret
  <2>4. r.line = x
    BY <1>0, <1>1, <2>2, ReadsTyped
  <2> QED
    BY <1>0, <2>3, <2>4 DEF x
<1>2. CASE ~flags.tty
  <2>1. pc = "prompt" /\ ReadField /\ ~SeveralMethods(fixture)
    BY <1>2 DEF InputInv, Heard
  <2> DEFINE rest == Lines(FieldsOf(method), fixture.connection, wants.answers)[Len(Tail(fields))]
  <2>2. rest \in Seq(Texts) /\ x \in Texts /\ reader \o stdin = <<x>> \o rest
    <3>1. pc \in Visiting
      BY <2>1 DEF Visiting
    <3> QED
      BY <1>0, <1>2, <2>1, <3>1, PipedLines, Zenon
  <2> HIDE DEF rest, x
  <2>3. PICK r \in Reads(reader) : Accept(d, r.line)
    BY <2>1 DEF ReadField
  <2>4. r.line = x
    BY <1>0, <2>2, <2>3, ReadsNext
  <2> QED
    BY <1>0, <2>3, <2>4 DEF x
<1> QED
  BY <1>1, <1>2

LEMMA FieldInit == Init => FieldInv
<1> SUFFICES ASSUME Init PROVE FieldInv
  OBVIOUS
<1>1. pc = "idle"
  BY DEF Init
<1> QED
  BY <1>1 DEF FieldInv, Visiting, Choosing, Active, Ended

\* The fields that a method asks for.
LEMMA ChosenFields ==
  ASSUME NEW n, method' = n, manifest' = manifest
  PROVE  FieldsOf(method)' = FieldsOf(n)
BY DEF FieldsOf

LEMMA FieldStep == TypeInv /\ LinesInv /\ FieldInv /\ InputInv /\ [Next]_vars => FieldInv'
<1> SUFFICES ASSUME TypeInv, LinesInv, FieldInv, InputInv, [Next]_vars PROVE FieldInv'
  OBVIOUS
<1> USE DEF Fail, given, input, terminal, run
<1> DEFINE After == {"save", "write", "done"}
<1>0. manifest \in Manifests /\ method \in 0..Len(manifest.methods) /\ fields \in Seq(Field)
  BY DEF TypeInv
<1>1. ASSUME UNCHANGED <<manifest, flags, wants, fixture, method, fields, out>>,
             pc' \in Visiting => pc \in Visiting,
             pc' \in After => pc \in After,
             pc' \in Choosing => pc \in Choosing,
             pc' \notin Ended \/ pc' = "done" => pc \notin Ended \/ pc = "done",
             pc' \in {"prompt", "secret"} => Head(fields).key \notin DOMAIN out
      PROVE  FieldInv'
  <2>1. /\ FieldsOf(method)' = FieldsOf(method)
        /\ SeveralMethods(fixture)' = SeveralMethods(fixture)
        /\ Found(fixture)' = Found(fixture) /\ MethodOf(fixture)' = MethodOf(fixture)
        /\ Heard' = Heard
    BY <1>1, Static
  <2> QED
    BY <1>1, <2>1 DEF FieldInv, Active
<1>2. CASE UNCHANGED vars
  BY <1>1, <1>2 DEF vars, FieldInv
<1>3. CASE Start
  <2>1. out' = fixture'.connection /\ pc' \in {"failed", "pick"}
    BY <1>3 DEF Start
  <2>2. Extends(out', fixture'.connection)
    BY <2>1 DEF Extends
  <2> QED
    BY <2>1, <2>2 DEF FieldInv, Visiting, Choosing, Active, Ended
<1>4. CASE PickMethod \/ ReadChoice
  <2>1. /\ UNCHANGED <<manifest, flags, wants, fixture, out>> /\ pc \in Choosing
    BY <1>4 DEF PickMethod, ReadChoice, Choosing
  <2>2. Picked
    <3>1. CASE PickMethod
      BY <1>0, <3>1, PickIs
    <3>2. CASE ReadChoice
      <4>1. SeveralMethods(fixture)
        BY <3>2 DEF ReadChoice, LinesInv
      <4> QED
        BY <1>0, <3>2, <4>1, ChoiceIs
    <3> QED
      BY <1>4, <3>1, <3>2
  <2>3. out = fixture.connection
    BY <2>1 DEF FieldInv
  <2>4. CASE pc' = "failed"
    BY <2>4 DEF FieldInv, Visiting, Choosing, Active, Ended
  <2>5. CASE pc' = "choice" /\ UNCHANGED <<method, fields>>
    BY <1>1, <2>1, <2>5 DEF Visiting, Choosing, Ended
  <2>6. CASE /\ pc' = "fields"
             /\ \E n \in 0..Len(manifest.methods) :
                  /\ method' = n /\ fields' = FieldsOf(n)
                  /\ ~SeveralMethods(fixture) => Found(fixture) /\ n = MethodOf(fixture)
    <3>1. PICK n \in 0..Len(manifest.methods) :
                  /\ method' = n /\ fields' = FieldsOf(n)
                  /\ ~SeveralMethods(fixture) => Found(fixture) /\ n = MethodOf(fixture)
      BY <2>6
    <3>2. FieldsOf(method)' = FieldsOf(n)
      BY <2>1, <3>1, ChosenFields
    <3>3. FieldsOf(n) \in Seq(Field)
      BY <1>0, FieldsOfIs
    <3>4. /\ SeveralMethods(fixture)' = SeveralMethods(fixture)
          /\ Found(fixture)' = Found(fixture) /\ MethodOf(fixture)' = MethodOf(fixture)
      BY <2>1, Static
    <3>5. AtField(FieldsOf(method)', fields', fixture'.connection, out', Heard', wants'.answers)
      BY <2>1, <2>3, <3>1, <3>2, <3>3, AtFirst
    <3>6. Extends(out', fixture'.connection)
      BY <2>1, <2>3 DEF Extends
    <3> QED
      BY <2>1, <2>3, <2>6, <3>1, <3>4, <3>5, <3>6 DEF FieldInv, Visiting, Choosing
  <2> QED
    BY <2>2, <2>4, <2>5, <2>6 DEF Picked
<1>5. CASE SkipField
  <2>1. /\ UNCHANGED <<manifest, flags, wants, fixture, method, out>>
        /\ fields # << >> /\ pc = "fields"
        /\ \/ /\ fields' = Tail(fields) /\ pc' = pc
              /\ Head(fields).key \in DOMAIN out \/ (~flags.interactive /\ ~Head(fields).required)
           \/ fields' = fields /\ pc' = "failed"
    BY <1>5 DEF SkipField
  <2>2. CASE /\ fields' = Tail(fields) /\ pc' = pc
             /\ Head(fields).key \in DOMAIN out \/ (~flags.interactive /\ ~Head(fields).required)
    <3>1. /\ FieldsOf(method)' = FieldsOf(method)
          /\ SeveralMethods(fixture)' = SeveralMethods(fixture)
          /\ Found(fixture)' = Found(fixture) /\ MethodOf(fixture)' = MethodOf(fixture)
          /\ Heard' = Heard
      BY <2>1, Static
    <3>2. FieldsOf(method) \in Seq(Field) /\ Distinct(FieldsOf(method))
      BY <1>0, FieldsOfIs
    <3>3. AtField(FieldsOf(method), fields, fixture.connection, out, Heard, wants.answers)
      BY <2>1 DEF FieldInv, Visiting
    <3>4. Heard \in BOOLEAN /\ (~flags.interactive => ~Heard)
      BY DEF Heard
    <3>5. AtField(FieldsOf(method), Tail(fields), fixture.connection, out, Heard, wants.answers)
      BY <1>0, <2>1, <2>2, <3>2, <3>3, <3>4, AtSkip
    <3> QED
      BY <2>1, <2>2, <3>1, <3>5 DEF FieldInv, Visiting, Choosing, Active, Ended
  <2>3. CASE pc' = "failed"
    BY <2>3 DEF FieldInv, Visiting, Choosing, Active, Ended
  <2> QED
    BY <2>1, <2>2, <2>3
<1>6. CASE Prompt
  <2>1. /\ UNCHANGED <<manifest, flags, wants, fixture, method, fields, out>>
        /\ pc = "fields" /\ pc' \in {"prompt", "secret"} /\ Head(fields).key \notin DOMAIN out
    BY <1>6 DEF Prompt
  <2> QED
    BY <1>1, <2>1 DEF Visiting, Choosing, Ended
<1>7. CASE ReadField \/ ReadSecret
  <2>1. /\ UNCHANGED <<manifest, flags, wants, fixture, method>> /\ pc \in {"prompt", "secret"}
        /\ flags.interactive /\ fields # << >> /\ Head(fields).key \notin DOMAIN out
    BY <1>7 DEF ReadField, ReadSecret, LinesInv, FieldInv
  <2> DEFINE d == Head(fields)
             known == fixture.connection
             a == wants.answers
  <2>2. PICK line \in Texts :
          /\ Accept(Head(fields), line)
          /\ Heard => line = wants.answers[Head(fields).key]
    <3>1. (ReadField /\ pc = "prompt") \/ (ReadSecret /\ pc = "secret")
      BY <1>7 DEF ReadField, ReadSecret
    <3>2. CASE Heard
      BY <3>1, <3>2, HeardIs
    <3>3. CASE ~Heard
      BY <3>1, <3>3, PromptReads
    <3> QED
      BY <3>2, <3>3
  <2>3. CASE pc' = "failed"
    BY <2>3 DEF FieldInv, Visiting, Choosing, Active, Ended
  <2>4. CASE pc' = "fields" /\ fields' = Tail(fields) /\ Taken(d, line, out, out')
    <3>0. /\ d \in Field /\ Heard \in BOOLEAN
      BY <2>1, HeadType DEF Heard
    <3>1. /\ \A l : l # d.key => (l \in DOMAIN out' <=> l \in DOMAIN out)
          /\ \A l \in DOMAIN out : l \in DOMAIN out' /\ out'[l] = out[l]
      BY <2>1, <2>4, <3>0, TakenIs
    <3>2. Settled(d, known, out', Heard, a)
      BY <2>1, <2>2, <2>4, <3>0, TakenSettles
    <3>3. FieldsOf(method) \in Seq(Field) /\ Distinct(FieldsOf(method))
      BY <1>0, FieldsOfIs
    <3>4. AtField(FieldsOf(method), fields, known, out, Heard, a)
      BY <2>1 DEF FieldInv, Visiting
    <3>5. AtField(FieldsOf(method), Tail(fields), known, out', Heard, a)
      BY <1>0, <2>1, <3>1, <3>2, <3>3, <3>4, AtNext
    <3>6. Extends(out', known)
      <4>1. Extends(out, known)
        BY <2>1 DEF FieldInv, Active, Ended
      <4> QED
        BY <3>1, <4>1 DEF Extends
    <3>7. /\ FieldsOf(method)' = FieldsOf(method)
          /\ SeveralMethods(fixture)' = SeveralMethods(fixture)
          /\ Found(fixture)' = Found(fixture) /\ MethodOf(fixture)' = MethodOf(fixture)
          /\ Heard' = Heard
      BY <2>1, Static
    <3>8. ~SeveralMethods(fixture) => Found(fixture) /\ method = MethodOf(fixture)
      BY <2>1 DEF FieldInv, Visiting
    <3> QED
      BY <2>1, <2>4, <3>5, <3>6, <3>7, <3>8 DEF FieldInv, Visiting, Choosing
  <2> QED
    BY <2>2, <2>3, <2>4, AcceptIs
<1>8. CASE Resolve
  <2>1. /\ UNCHANGED <<manifest, flags, wants, fixture, method, fields, out>>
        /\ pc = "fields" /\ pc' \in {"save", "done"} /\ fields = << >>
    BY <1>8 DEF Resolve
  <2>2. /\ FieldsOf(method)' = FieldsOf(method)
        /\ SeveralMethods(fixture)' = SeveralMethods(fixture)
        /\ Found(fixture)' = Found(fixture) /\ MethodOf(fixture)' = MethodOf(fixture)
        /\ Heard' = Heard
    BY <2>1, Static
  <2>3. Visited(FieldsOf(method), Len(FieldsOf(method)), fixture.connection, out, Heard,
                wants.answers)
    <3>1. AtField(FieldsOf(method), << >>, fixture.connection, out, Heard, wants.answers)
      BY <2>1 DEF FieldInv, Visiting
    <3>2. Len(FieldsOf(method)) - Len(<< >>) = Len(FieldsOf(method))
      BY <1>0, FieldsOfIs
    <3> QED
      BY <3>1, <3>2, Zenon DEF AtField
  <2> QED
    BY <2>1, <2>2, <2>3 DEF FieldInv, Visiting, Choosing, Active, Ended
<1>9. CASE OpenFile \/ WriteFile
  <2>1. /\ UNCHANGED <<manifest, flags, wants, fixture, method, fields, out>>
        /\ pc \in {"save", "write"} /\ pc' \in {"write", "done", "failed"}
    BY <1>9 DEF OpenFile, WriteFile
  <2> QED
    BY <1>1, <2>1 DEF Visiting, Choosing, Ended
<1>10. CASE ReadError \/ Interrupt
  <2>1. pc' \in {"failed", "idle"}
    BY <1>10 DEF ReadError, Interrupt
  <2> QED
    BY <2>1 DEF FieldInv, Visiting, Choosing, Active, Ended
<1>11. CASE UserTypes
  <2>1. UNCHANGED <<manifest, flags, wants, fixture, method, fields, out, pc>>
    BY <1>11 DEF UserTypes
  <2> QED
    BY <1>1, <2>1 DEF FieldInv
<1> QED
  BY <1>2, <1>3, <1>4, <1>5, <1>6, <1>7, <1>8, <1>9, <1>10, <1>11 DEF Next, Step

-----------------------------------------------------------------------------
(* Answers *)

LEMMA InputInit == Init => InputInv
<1> SUFFICES ASSUME Init PROVE InputInv
  OBVIOUS
<1>1. pc = "idle" /\ flags.interactive = FALSE
  BY DEF Init
<1> QED
  BY <1>1 DEF InputInv

\* The prompt of a field takes its answer, and leaves the rest.
LEMMA ReadsPiped ==
  ASSUME stdin \in Seq(Texts), reader \in Seq(Texts), ReadField,
         NEW x \in Texts, NEW rest \in Seq(Texts), reader \o stdin = <<x>> \o rest
  PROVE  reader' \o stdin' = rest
<1>1. PICK r \in Reads(reader) : reader' = r.ahead /\ stdin' = r.left
  BY DEF ReadField
<1>2. r \in Reads(reader)
  BY <1>1
<1>3. Unread(r) = rest
  BY <1>2, ReadsNext
<1> QED
  BY <1>1, <1>3 DEF Unread

LEMMA InputStep == TypeInv /\ LinesInv /\ FieldInv /\ InputInv /\ [Next]_vars => InputInv'
<1> SUFFICES ASSUME TypeInv, LinesInv, FieldInv, InputInv, [Next]_vars PROVE InputInv'
  OBVIOUS
<1> USE DEF Fail, given, input, terminal, run
<1> DEFINE Typed == flags.interactive /\ flags.tty
           Piped == flags.interactive /\ ~flags.tty /\ ~SeveralMethods(fixture)
           \* What InputInv says of a terminal, and of a pipe.
           OfTyped(p, s, r, x) ==
             /\ p \notin Ended => r = << >>
             /\ p \in {"pick", "fields"} => s = << >>
             /\ p = "choice" => Len(s) <= 1
             /\ p \in {"prompt", "secret"} => s \in {<< >>, <<x>>}
<1>0. manifest \in Manifests /\ method \in 0..Len(manifest.methods) /\ fields \in Seq(Field)
  BY DEF TypeInv
<1>t. Typed => OfTyped(pc, stdin, reader, wants.answers[Head(fields).key])
  BY DEF InputInv, Active
<1>p. Piped =>
        /\ pc = "pick" /\ Found(fixture) =>
             stdin = Lines(FieldsOf(MethodOf(fixture)), fixture.connection, wants.answers)
                       [Len(FieldsOf(MethodOf(fixture)))]
        /\ pc \in Visiting =>
             reader \o stdin =
               Lines(FieldsOf(method), fixture.connection, wants.answers)[Len(fields)]
  BY Zenon DEF InputInv
\* A step that neither reads nor types.
<1>1. ASSUME UNCHANGED <<manifest, flags, wants, fixture, stdin, reader>>,
             pc' = "pick" => pc = "pick",
             pc' \notin Ended => pc \notin Ended,
             pc' \in Visiting => pc \in Visiting /\ UNCHANGED <<method, fields>>,
             pc' \in {"prompt", "secret"} => pc \in {"fields", pc'},
             pc' = "fields" => pc = "fields",
             pc' = "choice" => pc = "choice",
             pc' = "secret" => flags.tty
      PROVE  InputInv'
  <2>1. /\ SeveralMethods(fixture)' = SeveralMethods(fixture)
        /\ Found(fixture)' = Found(fixture) /\ MethodOf(fixture)' = MethodOf(fixture)
        /\ method' = method => FieldsOf(method)' = FieldsOf(method)
    BY <1>1, Static
  <2>2. FieldsOf(MethodOf(fixture))' = FieldsOf(MethodOf(fixture))
    BY <1>1, <2>1 DEF FieldsOf
  <2>3. Typed => OfTyped(pc', stdin', reader', wants'.answers[Head(fields').key])
    BY <1>t, <1>1 DEF Visiting
  <2>4. Piped =>
        /\ pc' = "pick" /\ Found(fixture)' =>
             stdin' = Lines(FieldsOf(MethodOf(fixture))', fixture'.connection, wants'.answers)
                       [Len(FieldsOf(MethodOf(fixture))')]
        /\ pc' \in Visiting =>
             reader' \o stdin' =
               Lines(FieldsOf(method)', fixture'.connection, wants'.answers)[Len(fields')]
    BY <1>p, <1>1, <2>1, <2>2
  <2> QED
    BY <1>1, <2>1, <2>3, <2>4 DEF InputInv, Active
<1>2. CASE UNCHANGED vars
  BY <1>1, <1>2 DEF vars, InputInv
<1>3. CASE Start
  <2>1. /\ UNCHANGED manifest /\ reader' = << >> /\ pc' \in {"failed", "pick"}
        /\ \/ flags'.interactive = TRUE /\ stdin' = IF flags'.tty THEN << >> ELSE Script(fixture', wants')
           \/ flags'.interactive = FALSE
    BY <1>3 DEF Start
  <2>2. /\ SeveralMethods(fixture)' <=> SeveralMethods(fixture')
        /\ Found(fixture)' <=> Found(fixture')
        /\ MethodOf(fixture)' = MethodOf(fixture')
        /\ \A n : method' = n => FieldsOf(method)' = FieldsOf(n)
    BY <2>1 DEF SeveralMethods, Found, MethodOf, Among, FieldsOf
  <2>3. FieldsOf(MethodOf(fixture))' = FieldsOf(MethodOf(fixture'))
    BY <2>1, <2>2 DEF FieldsOf
  <2>4. flags'.interactive /\ flags'.tty => stdin' = << >>
    BY <2>1
  <2>5. ASSUME flags'.interactive, ~flags'.tty, ~SeveralMethods(fixture'), Found(fixture')
        PROVE  stdin' = Lines(FieldsOf(MethodOf(fixture')), fixture'.connection, wants'.answers)
                          [Len(FieldsOf(MethodOf(fixture')))]
    <3>1. stdin' = Script(fixture', wants')
      BY <2>1, <2>5
    <3>2. PICK m \in 0..Len(manifest.methods) :
            /\ ~SeveralMethods(fixture') /\ Found(fixture') => m = MethodOf(fixture')
            /\ Script(fixture', wants') =
                 (IF SeveralMethods(fixture') THEN <<wants'.method>> ELSE << >>)
                   \o Lines(FieldsOf(m), fixture'.connection, wants'.answers)[Len(FieldsOf(m))]
      BY <1>0, ScriptIs
    <3> DEFINE s == Lines(FieldsOf(m), fixture'.connection, wants'.answers)[Len(FieldsOf(m))]
    <3>3. m = MethodOf(fixture') /\ stdin' = << >> \o s
      BY <2>5, <3>1, <3>2
    <3>4. s \in Seq(Texts)
      <4>1. wants'.answers \in [DeclaredKeys -> Texts]
        BY <1>3, <2>5 DEF Start, DeclaredKeys
      <4> QED
        BY <1>0, <4>1, AnswersType
    <3> HIDE DEF s
    <3>5. stdin' = s
      BY <3>3, <3>4, ConcatEmptySeq
    <3> QED
      BY <3>3, <3>5 DEF s
  <2> QED
    BY <2>1, <2>2, <2>3, <2>4, <2>5 DEF InputInv, Visiting
<1>4. CASE PickMethod
  <2>1. /\ UNCHANGED <<manifest, flags, wants, fixture, out, stdin, reader>> /\ pc = "pick"
    BY <1>4 DEF PickMethod
  <2>2. Picked
    BY <1>0, <1>4, PickIs
  <2>3. CASE pc' = "failed"
    BY <2>3 DEF InputInv, Visiting, Active, Ended
  <2>4. CASE pc' = "choice"
    <3>1. Typed => OfTyped(pc', stdin', reader', wants'.answers[Head(fields').key])
      <4>1. Len(<< >>) <= 1
        OBVIOUS
      <4> QED
        BY <1>t, <2>1, <2>4, <4>1 DEF Ended
    <3> QED
      BY <2>1, <2>4, <3>1 DEF InputInv, Visiting, Active
  <2>5. CASE /\ pc' = "fields"
             /\ \E n \in 0..Len(manifest.methods) :
                  /\ method' = n /\ fields' = FieldsOf(n)
                  /\ ~SeveralMethods(fixture) => Found(fixture) /\ n = MethodOf(fixture)
    <3>1. PICK n \in 0..Len(manifest.methods) :
                  /\ method' = n /\ fields' = FieldsOf(n)
                  /\ ~SeveralMethods(fixture) => Found(fixture) /\ n = MethodOf(fixture)
      BY <2>5
    <3>2. FieldsOf(method)' = FieldsOf(n) /\ SeveralMethods(fixture)' = SeveralMethods(fixture)
      BY <2>1, <3>1, ChosenFields, Static
    <3>3. Typed => OfTyped(pc', stdin', reader', wants'.answers[Head(fields').key])
      BY <1>t, <2>1, <2>5 DEF Ended
    <3>4. Piped => reader \o stdin = Lines(FieldsOf(n), fixture.connection, wants.answers)[Len(FieldsOf(n))]
      <4>1. reader = << >> /\ stdin \in Seq(AllLines)
        BY <2>1 DEF LinesInv, Choosing
      <4>2. reader \o stdin = stdin
        BY <4>1, ConcatEmptySeq
      <4>3. CASE Piped
        <5>1. n = MethodOf(fixture) /\ Found(fixture)
          BY <3>1, <4>3
        <5>2. stdin = Lines(FieldsOf(MethodOf(fixture)), fixture.connection, wants.answers)
                       [Len(FieldsOf(MethodOf(fixture)))]
          BY <1>p, <2>1, <4>3, <5>1, Zenon
        <5> QED
          BY <4>2, <5>1, <5>2
      <4> QED
        BY <4>3
    <3> QED
      BY <2>1, <2>5, <3>1, <3>2, <3>3, <3>4 DEF InputInv, Active
  <2> QED
    BY <2>2, <2>3, <2>4, <2>5 DEF Picked
<1>5. CASE ReadChoice
  <2>1. /\ UNCHANGED <<manifest, flags, wants, fixture, reader>> /\ pc = "choice"
        /\ SeveralMethods(fixture)
    BY <1>5 DEF ReadChoice, LinesInv
  <2>2. SeveralMethods(fixture)'
    BY <2>1, Static
  <2>3. pc' \in {"failed", "fields"} /\ \E r \in Reads(<< >>) : stdin' = r.left
    BY <1>0, <1>5, <2>1, ChoiceIs
  <2>4. Typed => stdin' = << >> /\ reader' = << >>
    <3>1. CASE Typed
      <4>1. stdin \in Seq(AllLines) /\ Len(stdin) <= 1 /\ flags.tty
        BY <1>t, <2>1, <3>1 DEF LinesInv
      <4>2. PICK r \in Reads(<< >>) : stdin' = r.left
        BY <2>3
      <4>3. r.left = << >>
        BY <4>1, ReadsTyped
      <4>4. reader = << >>
        BY <2>1 DEF LinesInv, Choosing
      <4> QED
        BY <2>1, <4>2, <4>3, <4>4
    <3> QED
      BY <3>1
  <2> QED
    BY <2>1, <2>2, <2>3, <2>4 DEF InputInv, Visiting, Active
<1>6. CASE SkipField
  <2>1. /\ UNCHANGED <<manifest, flags, wants, fixture, method, stdin, reader>>
        /\ fields # << >> /\ pc = "fields"
        /\ \/ /\ fields' = Tail(fields) /\ pc' = pc
              /\ Head(fields).key \in DOMAIN out \/ ~flags.interactive
           \/ pc' = "failed"
    BY <1>6 DEF SkipField
  <2>2. CASE /\ fields' = Tail(fields) /\ pc' = pc
             /\ Head(fields).key \in DOMAIN out \/ ~flags.interactive
    <3>1. /\ FieldsOf(method)' = FieldsOf(method)
          /\ SeveralMethods(fixture)' = SeveralMethods(fixture)
      BY <2>1, Static
    <3>2. Piped => reader \o stdin =
                Lines(FieldsOf(method), fixture.connection, wants.answers)[Len(Tail(fields))]
      BY <2>1, <2>2, PipedLines DEF Visiting
    <3>3. Typed => OfTyped(pc', stdin', reader', wants'.answers[Head(fields').key])
      BY <1>t, <2>1, <2>2
    <3> QED
      BY <2>1, <2>2, <3>1, <3>2, <3>3 DEF InputInv, Active
  <2>3. CASE pc' = "failed"
    BY <2>3 DEF InputInv, Visiting, Active, Ended
  <2> QED
    BY <2>1, <2>2, <2>3
<1>7. CASE Prompt
  <2>1. /\ UNCHANGED <<manifest, flags, wants, fixture, method, fields, stdin, reader>>
        /\ pc = "fields" /\ pc' \in {"prompt", "secret"} /\ (pc' = "secret" => flags.tty)
    BY <1>7 DEF Prompt
  <2> QED
    BY <1>1, <2>1 DEF Visiting, Ended
<1>8. CASE ReadField \/ ReadSecret
  <2>1. /\ UNCHANGED <<manifest, flags, wants, fixture, method>> /\ pc \in {"prompt", "secret"}
        /\ fields # << >> /\ Head(fields).key \notin DOMAIN out
        /\ stdin \in Seq(Texts) /\ reader \in Seq(Texts) /\ << >> \in Seq(Texts)
    BY <1>8, AllLinesIs DEF ReadField, ReadSecret, LinesInv, FieldInv, Visiting
  <2>2. \E line : Accept(Head(fields), line)
    BY <1>8 DEF ReadField, ReadSecret
  <2>3. pc' = "failed" \/ (pc' = "fields" /\ fields' = Tail(fields))
    BY <2>2, AcceptIs
  <2>4. CASE pc' = "failed"
    BY <2>4 DEF InputInv, Visiting, Active, Ended
  <2>5. CASE pc' = "fields" /\ fields' = Tail(fields)
    <3>1. /\ FieldsOf(method)' = FieldsOf(method)
          /\ SeveralMethods(fixture)' = SeveralMethods(fixture)
      BY <2>1, Static
    <3>2. Typed => stdin' = << >> /\ reader' = << >>
      <4>1. CASE Typed
        <5>1. reader = << >> /\ flags.tty /\ Len(stdin) <= 1
          <6>1. reader = << >> /\ stdin \in {<< >>, <<wants.answers[Head(fields).key]>>}
            BY <1>t, <2>1, <4>1 DEF Ended
          <6>2. CASE stdin = << >>
            BY <4>1, <6>1, <6>2, EmptySeq
          <6>3. CASE stdin = <<wants.answers[Head(fields).key]>>
            BY <4>1, <6>1, <6>3
          <6> QED
            BY <6>1, <6>2, <6>3
        <5>2. CASE ReadField
          <6>1. PICK r \in Reads(<< >>) : reader' = r.ahead /\ stdin' = r.left
            BY <5>1, <5>2 DEF ReadField
          <6> QED
            BY <2>1, <5>1, <6>1, ReadsTyped
        <5>3. CASE ReadSecret
          <6>1. reader' = reader /\ \E r \in Reads(<< >>) : stdin' = r.left
            BY <5>3 DEF ReadSecret
          <6>2. PICK r \in Reads(<< >>) : stdin' = r.left
            BY <6>1
          <6> QED
            BY <2>1, <5>1, <6>1, <6>2, ReadsTyped
        <5> QED
          BY <1>8, <5>2, <5>3
      <4> QED
        BY <4>1
    <3>3. Piped => reader' \o stdin' =
            Lines(FieldsOf(method), fixture.connection, wants.answers)[Len(fields')]
      <4>1. CASE Piped
        <5> DEFINE rest == Lines(FieldsOf(method), fixture.connection, wants.answers)
                             [Len(Tail(fields))]
                   x == wants.answers[Head(fields).key]
        <5>1. rest \in Seq(Texts) /\ x \in Texts /\ reader \o stdin = <<x>> \o rest
          <6>1. pc \in Visiting
            BY <2>1 DEF Visiting
          <6> QED
            BY <2>1, <4>1, <6>1, PipedLines, Zenon
        <5>2. ReadField
          BY <1>8, <4>1 DEF ReadSecret, InputInv
        <5> HIDE DEF rest, x
        <5>3. reader' \o stdin' = rest
          BY <2>1, <5>1, <5>2, ReadsPiped
        <5> QED
          BY <2>5, <5>3 DEF rest
      <4> QED
        BY <4>1
    <3> QED
      BY <2>1, <2>5, <3>1, <3>2, <3>3 DEF InputInv, Active
  <2> QED
    BY <2>3, <2>4, <2>5
<1>9. CASE Resolve \/ OpenFile \/ WriteFile
  <2>1. /\ UNCHANGED <<manifest, flags, wants, fixture, method, fields, stdin, reader>>
        /\ pc \in {"fields", "save", "write"} /\ pc' \in {"save", "write", "done", "failed"}
    BY <1>9 DEF Resolve, OpenFile, WriteFile
  <2> QED
    BY <1>1, <2>1 DEF Visiting, Ended
<1>10. CASE ReadError \/ Interrupt
  <2>1. pc' \in {"failed", "idle"}
    BY <1>10 DEF ReadError, Interrupt
  <2> QED
    BY <2>1 DEF InputInv, Visiting, Active, Ended
<1>11. CASE UserTypes
  <2>1. /\ UNCHANGED <<manifest, flags, wants, fixture, method, fields, out, reader, pc>>
        /\ flags.tty
        /\ \/ pc = "choice" /\ stdin' = <<wants.method>>
           \/ pc \in {"prompt", "secret"} /\ stdin' = <<wants.answers[Head(fields).key]>>
    BY <1>11 DEF UserTypes
  <2>2. OfTyped(pc, stdin, reader, wants.answers[Head(fields).key]) =>
          OfTyped(pc', stdin', reader', wants'.answers[Head(fields').key])
    <3>1. Len(<<wants.method>>) <= 1
      OBVIOUS
    <3> QED
      BY <2>1, <3>1
  <2> QED
    BY <1>t, <2>1, <2>2 DEF InputInv, Active
<1> QED
  BY <1>2, <1>3, <1>4, <1>5, <1>6, <1>7, <1>8, <1>9, <1>10, <1>11 DEF Next, Step

-----------------------------------------------------------------------------
(* The saved fixture *)

LEMMA SavedInit == Init => SavedInv
<1> SUFFICES ASSUME Init PROVE SavedInv
  OBVIOUS
<1>1. saved = [valid |-> FALSE, connection |-> << >>] /\ pc = "idle"
  BY DEF Init
<1> QED
  BY <1>1 DEF SavedInv

\* A fixture that is resolved lacks no field that it needs.
LEMMA ResolvedIs ==
  ASSUME TypeInv, FieldInv, DOMAIN fixture = Parts, pc = "write"
  PROVE  Resolved.connection = out /\ Resolvable(Resolved)
<1>1. Resolved.connection = out /\ Resolved.auth = fixture.auth
  BY DEF Resolved, Parts
<1>2. CASE SeveralMethods(Resolved)
  BY <1>1, <1>2 DEF Resolvable
<1>3. CASE ~SeveralMethods(Resolved)
  <2>1. ~SeveralMethods(fixture)
    BY <1>1, <1>3 DEF SeveralMethods
  <2>2. Found(fixture) /\ method = MethodOf(fixture)
    BY <2>1 DEF FieldInv
  <2>3. Found(Resolved) /\ MethodOf(Resolved) = method
    BY <1>1, <2>2 DEF Found, MethodOf
  <2> DEFINE fs == FieldsOf(method)
             known == fixture.connection
  <2>4. Visited(fs, Len(fs), known, out, Heard, wants.answers) /\ Extends(out, known)
    BY DEF FieldInv, Active, Ended
  <2> HIDE DEF fs, known
  <2>5. ASSUME NEW i \in 1..Len(fs), fs[i].required PROVE fs[i].key \in DOMAIN out
    <3>1. Settled(fs[i], known, out, Heard, wants.answers)
      BY <2>4 DEF Visited
    <3>2. CASE fs[i].key \in DOMAIN known
      BY <2>4, <3>2 DEF Extends
    <3>3. CASE fs[i].key \notin DOMAIN known
      BY <2>5, <3>1, <3>3, Zenon DEF Settled
    <3> QED
      BY <3>2, <3>3
  <2> QED
    BY <1>1, <2>3, <2>5 DEF Resolvable, fs
<1> QED
  BY <1>1, <1>2, <1>3

LEMMA SavedStep == TypeInv /\ LinesInv /\ FieldInv /\ SavedInv /\ KeptInv /\ [Next]_vars => SavedInv'
<1> SUFFICES ASSUME TypeInv, LinesInv, FieldInv, SavedInv, KeptInv, [Next]_vars PROVE SavedInv'
  OBVIOUS
<1> USE DEF Fail, given, input, terminal, run
<1>0. manifest \in Manifests
  BY DEF TypeInv
<1>r. ASSUME UNCHANGED manifest
      PROVE  /\ file' = file => (Resolvable(file.fixture)' <=> Resolvable(file.fixture))
             /\ SeveralMethods(fixture)' <=> SeveralMethods(fixture')
  <2>1. ASSUME file' = file PROVE Resolvable(file.fixture)' <=> Resolvable(file.fixture)
    <3>1. /\ SeveralMethods(file.fixture)' <=> SeveralMethods(file.fixture)
          /\ Found(file.fixture)' <=> Found(file.fixture)
          /\ MethodOf(file.fixture)' = MethodOf(file.fixture)
      BY <1>r, <2>1 DEF SeveralMethods, Found, MethodOf, Among
    <3>2. FieldsOf(MethodOf(file.fixture))' = FieldsOf(MethodOf(file.fixture))
      BY <1>r, <3>1 DEF FieldsOf
    <3> QED
      BY <2>1, <3>1, <3>2 DEF Resolvable
  <2>2. SeveralMethods(fixture)' <=> SeveralMethods(fixture')
    BY <1>r DEF SeveralMethods
  <2> QED
    BY <2>1, <2>2
\* A step that leaves the file alone, and of which no run fails that was to be reproduced.
<1>1. ASSUME UNCHANGED <<manifest, flags, fixture, file, saved>>,
             pc' = "write" => pc = "write",
             pc' = "failed" => pc = "failed" \/ flags.interactive \/ flags.save
                                 \/ SeveralMethods(fixture) \/ ~saved.valid
      PROVE  SavedInv'
  <2>1. Resolvable(file.fixture)' <=> Resolvable(file.fixture)
    BY <1>r, <1>1
  <2>2. SeveralMethods(fixture)' <=> SeveralMethods(fixture)
    BY <1>r, <1>1
  <2> QED
    BY <1>1, <2>1, <2>2 DEF SavedInv
<1>2. CASE UNCHANGED vars
  BY <1>1, <1>2 DEF vars
<1>3. CASE Start
  <2>1. /\ UNCHANGED <<manifest, file, saved>> /\ fixture' = Loaded(file)
        /\ pc' = IF file.state = "garbled" THEN "failed" ELSE "pick"
    BY <1>3 DEF Start
  <2>2. Resolvable(file.fixture)' <=> Resolvable(file.fixture)
    BY <1>r, <2>1
  <2>3. file.state = "present" => fixture' = file.fixture /\ pc' = "pick"
    BY <2>1 DEF Loaded
  <2>4. pc' # "write"
    BY <2>1
  <2> QED
    BY <2>1, <2>2, <2>3, <2>4 DEF SavedInv
<1>4. CASE PickMethod
  <2>1. UNCHANGED <<manifest, flags, fixture, file, saved>>
    BY <1>4 DEF PickMethod
  <2>2. Picked
    BY <1>0, <1>4, PickIs
  <2>3. pc' = "failed" => SeveralMethods(fixture) \/ ~Found(fixture)
    BY <2>2 DEF Picked
  <2>4. saved.valid /\ ~flags.save /\ ~SeveralMethods(fixture) => Found(fixture)
    BY DEF SavedInv, Resolvable
  <2>5. pc' # "write"
    BY <2>2 DEF Picked
  <2> QED
    BY <1>1, <2>1, <2>3, <2>4, <2>5
<1>5. CASE ReadChoice
  <2>1. UNCHANGED <<manifest, flags, fixture, file, saved>> /\ flags.interactive
    BY <1>5 DEF ReadChoice, LinesInv
  <2>2. pc' # "write"
    <3>1. SeveralMethods(fixture)
      BY <1>5 DEF ReadChoice, LinesInv
    <3> QED
      BY <1>0, <1>5, <3>1, ChoiceIs
  <2> QED
    BY <1>1, <2>1, <2>2
<1>6. CASE SkipField
  <2>1. /\ UNCHANGED <<manifest, flags, fixture, file, saved>> /\ pc = "fields"
        /\ fields # << >> /\ pc' \in {"fields", "failed"}
        /\ pc' = "failed" => ~flags.interactive /\ Head(fields).required
                               /\ Head(fields).key \notin DOMAIN out
    BY <1>6 DEF SkipField
  <2>2. ASSUME pc' = "failed", saved.valid, ~flags.save, ~SeveralMethods(fixture) PROVE FALSE
    <3>1. out = fixture.connection /\ method = MethodOf(fixture) /\ fixture = file.fixture
      BY <2>1, <2>2 DEF FieldInv, SavedInv, Active, Ended, Visiting
    <3> DEFINE fs == FieldsOf(method)
    <3>2. \A i \in 1..Len(fs) : fs[i].required => fs[i].key \in DOMAIN out
      BY <2>2, <3>1 DEF SavedInv, Resolvable
    <3>3. \E i \in 1..Len(fs) : fs[i] = Head(fields)
      <4>1. AtField(fs, fields, fixture.connection, out, Heard, wants.answers)
        BY <2>1 DEF FieldInv, Visiting
      <4>2. fields \in Seq(Field) /\ Len(fs) \in Nat
        BY <1>0, FieldsOfIs DEF TypeInv
      <4>3. Len(fields) \in Nat /\ Len(fields) >= 1 /\ Head(fields) = fields[1]
        BY <2>1, <4>2, EmptySeq
      <4> HIDE DEF fs
      <4> DEFINE n == Len(fs) - Len(fields)
      <4>4. n >= 0 /\ fields[1] = fs[n + 1]
        <5>1. n >= 0 /\ \A i \in 1..Len(fields) : fields[i] = fs[n + i]
          BY <4>1, Zenon DEF AtField
        <5> QED
          BY <4>3, <5>1
      <4>5. n + 1 \in 1..Len(fs)
        BY <4>2, <4>3, <4>4
      <4> QED
        BY <4>3, <4>4, <4>5
    <3> QED
      BY <2>1, <2>2, <3>2, <3>3
  <2> QED
    BY <1>1, <2>1, <2>2
<1>7. CASE Prompt \/ UserTypes \/ Interrupt \/ ReadError
  <2>1. /\ UNCHANGED <<manifest, flags, fixture, file, saved>>
        /\ pc' \in {"prompt", "secret", "idle", "failed", pc}
        /\ pc' = "failed" => pc \in {"prompt", "secret", "failed"}
    BY <1>7 DEF Prompt, UserTypes, Interrupt, ReadError
  <2>2. pc \in {"prompt", "secret"} => flags.interactive
    BY DEF LinesInv
  <2> QED
    BY <1>1, <2>1, <2>2
<1>8. CASE ReadField \/ ReadSecret
  <2>1. UNCHANGED <<manifest, flags, fixture, file, saved>> /\ flags.interactive
    BY <1>8 DEF ReadField, ReadSecret, LinesInv
  <2>2. \E line : Accept(Head(fields), line)
    BY <1>8 DEF ReadField, ReadSecret
  <2>3. pc' \in {"fields", "failed"}
    BY <2>2, AcceptIs
  <2> QED
    BY <1>1, <2>1, <2>3
<1>9. CASE Resolve
  <2>1. UNCHANGED <<manifest, flags, fixture, file, saved>> /\ pc' \in {"save", "done"}
    BY <1>9 DEF Resolve
  <2> QED
    BY <1>1, <2>1
<1>10. CASE OpenFile
  <2>1. UNCHANGED <<manifest, flags, fixture>> /\ flags.save
    BY <1>10 DEF OpenFile, LinesInv
  <2>2. CASE pc' = "failed" /\ UNCHANGED <<file, saved>>
    BY <1>1, <2>1, <2>2
  <2>3. CASE saved' = [saved EXCEPT !.valid = FALSE]
    <3>1. DOMAIN saved' = {"valid", "connection"} /\ saved'.valid = FALSE
      BY <2>3 DEF SavedInv
    <3> QED
      BY <3>1 DEF SavedInv
  <2> QED
    BY <1>10, <2>2, <2>3 DEF OpenFile
<1>11. CASE WriteFile
  <2>1. UNCHANGED <<manifest, flags, fixture>> /\ pc = "write" /\ flags.save
    BY <1>11 DEF WriteFile, LinesInv
  <2>2. CASE /\ file' = [state |-> "present", fixture |-> Resolved]
             /\ saved' = [valid |-> TRUE, connection |-> out]
             /\ pc' = "done"
    <3>1. Resolved.connection = out /\ Resolvable(Resolved)
      BY <2>1, ResolvedIs DEF KeptInv
    <3>2. /\ DOMAIN saved' = {"valid", "connection"} /\ saved'.connection = out
          /\ file'.state = "present" /\ file'.fixture = Resolved
      BY <2>2
    <3>3. Resolvable(file.fixture)' <=> Resolvable(Resolved)
      BY <2>1, <3>2 DEF Resolvable, SeveralMethods, Found, MethodOf, Among, FieldsOf
    <3> QED
      BY <2>1, <2>2, <3>1, <3>2, <3>3 DEF SavedInv
  <2>3. CASE pc' = "failed" /\ UNCHANGED saved
    BY <2>1, <2>3 DEF SavedInv
  <2> QED
    BY <1>11, <2>2, <2>3 DEF WriteFile
<1> QED
  BY <1>2, <1>3, <1>4, <1>5, <1>6, <1>7, <1>8, <1>9, <1>10, <1>11 DEF Next, Step

-----------------------------------------------------------------------------
(* What holds of every run *)

\* The invariant of a run, with what the author wrote.
LEMMA RunHolds == Spec => [](RunInv /\ KeptInv)
<1>1. Init => RunInv /\ KeptInv
  BY TypeInit, LinesInit, FieldInit, InputInit, SavedInit, KeptInit DEF RunInv
<1>2. RunInv /\ KeptInv /\ [Next]_vars => (RunInv /\ KeptInv)'
  BY TypeStep, LinesStep, FieldStep, InputStep, SavedStep, KeptStep DEF RunInv
<1> QED
  BY <1>1, <1>2, PTL DEF Spec, Safety

\* Types: the lines that are there, and a connection whose values are lines that a user may type,
\* the empty one among them, as they come from answers, from defaults and from the file.
THEOREM TypesHold == Spec => []TypeOK
<1>1. RunInv => TypeOK
  <2> SUFFICES ASSUME RunInv PROVE TypeOK
    OBVIOUS
  <2>1. TypeInv /\ LinesInv
    BY DEF RunInv
  <2>2. ASSUME NEW c \in {Loaded(file).connection, out}
        PROVE  DOMAIN c \subseteq Keys /\ Range(c) \subseteq Texts
    <3>1. Connection(c)
      BY <2>1, <2>2, LoadedIs DEF TypeInv
    <3> QED
      BY <3>1 DEF Connection, Range
  <2>3. Range(stdin \o reader) \subseteq Texts \cup Range(Numerals)
    <3> DEFINE s == stdin \o reader
    <3>1. s \in Seq(AllLines)
      BY <2>1, ConcatProperties DEF LinesInv
    <3> HIDE DEF s
    <3>2. DOMAIN s = 1..Len(s) /\ \A i \in 1..Len(s) : s[i] \in AllLines
      BY <3>1, LenProperties, ElementOfSeq
    <3>3. Range(s) \subseteq AllLines
      BY <3>2 DEF Range
    <3> QED
      BY <3>3 DEF s, AllLines
  <2>4. Range(fields) \subseteq Field
    <3>1. DOMAIN fields = 1..Len(fields) /\ \A i \in 1..Len(fields) : fields[i] \in Field
      BY <2>1, LenProperties, ElementOfSeq DEF TypeInv
    <3> QED
      BY <3>1 DEF Range
  <2> QED
    BY <2>1, <2>2, <2>3, <2>4 DEF TypeOK, TypeInv, Choosing, Visiting
<1> QED
  BY RunHolds, <1>1, PTL

\* What a run resolved is what its user meant to answer, field by field, for a user at a terminal,
\* and for one who pipes in the answers and is not asked for the method.
THEOREM AnswersArrive == Spec => []AnswersReachTheirFields
<1>1. RunInv => AnswersReachTheirFields
  <2> SUFFICES ASSUME RunInv PROVE AnswersReachTheirFields
    OBVIOUS
  <2>0. manifest \in Manifests /\ method \in 0..Len(manifest.methods)
    BY DEF RunInv, TypeInv
  <2>1. DOMAIN FieldsOf(method) = 1..Len(FieldsOf(method))
    BY <2>0, FieldsOfIs, LenProperties
  <2> SUFFICES ASSUME pc \in {"save", "write", "done"}, Heard,
                      NEW i \in 1..Len(FieldsOf(method))
               PROVE  LET d      == FieldsOf(method)[i]
                          answer == wants.answers[d.key]
                          has(v) == d.key \in DOMAIN out /\ out[d.key] = v
                      IN  IF d.key \in DOMAIN fixture.connection THEN has(fixture.connection[d.key])
                          ELSE IF answer # "blank" THEN has(answer)
                          ELSE IF d.default # "nil" THEN has(d.default)
                          ELSE d.key \notin DOMAIN out /\ ~d.required
    BY <2>1, Zenon DEF AnswersReachTheirFields, Heard
  <2> DEFINE d == FieldsOf(method)[i]
             known == fixture.connection
             a == wants.answers
  <2>2. Settled(d, known, out, Heard, a)
    <3>1. Visited(FieldsOf(method), Len(FieldsOf(method)), known, out, Heard, a)
      BY DEF RunInv, FieldInv
    <3> QED
      BY <3>1, Zenon DEF Visited
  <2>3. Extends(out, known)
    BY DEF RunInv, FieldInv, Active, Ended
  <2> HIDE DEF d, known, a
  <2>4. IF d.key \in DOMAIN known THEN d.key \in DOMAIN out /\ out[d.key] = known[d.key]
        ELSE IF a[d.key] # "blank" THEN d.key \in DOMAIN out /\ out[d.key] = a[d.key]
        ELSE IF d.default # "nil" THEN d.key \in DOMAIN out /\ out[d.key] = d.default
        ELSE d.key \notin DOMAIN out /\ ~d.required
    <3>1. CASE d.key \in DOMAIN known
      BY <2>3, <3>1 DEF Extends
    <3>2. CASE d.key \notin DOMAIN known
      BY <2>2, <3>2, Zenon DEF Settled
    <3> QED
      BY <3>1, <3>2
  <2> QED
    BY <2>4, Zenon DEF d, known, a
<1> QED
  BY RunHolds, <1>1, PTL

\* prompter.go:185: what the authentication method declares of a key counts.
THEOREM MethodsWin == Spec => []MethodDeclarationsWin
<1>1. RunInv => MethodDeclarationsWin
  <2> SUFFICES ASSUME RunInv, pc \in {"save", "write", "done"}, method # 0,
                      NEW d \in Range(manifest.methods[method].fields)
               PROVE  /\ d.required => d.key \in DOMAIN out
                      /\ d.key \in DOMAIN out \ DOMAIN fixture.connection =>
                           out[d.key] = d.default \/ Coerces(d, out[d.key])
    BY Zenon DEF MethodDeclarationsWin
  <2> DEFINE fs == FieldsOf(method)
             known == fixture.connection
  <2>0. manifest \in Manifests /\ method \in 0..Len(manifest.methods)
    BY DEF RunInv, TypeInv
  <2>1. PICK i \in 1..Len(fs) : fs[i] = d
    BY <2>0, FieldsOfIs
  <2>2. Visited(fs, Len(fs), known, out, Heard, wants.answers) /\ Extends(out, known)
    BY DEF RunInv, FieldInv, Active, Ended
  <2> HIDE DEF fs, known
  <2>3. Settled(d, known, out, Heard, wants.answers)
    BY <2>1, <2>2 DEF Visited
  <2>4. CASE d.key \in DOMAIN known
    BY <2>2, <2>4 DEF Extends, known
  <2>5. CASE d.key \notin DOMAIN known
    BY <2>3, <2>5, Zenon DEF Settled
  <2> QED
    BY <2>4, <2>5
<1> QED
  BY RunHolds, <1>1, PTL

\* fixture.go:161: the next run is reproducible, where nobody has to choose a method.
THEOREM PinnedRunsReproduce == Spec => []PinnedFixtureReproduces
<1>1. RunInv => PinnedFixtureReproduces
  <2> SUFFICES ASSUME RunInv, ~SeveralMethods(fixture), saved.valid, ~flags.interactive, ~flags.save
               PROVE  pc # "failed" /\ (pc = "done" => out = saved.connection)
    BY DEF PinnedFixtureReproduces, SavedFixtureReproduces
  <2>1. /\ pc # "failed" /\ fixture = file.fixture
        /\ file.fixture.connection = saved.connection
    BY DEF RunInv, SavedInv
  <2>2. pc = "done" => out = fixture.connection
    BY DEF RunInv, FieldInv
  <2> QED
    BY <2>1, <2>2
<1> QED
  BY RunHolds, <1>1, PTL
=============================================================================
