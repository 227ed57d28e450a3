--------------------------- MODULE Requests_proofs ---------------------------
(***************************************************************************)
(* Proofs about requests: what the server makes of those of its clients,   *)
(* and the pace of those it makes to the box.                              *)
(*                                                                         *)
(* RequestHeader and LocationText: whatever a client writes, the handlers  *)
(* see the path, the headers and the parameters it means, and the box the  *)
(* URL.  The message is put together of parts, and parse_http_message      *)
(* cuts it at the same places; every code is decoded to the byte it stands *)
(* for; and the loop that takes the dots out of a path leaves what stays   *)
(* of its segments.  Recursive functions come with lemmas that give their  *)
(* equations; what they compute is then shown by induction over places,    *)
(* with the set of the places in place of a formula about them.            *)
(*                                                                         *)
(* RequestPacing: the requests keep their distance for every length of the *)
(* second and of the sleep, and for a clock without bound.                 *)
(***************************************************************************)
EXTENDS RequestHeader, LocationText, RequestPacing,
        Integers, SequenceTheorems, FiniteSetTheorems, WellFoundedInduction, TLAPS

-----------------------------------------------------------------------------
(* Induction and recursion *)

Smaller == OpToRel(<, Nat)

\* Induction, with the set of the numbers in place of a formula about them.
LEMMA SetInduction ==
    ASSUME NEW S \in SUBSET Nat, 0 \in S, \A n \in S : n + 1 \in S
    PROVE  S = Nat
<1> SUFFICES ASSUME NEW T, T = Nat \ S, T # {} PROVE FALSE
  OBVIOUS
<1>1. IsWellFoundedOn(Smaller, Nat)
  BY NatLessThanWellFounded DEF Smaller
<1>2. PICK x \in T : \A y \in T : <<y, x>> \notin Smaller
  BY <1>1, WFMin
<1>3. \A y \in T : ~(y < x)
  BY <1>2 DEF Smaller, OpToRel
<1>4. x \in Nat /\ x # 0 /\ x - 1 \in Nat /\ x - 1 < x
  OBVIOUS
<1>5. x - 1 \in S
  BY <1>3, <1>4
<1>6. (x - 1) + 1 = x
  BY <1>4
<1> QED  BY <1>4, <1>5, <1>6

\* The same up to a number.
LEMMA UpTo ==
    ASSUME NEW n \in Nat, NEW S, 0 \in S, \A i \in 0..n : i \in S /\ i < n => i + 1 \in S
    PROVE  0..n \subseteq S
<1> DEFINE T == {i \in Nat : i > n \/ i \in S}
<1>1. T \in SUBSET Nat /\ 0 \in T /\ \A i \in T : i + 1 \in T
  OBVIOUS
<1> HIDE DEF T
<1>2. T = Nat
  BY <1>1, SetInduction
<1> QED  BY <1>2 DEF T

\* And down from one.
LEMMA DownFrom ==
    ASSUME NEW n \in Nat, NEW S, n \in S, \A i \in 1..n : i \in S => i - 1 \in S
    PROVE  0..n \subseteq S
<1> DEFINE T == {i \in 0..n : n - i \in S}
<1>1. 0 \in T /\ \A i \in 0..n : i \in T /\ i < n => i + 1 \in T
  <2>1. 0 \in T
    OBVIOUS
  <2>2. ASSUME NEW i \in 0..n, i \in T, i < n PROVE i + 1 \in T
    <3>1. n - i \in 1..n /\ n - i \in S /\ (n - i) - 1 = n - (i + 1)
      BY <2>2
    <3> QED  BY <3>1, <2>2
  <2> QED  BY <2>1, <2>2
<1> HIDE DEF T
<1>2. 0..n \subseteq T
  BY <1>1, UpTo
<1>3. \A i \in 0..n : n - i \in 0..n /\ n - (n - i) = i
  OBVIOUS
<1> QED  BY <1>2, <1>3 DEF T

\* A function defined by recursion from its value at 0 exists.
Steps(n, T) == [1..n -> [T -> T]]

\* f[i] is what the first i steps make of a.
Computes(f, n, T, a, Step) ==
    f \in [0..n -> T] /\ f[0] = a /\ \A i \in 1..n : f[i] = Step[i][f[i - 1]]

\* There is a function that takes such steps.
LEMMA Recursion ==
    ASSUME NEW n \in Nat, NEW T, NEW a \in T, NEW Step \in Steps(n, T)
    PROVE  \E f : Computes(f, n, T, a, Step)
<1> DEFINE Good(f, k) == f[0] = a /\ \A i \in 1..k : f[i] = Step[i][f[i - 1]]
           S == {k \in 0..n : \E f \in [0..n -> T] : Good(f, k)}
<1>1. 0 \in S
  <2> DEFINE f == [i \in 0..n |-> a]
  <2>1. f \in [0..n -> T] /\ Good(f, 0) /\ 0 \in 0..n
    OBVIOUS
  <2> HIDE DEF f, Good
  <2> QED  BY <2>1
<1>2. ASSUME NEW k \in 0..n, k \in S, k < n PROVE k + 1 \in S
  <2>1. PICK f \in [0..n -> T] : Good(f, k)
    BY <1>2
  <2> DEFINE v == Step[k + 1][f[k]]
             g == [f EXCEPT ![k + 1] = v]
  <2>2. v \in T /\ k + 1 \in 1..n
    BY <1>2 DEF Steps
  <2> HIDE DEF v
  <2>3. g \in [0..n -> T] /\ g[k + 1] = v /\ \A i \in 0..k : g[i] = f[i]
    BY <2>2
  <2> HIDE DEF g
  <2>4. g[0] = a
    BY <2>1, <2>3
  <2>5. ASSUME NEW i \in 1..(k + 1) PROVE g[i] = Step[i][g[i - 1]]
    <3>1. CASE i = k + 1
      <4>1. i - 1 = k /\ g[k] = f[k]
        BY <3>1, <2>3
      <4> QED  BY <3>1, <4>1, <2>3 DEF v
    <3>2. CASE i # k + 1
      <4>1. i \in 1..k /\ i - 1 \in 0..k /\ i \in 0..k
        BY <3>2
      <4> QED  BY <4>1, <2>1, <2>3
    <3> QED  BY <3>1, <3>2
  <2>6. Good(g, k + 1)
    BY <2>4, <2>5
  <2> QED  BY <2>2, <2>3, <2>6
<1> HIDE DEF S
<1>3. 0..n \subseteq S
  BY <1>1, <1>2, UpTo
<1>4. n \in S
  BY <1>3
<1> QED  BY <1>4 DEF S, Computes

-----------------------------------------------------------------------------
(* Sequences of sequences, one after the other *)

\* What is written.
Strings(S) == Seq(S)

\* What joining strings gives.
LEMMA Joins ==
    ASSUME NEW S
    PROVE  /\ <<>> \in Strings(S)
           /\ \A s \in Strings(S), t \in Strings(S) : s \o t \in Strings(S)
           /\ \A s \in Strings(S) : <<>> \o s = s /\ s \o <<>> = s
           /\ \A s, t, u \in Strings(S) : (s \o t) \o u = s \o (t \o u)
           /\ \A s, t \in Strings(S) : Len(s) \in Nat /\ Len(s \o t) = Len(s) + Len(t)
<1>1. \A s, t, u \in Strings(S) : (s \o t) \o u = s \o (t \o u)
  BY ConcatAssociative DEF Strings
<1> QED  BY <1>1 DEF Strings

\* Where the parentheses stand does not matter.
LEMMA JoinsTwice ==
    ASSUME NEW S, NEW s \in Strings(S), NEW t \in Strings(S), NEW u \in Strings(S)
    PROVE  (s \o t) \o u = s \o (t \o u)
  BY ConcatAssociative DEF Strings

\* Only the empty sequence has no length.
LEMMA NoLength ==
    ASSUME NEW S, NEW s \in Seq(S), Len(s) = 0
    PROVE  s = <<>>
  OBVIOUS

\* What FlattenSeq computes, step by step.
LEMMA FlattenSteps ==
    ASSUME NEW S, NEW seqs \in Seq(Strings(S))
    PROVE  \E g \in [0..Len(seqs) -> Strings(S)] :
              /\ g[0] = <<>> /\ \A i \in 1..Len(seqs) : g[i] = g[i - 1] \o seqs[i]
              /\ FlattenSeq(seqs) = g[Len(seqs)]
<1>1. PICK n \in Nat : n = Len(seqs) /\ n \in 0..n /\ \A i \in 1..n : seqs[i] \in Strings(S)
  OBVIOUS
<1> DEFINE Step == [i \in 1..n |-> [s \in Strings(S) |-> s \o seqs[i]]]
           Def(f) == f = [i \in 1..n |-> IF i = 1 THEN seqs[i] ELSE f[i - 1] \o seqs[i]]
<1>2. Step \in Steps(n, Strings(S))
  <2>1. ASSUME NEW i \in 1..n PROVE [s \in Strings(S) |-> s \o seqs[i]] \in [Strings(S) -> Strings(S)]
    BY <1>1, Joins
  <2> QED  BY <2>1 DEF Steps
<1>3. <<>> \in Strings(S)
  BY Joins
<1>4. PICK g : Computes(g, n, Strings(S), <<>>, Step)
  <2> HIDE DEF Step
  <2> QED  BY <1>1, <1>2, <1>3, Recursion
<1>5. ASSUME NEW i \in 1..n
      PROVE  g[i - 1] \in Strings(S) /\ g[i] = g[i - 1] \o seqs[i]
  <2>1. i - 1 \in 0..n /\ g[i - 1] \in Strings(S)
    BY <1>1, <1>4 DEF Computes
  <2> QED  BY <2>1, <1>4 DEF Computes
<1> HIDE DEF Step
<1>6. CASE n = 0
  <2>1. Len(seqs) = 0 /\ seqs = <<>>
    BY <1>1, <1>6, NoLength
  <2>2. FlattenSeq(seqs) = <<>>
    BY <2>1 DEF FlattenSeq
  <2> QED  BY <1>4, <1>5, <1>6, <2>2, <1>1 DEF Computes
<1>7. CASE n # 0
  <2> DEFINE h == CHOOSE f : Def(f)
  <2>1. FlattenSeq(seqs) = h[n]
    BY <1>1, <1>7 DEF FlattenSeq
  <2> DEFINE f0 == [i \in 1..n |-> g[i]]
  <2>2. Def(f0)
    <3>1. ASSUME NEW i \in 1..n PROVE f0[i] = IF i = 1 THEN seqs[i] ELSE f0[i - 1] \o seqs[i]
      <4>1. CASE i = 1
        <5>1. g[1] = g[0] \o seqs[1] /\ seqs[1] \in Strings(S) /\ g[0] = <<>>
          <6>1. g[i] = g[i - 1] \o seqs[i] /\ i - 1 = 0
            <7>1. g[i] = g[i - 1] \o seqs[i]
              BY <1>5
            <7> QED  BY <4>1, <7>1
          <6> QED  BY <6>1, <1>1, <1>4, <4>1 DEF Computes
        <5> QED  BY <4>1, <5>1, Joins
      <4>2. CASE i # 1
        <5>1. i - 1 \in 1..n
          BY <4>2, <1>1
        <5> QED  BY <4>2, <5>1, <1>5
      <4> QED  BY <4>1, <4>2
    <3> QED  BY <3>1
  <2> HIDE DEF f0
  <2>3. Def(h)
    <3> HIDE DEF Def
    <3> QED  BY <2>2
  <2> HIDE DEF h
  <2>4. \A i \in 1..n : h[i] = IF i = 1 THEN seqs[i] ELSE h[i - 1] \o seqs[i]
    BY <2>3
  <2> DEFINE E == {0} \cup {i \in 1..n : h[i] = g[i]}
  <2>5. 0 \in E /\ \A i \in 0..n : i \in E /\ i < n => i + 1 \in E
    <3> SUFFICES ASSUME NEW i \in 0..n, i \in E, i < n PROVE h[i + 1] = g[i + 1]
      BY <1>1
    <3>1. i + 1 \in 1..n /\ (i + 1) - 1 = i
      BY <1>1
    <3>2. g[i + 1] = g[i] \o seqs[i + 1]
      BY <3>1, <1>5
    <3>3. CASE i = 0
      <4>1. h[1] = seqs[1] /\ g[1] = <<>> \o seqs[1] /\ seqs[1] \in Strings(S)
        BY <3>1, <3>2, <3>3, <2>4, <1>4, <1>1 DEF Computes
      <4> QED  BY <4>1, <3>3, Joins
    <3>4. CASE i # 0
      <4>1. h[i] = g[i] /\ i + 1 # 1
        BY <3>4, <1>1
      <4> QED  BY <4>1, <3>1, <3>2, <2>4
    <3> QED  BY <3>3, <3>4
  <2> HIDE DEF E
  <2>6. n \in E
    BY <2>5, <1>1, UpTo
  <2>7. h[n] = g[n]
    BY <2>6, <1>7 DEF E
  <2> QED  BY <1>4, <1>5, <2>1, <2>7, <1>1 DEF Computes
<1> QED  BY <1>6, <1>7

\* The first n of the sequences.
First(seqs, n) == FlattenSeq(SubSeq(seqs, 1, n))

\* One more of the sequences is appended.
LEMMA FirstSteps ==
    ASSUME NEW S, NEW seqs \in Seq(Strings(S))
    PROVE  /\ First(seqs, 0) = <<>>
           /\ First(seqs, Len(seqs)) = FlattenSeq(seqs)
           /\ \A i \in 0..Len(seqs) : First(seqs, i) \in Strings(S)
           /\ \A i \in 1..Len(seqs) : First(seqs, i) = First(seqs, i - 1) \o seqs[i]
<1>1. PICK n \in Nat : n = Len(seqs) /\ n \in 0..n /\ \A i \in 1..n : seqs[i] \in Strings(S)
  OBVIOUS
<1>2. PICK g \in [0..n -> Strings(S)] :
         /\ g[0] = <<>> /\ \A i \in 1..n : g[i] = g[i - 1] \o seqs[i]
         /\ FlattenSeq(seqs) = g[n]
  BY <1>1, FlattenSteps
<1>3. ASSUME NEW k \in 0..n PROVE First(seqs, k) = g[k]
  <2> DEFINE t == SubSeq(seqs, 1, k)
  <2>1. t \in Seq(Strings(S)) /\ Len(t) = k /\ \A i \in 1..k : t[i] = seqs[i] /\ i \in 1..n
    BY <1>1
  <2> HIDE DEF t
  <2>2. PICK f \in [0..k -> Strings(S)] :
           /\ f[0] = <<>> /\ \A i \in 1..k : f[i] = f[i - 1] \o t[i]
           /\ FlattenSeq(t) = f[k]
    BY <2>1, FlattenSteps
  <2> DEFINE E == {i \in 0..k : f[i] = g[i]}
  <2>3. 0 \in E /\ \A i \in 0..k : i \in E /\ i < k => i + 1 \in E
    <3>1. 0 \in E
      BY <1>2, <2>2
    <3>2. ASSUME NEW i \in 0..k, i \in E, i < k PROVE i + 1 \in E
      <4>1. i + 1 \in 1..k /\ (i + 1) - 1 = i /\ i + 1 \in 1..n
        BY <3>2, <1>1
      <4>2. f[i + 1] = f[i] \o seqs[i + 1] /\ g[i + 1] = g[i] \o seqs[i + 1]
        BY <4>1, <2>1, <2>2, <1>2
      <4>3. f[i] = g[i] /\ i + 1 \in 0..k
        BY <3>2, <4>1
      <4> QED  BY <4>2, <4>3
    <3> QED  BY <3>1, <3>2
  <2> HIDE DEF E
  <2>4. k \in E
    <3>1. k \in Nat /\ k \in 0..k
      BY <1>1
    <3> QED  BY <2>3, <3>1, UpTo
  <2> QED  BY <2>2, <2>4 DEF E, First, t
<1>4. 0 \in 0..n /\ n \in 0..n /\ \A i \in 1..n : i \in 0..n /\ i - 1 \in 0..n
  BY <1>1
<1> QED  BY <1>1, <1>2, <1>3, <1>4

\* A list of sequences with one more in front.
LEMMA FlattenCons ==
    ASSUME NEW S, NEW u \in Seq(Strings(S)), NEW v \in Seq(Strings(S)),
           Len(u) = Len(v) + 1, \A k \in 1..Len(v) : u[k + 1] = v[k]
    PROVE  FlattenSeq(u) = u[1] \o FlattenSeq(v)
<1>1. PICK m \in Nat : m = Len(v) /\ m \in 0..m
  OBVIOUS
<1>2. u[1] \in Strings(S) /\ \A k \in 1..m : v[k] \in Strings(S)
  BY <1>1
<1>3. /\ First(u, 0) = <<>> /\ First(u, m + 1) = FlattenSeq(u)
      /\ \A k \in 1..(m + 1) : First(u, k) = First(u, k - 1) \o u[k]
  BY <1>1, FirstSteps
<1>4. /\ First(v, 0) = <<>> /\ First(v, m) = FlattenSeq(v)
      /\ \A k \in 0..m : First(v, k) \in Strings(S)
      /\ \A k \in 1..m : First(v, k) = First(v, k - 1) \o v[k]
  BY <1>1, FirstSteps
<1> DEFINE E == {k \in 0..m : First(u, k + 1) = u[1] \o First(v, k)}
<1>5. 0 \in E
  <2>1. 1 \in 1..(m + 1) /\ 1 - 1 = 0 /\ 0 + 1 = 1
    BY <1>1
  <2>2. First(u, 1) = <<>> \o u[1]
    BY <2>1, <1>3
  <2>3. <<>> \o u[1] = u[1] /\ u[1] \o <<>> = u[1]
    BY <1>2, Joins
  <2>4. First(u, 0 + 1) = u[1] \o First(v, 0)
    BY <2>1, <2>2, <2>3, <1>4
  <2> QED  BY <2>4, <1>1
<1>6. ASSUME NEW k \in 0..m, k \in E, k < m PROVE k + 1 \in E
  <2>1. /\ k + 1 \in 1..m /\ (k + 1) - 1 = k /\ (k + 1) + 1 \in 1..(m + 1)
        /\ ((k + 1) + 1) - 1 = k + 1 /\ k + 1 \in 0..m
    BY <1>6
  <2>2. PICK j \in 1..m : j = k + 1
    BY <2>1
  <2>3. u[j + 1] = v[j] /\ v[j] \in Strings(S)
    BY <1>1, <1>2
  <2>4. First(u, j + 1) = First(u, j) \o v[j]
    BY <2>1, <2>2, <2>3, <1>3
  <2>5. First(v, j) = First(v, k) \o v[j] /\ First(v, k) \in Strings(S)
    BY <2>1, <2>2, <1>4
  <2>6. First(u, j) = u[1] \o First(v, k)
    BY <1>6, <2>2
  <2>7. (u[1] \o First(v, k)) \o v[j] = u[1] \o (First(v, k) \o v[j])
    <3>1. u[1] \in Strings(S) /\ First(v, k) \in Strings(S) /\ v[j] \in Strings(S)
      BY <2>3, <2>5, <1>2
    <3>2. \A s, t, w \in Strings(S) : (s \o t) \o w = s \o (t \o w)
      BY Joins
    <3> QED  BY ONLY <3>1, <3>2
  <2>8. First(u, j + 1) = u[1] \o First(v, j)
    BY <2>4, <2>5, <2>6, <2>7
  <2> QED  BY <2>1, <2>2, <2>8
<1> HIDE DEF E
<1>7. m \in E
  BY <1>1, <1>5, <1>6, UpTo
<1> QED  BY <1>7, <1>3, <1>4 DEF E

\* The elements of a sequence from one on.
LEMMA FromOn ==
    ASSUME NEW T, NEW s \in Seq(T), NEW i \in 0..Len(s)
    PROVE  /\ SubSeq(s, i + 1, Len(s)) \in Seq(T)
           /\ Len(SubSeq(s, i + 1, Len(s))) = Len(s) - i
           /\ \A k \in 1..(Len(s) - i) : SubSeq(s, i + 1, Len(s))[k] = s[i + k] /\ i + k \in DOMAIN s
  OBVIOUS

\* And what follows them.
Rest(seqs, n) == FlattenSeq(SubSeq(seqs, n + 1, Len(seqs)))

\* One less of the sequences is left.
LEMMA RestSteps ==
    ASSUME NEW S, NEW seqs \in Seq(Strings(S))
    PROVE  /\ Rest(seqs, 0) = FlattenSeq(seqs)
           /\ Rest(seqs, Len(seqs)) = <<>>
           /\ \A i \in 0..Len(seqs) : Rest(seqs, i) \in Strings(S)
           /\ \A i \in 1..Len(seqs) : Rest(seqs, i - 1) = seqs[i] \o Rest(seqs, i)
<1>1. PICK n \in Nat : n = Len(seqs) /\ n \in 0..n
  OBVIOUS
<1> DEFINE t(i) == SubSeq(seqs, i + 1, Len(seqs))
<1>2. ASSUME NEW i \in 0..n
      PROVE  /\ t(i) \in Seq(Strings(S)) /\ Len(t(i)) = n - i
             /\ \A k \in 1..(n - i) : t(i)[k] = seqs[i + k]
  BY <1>1, FromOn
<1>3. \A i : Rest(seqs, i) = FlattenSeq(t(i))
  BY DEF Rest
<1>4. t(0) = seqs
  OBVIOUS
<1> HIDE DEF t
<1>5. ASSUME NEW i \in 0..n PROVE Rest(seqs, i) \in Strings(S)
  <2>1. Len(t(i)) \in 0..Len(t(i))
    BY <1>1, <1>2
  <2>2. First(t(i), Len(t(i))) = FlattenSeq(t(i)) /\ First(t(i), Len(t(i))) \in Strings(S)
    BY <1>2, <2>1, FirstSteps
  <2> QED  BY <1>3, <2>2
<1>6. Rest(seqs, n) = <<>>
  <2>1. t(n) \in Seq(Strings(S)) /\ Len(t(n)) = 0
    BY <1>1, <1>2
  <2>2. First(t(n), Len(t(n))) = FlattenSeq(t(n)) /\ First(t(n), 0) = <<>>
    BY <2>1, FirstSteps
  <2> QED  BY <1>3, <2>1, <2>2
<1>7. ASSUME NEW i \in 1..n PROVE Rest(seqs, i - 1) = seqs[i] \o Rest(seqs, i)
  <2>1. /\ i - 1 \in 0..n /\ i \in 0..n /\ n - (i - 1) = (n - i) + 1 /\ n - i \in Nat
        /\ (i - 1) + 1 = i /\ 1 \in 1..((n - i) + 1)
        /\ \A k \in 1..(n - i) : k + 1 \in 1..((n - i) + 1) /\ (i - 1) + (k + 1) = i + k
    BY <1>1
  <2>2. t(i - 1) \in Seq(Strings(S)) /\ Len(t(i - 1)) = Len(t(i)) + 1 /\ t(i) \in Seq(Strings(S))
    BY <2>1, <1>2
  <2>3. t(i - 1)[1] = seqs[i]
    <3>1. PICK j \in 0..n : j = i - 1 /\ 1 \in 1..(n - j) /\ j + 1 = i
      BY <2>1
    <3>2. t(j)[1] = seqs[j + 1]
      BY <3>1, <1>2
    <3> QED  BY <3>1, <3>2
  <2>4. ASSUME NEW k \in 1..Len(t(i)) PROVE t(i - 1)[k + 1] = t(i)[k]
    <3>1. k \in 1..(n - i)
      BY <2>1, <1>2
    <3> QED  BY <3>1, <2>1, <1>2
  <2>5. FlattenSeq(t(i - 1)) = seqs[i] \o FlattenSeq(t(i))
    BY <2>2, <2>3, <2>4, FlattenCons
  <2> QED  BY <2>5, <1>3
<1> QED  BY <1>1, <1>3, <1>4, <1>5, <1>6, <1>7

-----------------------------------------------------------------------------
(* Least and greatest, and parts of strings *)

\* The minimum is what is in the set and below all of it.
LEMMA MinIs ==
    ASSUME NEW S \in SUBSET Int, NEW x \in S, \A y \in S : x <= y
    PROVE  Min(S) = x
<1>1. \A y \in S : (\A z \in S : y <= z) => y = x
  OBVIOUS
<1> QED  BY <1>1 DEF Min

\* And the maximum what is above all of it.
LEMMA MaxIs ==
    ASSUME NEW S \in SUBSET Int, NEW x \in S, \A y \in S : y <= x
    PROVE  Max(S) = x
<1>1. \A y \in S : (\A z \in S : z <= y) => y = x
  OBVIOUS
<1> QED  BY <1>1 DEF Max

\* Two strings are one when they agree everywhere.
LEMMA SameString ==
    ASSUME NEW S, NEW s \in Strings(S), NEW t \in Strings(S),
           Len(s) = Len(t), \A i \in 1..Len(s) : s[i] = t[i]
    PROVE  s = t
  BY DEF Strings

\* The places of a string put together of two.
LEMMA JoinPlaces ==
    ASSUME NEW S, NEW s \in Strings(S), NEW t \in Strings(S)
    PROVE  /\ s \o t \in Strings(S) /\ Len(s \o t) = Len(s) + Len(t)
           /\ Len(s) \in Nat /\ Len(t) \in Nat
           /\ DOMAIN (s \o t) = 1..(Len(s) + Len(t))
           /\ \A i \in 1..Len(s) : (s \o t)[i] = s[i]
           /\ \A i \in 1..Len(t) : (s \o t)[Len(s) + i] = t[i]
           /\ \A i \in 1..(Len(s) + Len(t)) :
                (s \o t)[i] = IF i <= Len(s) THEN s[i] ELSE t[i - Len(s)]
  BY DEF Strings

\* The places of a part of a string.
LEMMA Cut ==
    ASSUME NEW S, NEW s \in Strings(S), NEW a \in Nat, NEW b \in Nat, a <= b, b <= Len(s)
    PROVE  /\ SubSeq(s, a + 1, b) \in Strings(S) /\ Len(SubSeq(s, a + 1, b)) = b - a
           /\ \A i \in 1..(b - a) : SubSeq(s, a + 1, b)[i] = s[a + i]
  BY DEF Strings

\* Opaque, so that the provers put it to use only where it is named.
Excerpt(S, s, a, b) ==
    /\ SubSeq(s, a + 1, b) \in Strings(S) /\ Len(SubSeq(s, a + 1, b)) = b - a
    /\ \A i \in 1..(b - a) : SubSeq(s, a + 1, b)[i] = s[a + i]

\* The definition for all strings.
LEMMA Excerpts ==
    ASSUME NEW S, NEW s \in Strings(S), NEW a \in Nat, NEW b \in Nat, a <= b, b <= Len(s)
    PROVE  Excerpt(S, s, a, b)
  BY Cut DEF Excerpt

\* The parts of a string put together of two.
LEMMA JoinParts ==
    ASSUME NEW S, NEW s \in Strings(S), NEW t \in Strings(S)
    PROVE  /\ SubSeq(s \o t, 1, Len(s)) = s
           /\ SubSeq(s \o t, Len(s) + 1, Len(s \o t)) = t
<1> DEFINE u == s \o t
<1>1. /\ u \in Strings(S) /\ Len(u) = Len(s) + Len(t) /\ Len(s) \in Nat /\ Len(t) \in Nat
      /\ \A i \in 1..Len(s) : u[i] = s[i]
      /\ \A i \in 1..Len(t) : u[Len(s) + i] = t[i]
  BY JoinPlaces
<1> HIDE DEF u
<1>2. SubSeq(u, 1, Len(s)) = s
  <2>1. /\ SubSeq(u, 0 + 1, Len(s)) \in Strings(S) /\ Len(SubSeq(u, 0 + 1, Len(s))) = Len(s) - 0
        /\ \A i \in 1..(Len(s) - 0) : SubSeq(u, 0 + 1, Len(s))[i] = u[0 + i]
    BY <1>1, Cut
  <2> DEFINE v == SubSeq(u, 1, Len(s))
  <2>2. v \in Strings(S) /\ Len(v) = Len(s) /\ \A i \in 1..Len(s) : v[i] = s[i]
    BY <1>1, <2>1
  <2> HIDE DEF v
  <2>3. v = s
    BY <2>2, SameString
  <2> QED  BY <2>3 DEF v
<1>3. SubSeq(u, Len(s) + 1, Len(u)) = t
  <2> DEFINE v == SubSeq(u, Len(s) + 1, Len(u))
  <2>1. v \in Strings(S) /\ Len(v) = Len(u) - Len(s) /\ \A i \in 1..(Len(u) - Len(s)) : v[i] = u[Len(s) + i]
    BY <1>1, Cut
  <2> HIDE DEF v
  <2>2. Len(v) = Len(t) /\ \A i \in 1..Len(t) : v[i] = t[i]
    BY <1>1, <2>1
  <2>3. v = t
    BY <2>1, <2>2, SameString
  <2> QED  BY <2>3 DEF v
<1> QED  BY <1>2, <1>3 DEF u

Only(s, units) == \A i \in DOMAIN s : s[i] \in units

\* skip finds a word without delimiters, and what stands behind the delimiters.
LEMMA SkipWord ==
    ASSUME NEW S, NEW w \in Strings(S), NEW d \in Strings(S), NEW r \in Strings(S), NEW D,
           Free(w, D), Only(d, D), d # <<>>, r # <<>> => r[1] \notin D
    PROVE  Skip(w \o (d \o r), D) = [word |-> w, rest |-> r]
<1> DEFINE u == d \o r
           buf == w \o u
<1>1. /\ u \in Strings(S) /\ Len(u) = Len(d) + Len(r) /\ Len(d) \in Nat /\ Len(r) \in Nat
      /\ \A i \in 1..Len(d) : u[i] = d[i]
      /\ \A i \in 1..Len(r) : u[Len(d) + i] = r[i]
      /\ SubSeq(u, Len(d) + 1, Len(u)) = r
  <2>1. SubSeq(d \o r, Len(d) + 1, Len(d \o r)) = r
    BY JoinParts
  <2>2. /\ d \o r \in Strings(S) /\ Len(d \o r) = Len(d) + Len(r)
        /\ Len(d) \in Nat /\ Len(r) \in Nat
        /\ \A i \in 1..Len(d) : (d \o r)[i] = d[i]
        /\ \A i \in 1..Len(r) : (d \o r)[Len(d) + i] = r[i]
    BY JoinPlaces
  <2> QED  BY <2>1, <2>2
<1> HIDE DEF u
<1>2. /\ buf \in Strings(S) /\ Len(buf) = Len(w) + Len(u) /\ Len(w) \in Nat
      /\ DOMAIN buf = 1..Len(buf)
      /\ \A i \in 1..Len(w) : buf[i] = w[i]
      /\ \A i \in 1..Len(u) : buf[Len(w) + i] = u[i]
      /\ SubSeq(buf, 1, Len(w)) = w
  <2>1. SubSeq(w \o u, 1, Len(w)) = w
    BY <1>1, JoinParts
  <2>2. u \in Strings(S)
    BY <1>1
  <2>3. /\ w \o u \in Strings(S) /\ Len(w \o u) = Len(w) + Len(u)
        /\ Len(w) \in Nat
        /\ DOMAIN (w \o u) = 1..(Len(w) + Len(u))
        /\ \A i \in 1..Len(w) : (w \o u)[i] = w[i]
        /\ \A i \in 1..Len(u) : (w \o u)[Len(w) + i] = u[i]
    BY <2>2, JoinPlaces
  <2> QED  BY <2>1, <2>3
<1> HIDE DEF buf
<1>3. /\ \A i \in 1..Len(w) : w[i] \notin D
      /\ Len(d) > 0 /\ \A i \in 1..Len(d) : d[i] \in D
      /\ Len(r) > 0 => r[1] \notin D
  BY DEF Strings, Free, Only
<1> DEFINE end == Len(w) + 1
           next == Len(w) + Len(d) + 1
<1>4. Min({Len(buf) + 1} \cup {i \in DOMAIN buf : buf[i] \in D}) = end
  <2> DEFINE M == {Len(buf) + 1} \cup {i \in DOMAIN buf : buf[i] \in D}
  <2>1. M \in SUBSET Int
    BY <1>1, <1>2
  <2>2. end \in M
    <3>1. end \in 1..Len(buf) /\ buf[Len(w) + 1] = u[1] /\ u[1] = d[1]
      BY <1>1, <1>2, <1>3
    <3> QED  BY <3>1, <1>2, <1>3
  <2>3. ASSUME NEW y \in M PROVE end <= y
    <3>1. CASE y = Len(buf) + 1
      BY ONLY <3>1, <1>1, <1>2 DEF end
    <3>2. ASSUME y \in 1..Len(buf), buf[y] \in D PROVE ~(y <= Len(w))
      BY ONLY <3>2, <1>2, <1>3
    <3>3. CASE y \in DOMAIN buf /\ buf[y] \in D
      <4>1. y \in 1..Len(buf)
        BY ONLY <3>3, <1>2
      <4> QED  BY ONLY <4>1, <3>2, <3>3, <1>2 DEF end
    <3> QED  BY ONLY <3>1, <3>3, y \in M DEF M
  <2> HIDE DEF M, end
  <2>4. Min(M) = end
    BY <2>1, <2>2, <2>3, MinIs
  <2> QED  BY <2>4 DEF M
<1>5. Min({Len(buf) + 1} \cup {i \in end..Len(buf) : buf[i] \notin D}) = next
  <2> DEFINE M == {Len(buf) + 1} \cup {i \in end..Len(buf) : buf[i] \notin D}
  <2>1. M \in SUBSET Int /\ next \in Int
    BY <1>1, <1>2
  <2>2. next \in M
    <3>1. CASE Len(r) = 0
      BY <3>1, <1>1, <1>2
    <3>2. CASE Len(r) > 0
      <4>1. next \in end..Len(buf)
        BY <1>1, <1>2, <3>2
      <4>2. Len(d) + 1 \in 1..Len(u) /\ u[Len(d) + 1] = r[1]
        BY <1>1, <3>2
      <4>3. buf[next] = r[1]
        BY <1>1, <1>2, <4>2
      <4> QED  BY <4>1, <4>3, <3>2, <1>3
    <3> QED  BY <3>1, <3>2, <1>1
  <2>3. ASSUME NEW y \in M PROVE next <= y
    <3> SUFFICES ASSUME y \in end..Len(buf), buf[y] \notin D, y < next PROVE FALSE
      BY <1>1, <1>2
    <3>1. PICK j \in 1..Len(d) : y = Len(w) + j
      <4>1. y - Len(w) \in 1..Len(d) /\ y = Len(w) + (y - Len(w))
        BY <1>1, <1>2
      <4> QED  BY <4>1
    <3>2. buf[y] = u[j] /\ u[j] = d[j]
      BY <3>1, <1>1, <1>2
    <3> QED  BY <3>1, <3>2, <1>3
  <2> HIDE DEF M, next
  <2>4. Min(M) = next
    BY <2>1, <2>2, <2>3, MinIs
  <2> QED  BY <2>4 DEF M
<1>6. SubSeq(buf, next, Len(buf)) = r
  <2> DEFINE v == SubSeq(buf, next, Len(buf))
  <2>1. PICK a \in Nat, b \in Nat : a = Len(w) + Len(d) /\ b = Len(buf) /\ a <= b /\ b - a = Len(r)
    BY <1>1, <1>2
  <2>2. /\ SubSeq(buf, a + 1, b) \in Strings(S) /\ Len(SubSeq(buf, a + 1, b)) = b - a
        /\ \A i \in 1..(b - a) : SubSeq(buf, a + 1, b)[i] = buf[a + i]
    <3>1. buf \in Strings(S) /\ a <= b /\ b <= Len(buf)
      BY <1>2, <2>1
    <3> HIDE DEF v
    <3> QED  BY ONLY <3>1, Cut, a \in Nat, b \in Nat
  <2>3. \A i \in 1..Len(r) : buf[a + i] = r[i]
    <3> SUFFICES ASSUME NEW i \in 1..Len(r) PROVE buf[a + i] = r[i]
      OBVIOUS
    <3>1. Len(d) + i \in 1..Len(u) /\ u[Len(d) + i] = r[i] /\ a + i = Len(w) + (Len(d) + i)
      BY <1>1, <2>1, <1>2
    <3> QED  BY <3>1, <1>2
  <2>4. v \in Strings(S) /\ Len(v) = Len(r) /\ \A i \in 1..Len(v) : v[i] = r[i]
    BY <2>1, <2>2, <2>3
  <2> HIDE DEF v
  <2>5. v = r
    BY <2>4, SameString
  <2> QED  BY <2>5 DEF v
<1>7. SubSeq(buf, 1, end - 1) = w
  BY <1>2
<1> HIDE DEF end, next
<1>8. Skip(buf, D) = [word |-> w, rest |-> r]
  BY <1>4, <1>5, <1>6, <1>7 DEF Skip
<1> QED  BY <1>8 DEF buf, u

-----------------------------------------------------------------------------
(* Header lines *)

Lines(hs) == [i \in DOMAIN hs |-> HeaderLine(hs[i])]

\* What the parser has still to read when k headers are behind it.
Ahead(hs, k) == Rest(Lines(hs), k) \o <<Return>>
RestOf(hs, k) == IF k = Len(hs) THEN <<>> ELSE Ahead(hs, k)

\* The units the parser looks for are units.
LEMMA Units1 ==
    /\ \A c \in Nat : <<c>> \in Strings(Nat) /\ Len(<<c>>) = 1 /\ <<c>>[1] = c
    /\ CrLf \in Strings(Nat) /\ CrLf # <<>> /\ CrLf[1] = Return
    /\ Len(CrLf) = 2 /\ CrLf[2] = LineFeed
    /\ Return \in Nat /\ Colon \in Nat
  BY DEF Strings, CrLf, Return, LineFeed, Colon

\* Opaque, so that the provers put it to use only where it is named.
Grouped(s, t, u) == (s \o t) \o u = s \o (t \o u)

\* The definition for all strings.
LEMMA Grouping ==
    ASSUME NEW S, NEW s \in Strings(S), NEW t \in Strings(S), NEW u \in Strings(S)
    PROVE  Grouped(s, t, u)
  BY JoinsTwice DEF Grouped

\* What the parser may rely on in a header line.
LEMMA HeaderParts ==
    ASSUME NEW h \in HeaderFields, IsHeader(h)
    PROVE  /\ h.name \in Strings(Nat) /\ h.name # <<>>
           /\ h.name[1] \notin {Colon, Blank, Return, LineFeed}
           /\ Free(h.name, {Colon, Blank})
           /\ h.value \in Strings(Nat) /\ Free(h.value, {Return, LineFeed})
           /\ h.value # <<>> => h.value[1] \notin {Colon, Blank}
           /\ h.blanks \in Strings(Nat) /\ Only(h.blanks, {Blank})
           /\ HeaderLine(h) \in Strings(Nat)
           /\ <<Colon>> \o h.blanks \in Strings(Nat)
           /\ <<Colon>> \o h.blanks # <<>> /\ Only(<<Colon>> \o h.blanks, {Colon, Blank})
           /\ \A t \in Strings(Nat) :
                HeaderLine(h) \o t = h.name \o ((<<Colon>> \o h.blanks) \o (h.value \o (CrLf \o t)))
<1>1. /\ h.name \in Seq(Nat) /\ h.value \in Seq(Nat) /\ h.blanks \in Seq({Blank})
      /\ Blank \in Nat
  BY DEF HeaderFields, Units, Blank
<1>2. /\ h.name \in Strings(Nat) /\ h.value \in Strings(Nat) /\ h.blanks \in Strings(Nat)
      /\ Only(h.blanks, {Blank})
  <2>1. h.blanks \in Seq(Nat) /\ Only(h.blanks, {Blank})
    BY <1>1 DEF Only
  <2> QED  BY <1>1, <2>1 DEF Strings
<1>3. h.name # <<>> /\ 1 \in DOMAIN h.name
  BY <1>1 DEF IsHeader
<1>4. /\ h.name[1] \notin {Colon, Blank, Return, LineFeed}
      /\ Free(h.name, {Colon, Blank})
      /\ Free(h.value, {Return, LineFeed})
      /\ h.value # <<>> => h.value[1] \notin {Colon, Blank}
  BY <1>3 DEF IsHeader, Free
<1>5. <<Colon>> \in Strings(Nat) /\ CrLf \in Strings(Nat)
  BY Units1
<1>6. /\ <<Colon>> \o h.blanks \in Strings(Nat)
      /\ <<Colon>> \o h.blanks # <<>> /\ Only(<<Colon>> \o h.blanks, {Colon, Blank})
  BY <1>1 DEF Only, Strings, Colon
<1>7. /\ HeaderLine(h) \in Strings(Nat)
      /\ \A t \in Strings(Nat) :
           HeaderLine(h) \o t = h.name \o ((<<Colon>> \o h.blanks) \o (h.value \o (CrLf \o t)))
  <2>1. \A s \in Strings(Nat), t \in Strings(Nat) : s \o t \in Strings(Nat)
    BY Joins
  <2> DEFINE a == h.name
             ab == a \o <<Colon>>
             abc == ab \o h.blanks
             abcd == abc \o h.value
  <2>2. /\ ab \in Strings(Nat) /\ abc \in Strings(Nat) /\ abcd \in Strings(Nat)
        /\ <<Colon>> \o h.blanks \in Strings(Nat) /\ abcd \o CrLf \in Strings(Nat)
    BY <1>2, <1>5, <2>1
  <2>3. ASSUME NEW t \in Strings(Nat)
        PROVE  (abcd \o CrLf) \o t = a \o ((<<Colon>> \o h.blanks) \o (h.value \o (CrLf \o t)))
    <3>1. CrLf \o t \in Strings(Nat) /\ h.value \o (CrLf \o t) \in Strings(Nat)
      BY <1>2, <1>5, <2>1
    <3>2. /\ Grouped(abcd, CrLf, t) /\ Grouped(abc, h.value, CrLf \o t)
          /\ Grouped(a, <<Colon>>, h.blanks)
          /\ Grouped(a, <<Colon>> \o h.blanks, h.value \o (CrLf \o t))
      <4> HIDE DEF ab, abc, abcd
      <4> QED  BY <1>2, <1>5, <2>2, <3>1, Grouping
    <3> QED  BY ONLY <3>2 DEF Grouped
  <2> QED  BY <2>2, <2>3 DEF HeaderLine
<1> QED  BY <1>2, <1>3, <1>4, <1>6, <1>7

\* The header lines are texts, and each stands before the rest of them.
LEMMA LinesType ==
    ASSUME NEW hs \in Seq(HeaderFields), \A i \in DOMAIN hs : IsHeader(hs[i])
    PROVE  /\ Lines(hs) \in Seq(Strings(Nat)) /\ Len(Lines(hs)) = Len(hs) /\ Len(hs) \in Nat
           /\ \A k \in 0..Len(hs) : Rest(Lines(hs), k) \in Strings(Nat) /\ Ahead(hs, k) \in Strings(Nat)
           /\ Ahead(hs, Len(hs)) = <<Return>>
           /\ \A k \in 1..Len(hs) : /\ Ahead(hs, k - 1) = HeaderLine(hs[k]) \o Ahead(hs, k)
                                    /\ hs[k] \in HeaderFields /\ IsHeader(hs[k])
                                    /\ Ahead(hs, k - 1) # <<>>
                                    /\ Ahead(hs, k - 1)[1] \notin {Colon, Blank, Return, LineFeed}
<1>1. PICK n \in Nat : n = Len(hs) /\ DOMAIN hs = 1..n /\ n \in 0..n
                       /\ \A i \in 1..n : hs[i] \in HeaderFields /\ IsHeader(hs[i])
  OBVIOUS
<1>2. \A i \in 1..n : HeaderLine(hs[i]) \in Strings(Nat)
  BY <1>1, HeaderParts
<1>3. Lines(hs) \in Seq(Strings(Nat)) /\ Len(Lines(hs)) = n /\ \A i \in 1..n : Lines(hs)[i] = HeaderLine(hs[i])
  BY <1>1, <1>2 DEF Lines
<1>4. /\ Rest(Lines(hs), n) = <<>>
      /\ \A k \in 0..n : Rest(Lines(hs), k) \in Strings(Nat)
      /\ \A k \in 1..n : Rest(Lines(hs), k - 1) = Lines(hs)[k] \o Rest(Lines(hs), k)
  BY <1>3, RestSteps
<1>5. <<Return>> \in Strings(Nat)
  BY Units1
<1>6. \A k \in 0..n : Ahead(hs, k) \in Strings(Nat)
  BY <1>4, <1>5, Joins DEF Ahead
<1>7. Ahead(hs, n) = <<Return>>
  <2>1. <<>> \o <<Return>> = <<Return>>
    BY <1>5, Joins
  <2> QED  BY <1>4, <2>1 DEF Ahead
<1>8. ASSUME NEW k \in 1..n
      PROVE  /\ Ahead(hs, k - 1) = HeaderLine(hs[k]) \o Ahead(hs, k)
             /\ Ahead(hs, k - 1) # <<>>
             /\ Ahead(hs, k - 1)[1] \notin {Colon, Blank, Return, LineFeed}
  <2>1. /\ HeaderLine(hs[k]) \in Strings(Nat) /\ Rest(Lines(hs), k) \in Strings(Nat)
        /\ Ahead(hs, k) \in Strings(Nat) /\ k \in 0..n
    BY <1>1, <1>2, <1>4, <1>6
  <2>2. (HeaderLine(hs[k]) \o Rest(Lines(hs), k)) \o <<Return>> = HeaderLine(hs[k]) \o (Rest(Lines(hs), k) \o <<Return>>)
    <3>1. Grouped(HeaderLine(hs[k]), Rest(Lines(hs), k), <<Return>>)
      BY ONLY <2>1, <1>5, Grouping
    <3> QED  BY ONLY <3>1 DEF Grouped
  <2>3. Ahead(hs, k - 1) = HeaderLine(hs[k]) \o Ahead(hs, k)
    BY <2>2, <1>3, <1>4 DEF Ahead
  <2>4. PICK h \in HeaderFields : h = hs[k] /\ IsHeader(h)
    BY <1>1
  <2> DEFINE t == (<<Colon>> \o h.blanks) \o (h.value \o (CrLf \o Ahead(hs, k)))
  <2>5. Ahead(hs, k - 1) = h.name \o t
    BY <2>1, <2>3, <2>4, HeaderParts
  <2>6. t \in Strings(Nat) /\ h.name \in Strings(Nat) /\ h.name # <<>>
    <3>1. /\ <<Colon>> \o h.blanks \in Strings(Nat) /\ h.value \in Strings(Nat)
          /\ h.name \in Strings(Nat) /\ h.name # <<>>
      BY <2>4, HeaderParts
    <3>2. \A x \in Strings(Nat), y \in Strings(Nat) : x \o y \in Strings(Nat)
      BY Joins
    <3>3. CrLf \in Strings(Nat)
      BY Units1
    <3> QED  BY <2>1, <3>1, <3>2, <3>3
  <2>7. h.name[1] \notin {Colon, Blank, Return, LineFeed}
    BY <2>4, HeaderParts
  <2> HIDE DEF t
  <2>8. Len(h.name) > 0 /\ 1 \in 1..Len(h.name) /\ Len(h.name) \in Nat
    BY <2>6 DEF Strings
  <2>9. /\ h.name \o t \in Strings(Nat) /\ Len(h.name \o t) = Len(h.name) + Len(t) /\ Len(t) \in Nat
        /\ \A i \in 1..Len(h.name) : (h.name \o t)[i] = h.name[i]
    BY <2>6, JoinPlaces
  <2>10. (h.name \o t) # <<>>
    BY <2>8, <2>9
  <2> QED  BY <2>3, <2>5, <2>7, <2>8, <2>9, <2>10
<1> QED  BY <1>1, <1>3, <1>4, <1>6, <1>7, <1>8

\* The end of a line is skipped with all line ends behind it.
LEMMA LineRead ==
    ASSUME NEW hs \in Seq(HeaderFields), \A i \in DOMAIN hs : IsHeader(hs[i]),
           NEW k \in 0..Len(hs), NEW w \in Strings(Nat), Free(w, {Return, LineFeed})
    PROVE  Skip(w \o (CrLf \o Ahead(hs, k)), {Return, LineFeed}) = [word |-> w, rest |-> RestOf(hs, k)]
<1>1. CrLf \in Strings(Nat) /\ <<Return>> \in Strings(Nat) /\ <<>> \in Strings(Nat)
  BY Units1, Joins
<1>2. CASE k = Len(hs)
  <2>1. Ahead(hs, k) = <<Return>> /\ RestOf(hs, k) = <<>>
    BY <1>2, LinesType DEF RestOf
  <2> DEFINE d == CrLf \o <<Return>>
  <2>2. d \in Strings(Nat) /\ Only(d, {Return, LineFeed}) /\ d # <<>>
    BY DEF Strings, Only, CrLf, Return, LineFeed
  <2>3. d \o <<>> = d
    BY <2>2, Joins
  <2> HIDE DEF d
  <2>4. Skip(w \o (d \o <<>>), {Return, LineFeed}) = [word |-> w, rest |-> <<>>]
    <3>1. PICK r \in Strings(Nat) : r = <<>> /\ (r # <<>> => r[1] \notin {Return, LineFeed})
      BY ONLY <1>1
    <3>2. Skip(w \o (d \o r), {Return, LineFeed}) = [word |-> w, rest |-> r]
      <4>1. PICK D : D = {Return, LineFeed}
        OBVIOUS
      <4>2. PICK x \in Strings(Nat) : x = d
        BY ONLY <2>2
      <4>3. Only(x, D) /\ x # <<>> /\ Free(w, D) /\ (r # <<>> => r[1] \notin D)
        BY ONLY <2>2, <3>1, <4>1, <4>2, Free(w, {Return, LineFeed})
      <4>4. Skip(w \o (x \o r), D) = [word |-> w, rest |-> r]
        BY ONLY <4>3, SkipWord, w \in Strings(Nat), x \in Strings(Nat), r \in Strings(Nat)
      <4> QED  BY ONLY <4>1, <4>2, <4>4
    <3> QED  BY ONLY <3>1, <3>2
  <2> QED  BY <2>1, <2>3, <2>4 DEF d
<1>3. CASE k # Len(hs)
  <2>1. PICK j \in 1..Len(hs) : k = j - 1
    <3>1. Len(hs) \in Nat
      OBVIOUS
    <3>2. k + 1 \in 1..Len(hs) /\ k = (k + 1) - 1
      BY <3>1, <1>3
    <3> QED  BY <3>2
  <2>2. /\ Ahead(hs, k) \in Strings(Nat)
        /\ Ahead(hs, k)[1] \notin {Return, LineFeed}
    BY <2>1, LinesType
  <2>3. CrLf # <<>> /\ Only(CrLf, {Return, LineFeed})
    BY DEF CrLf, Only, Return, LineFeed
  <2>4. RestOf(hs, k) = Ahead(hs, k)
    BY <1>3 DEF RestOf
  <2>5. Skip(w \o (CrLf \o Ahead(hs, k)), {Return, LineFeed}) = [word |-> w, rest |-> Ahead(hs, k)]
    BY <1>1, <2>2, <2>3, SkipWord
  <2> QED  BY <2>4, <2>5
<1> QED  BY <1>2, <1>3

Heard(h) == [name |-> h.name, value |-> h.value]

\* One turn of the loop reads one header.
LEMMA HeaderRead ==
    ASSUME NEW hs \in Seq(HeaderFields), \A i \in DOMAIN hs : IsHeader(hs[i]),
           NEW k \in 1..Len(hs), NEW got
    PROVE  NextHeader([rest |-> RestOf(hs, k - 1), stopped |-> FALSE, headers |-> got])
             = [rest |-> RestOf(hs, k), stopped |-> FALSE, headers |-> Append(got, Heard(hs[k]))]
<1>1. /\ Ahead(hs, k - 1) = HeaderLine(hs[k]) \o Ahead(hs, k) /\ Ahead(hs, k) \in Strings(Nat)
      /\ hs[k] \in HeaderFields /\ IsHeader(hs[k]) /\ k \in 0..Len(hs)
  <2>1. Len(hs) \in Nat /\ k \in 0..Len(hs)
    OBVIOUS
  <2> QED  BY <2>1, LinesType
<1>2. RestOf(hs, k - 1) = Ahead(hs, k - 1)
  <2>1. k - 1 # Len(hs)
    OBVIOUS
  <2> QED  BY <2>1 DEF RestOf
<1>3. PICK h \in HeaderFields : h = hs[k] /\ IsHeader(h)
  BY <1>1
<1> DEFINE d == <<Colon>> \o h.blanks
           r == h.value \o (CrLf \o Ahead(hs, k))
<1>4. /\ h.name \in Strings(Nat) /\ h.name # <<>> /\ Free(h.name, {Colon, Blank})
      /\ h.value \in Strings(Nat) /\ Free(h.value, {Return, LineFeed})
      /\ h.value # <<>> => h.value[1] \notin {Colon, Blank}
      /\ d \in Strings(Nat) /\ d # <<>> /\ Only(d, {Colon, Blank})
  BY <1>3, HeaderParts
<1>5. RestOf(hs, k - 1) = h.name \o (d \o r)
  BY <1>1, <1>2, <1>3, HeaderParts
<1>6. r \in Strings(Nat) /\ r[1] \notin {Colon, Blank}
  <2>1. /\ CrLf \o Ahead(hs, k) \in Strings(Nat) /\ (CrLf \o Ahead(hs, k))[1] = Return
        /\ Len(CrLf \o Ahead(hs, k)) > 0
    <3>1. CrLf \in Strings(Nat) /\ Len(CrLf) = 2 /\ CrLf[1] = Return /\ 1 \in 1..2
      BY Units1
    <3>2. /\ CrLf \o Ahead(hs, k) \in Strings(Nat)
          /\ Len(CrLf \o Ahead(hs, k)) = Len(CrLf) + Len(Ahead(hs, k)) /\ Len(Ahead(hs, k)) \in Nat
          /\ \A i \in 1..Len(CrLf) : (CrLf \o Ahead(hs, k))[i] = CrLf[i]
      <4> HIDE DEF d, r
      <4>1. PICK u \in Strings(Nat) : u = Ahead(hs, k)
        BY <1>1
      <4>2. /\ CrLf \o u \in Strings(Nat) /\ Len(CrLf \o u) = Len(CrLf) + Len(u) /\ Len(u) \in Nat
            /\ \A i \in 1..Len(CrLf) : (CrLf \o u)[i] = CrLf[i]
        <5>1. PICK v \in Strings(Nat) : v = CrLf
          BY <3>1
        <5>2. /\ v \o u \in Strings(Nat) /\ Len(v \o u) = Len(v) + Len(u) /\ Len(u) \in Nat
              /\ \A i \in 1..Len(v) : (v \o u)[i] = v[i]
          BY JoinPlaces
        <5> QED  BY ONLY <5>1, <5>2
      <4> QED  BY <4>1, <4>2
    <3> QED  BY <3>1, <3>2
  <2> DEFINE t == CrLf \o Ahead(hs, k)
  <2>2. t \in Strings(Nat) /\ t[1] = Return
    BY <2>1
  <2> HIDE DEF t
  <2>3. h.value \o t \in Strings(Nat)
    BY <2>2, <1>4, Joins
  <2>4. CASE h.value = <<>>
    <3>1. <<>> \o t = t
      BY <2>2, Joins
    <3>2. r = t
      BY <3>1, <2>4 DEF t
    <3> HIDE DEF r
    <3> QED  BY <3>2, <2>2 DEF Colon, Blank, Return
  <2>5. CASE h.value # <<>>
    <3>1. Len(h.value) \in Nat /\ 1 \in 1..Len(h.value)
      BY <2>5, <1>4 DEF Strings
    <3>2. \A i \in 1..Len(h.value) : (h.value \o t)[i] = h.value[i]
      BY <2>2, <1>4, JoinPlaces
    <3> QED  BY <3>1, <3>2, <2>3, <2>5, <1>4 DEF t
  <2> QED  BY <2>4, <2>5
<1>7. Skip(r, {Return, LineFeed}) = [word |-> h.value, rest |-> RestOf(hs, k)]
  BY <1>1, <1>4, LineRead
<1> HIDE DEF d, r
<1>8. Skip(h.name \o (d \o r), {Colon, Blank}) = [word |-> h.name, rest |-> r]
  BY <1>4, <1>6, SkipWord
<1> DEFINE turn == [rest |-> RestOf(hs, k - 1), stopped |-> FALSE, headers |-> got]
<1>9. /\ turn.rest = h.name \o (d \o r) /\ turn.stopped = FALSE /\ turn.headers = got
  BY <1>5
<1> HIDE DEF turn
<1>10. NextHeader(turn) = [rest |-> RestOf(hs, k), stopped |-> FALSE,
                          headers |-> Append(got, [name |-> h.name, value |-> h.value])]
  <2>1. NextHeader(turn) = [rest |-> Skip(r, {Return, LineFeed}).rest, stopped |-> FALSE,
                           headers |-> Append(got, [name |-> h.name, value |-> Skip(r, {Return, LineFeed}).word])]
    <3>1. Skip(turn.rest, {Colon, Blank}) = [word |-> h.name, rest |-> r]
      BY ONLY <1>8, <1>9
    <3>2. Skip(turn.rest, {Colon, Blank}).word = h.name /\ Skip(turn.rest, {Colon, Blank}).rest = r
      BY ONLY <3>1
    <3> QED  BY ONLY <3>2, <1>4, <1>9 DEF NextHeader
  <2>2. Skip(r, {Return, LineFeed}).rest = RestOf(hs, k) /\ Skip(r, {Return, LineFeed}).word = h.value
    BY ONLY <1>7
  <2> QED  BY ONLY <2>1, <2>2
<1> QED  BY <1>3, <1>10 DEF turn, Heard

\* Behind the last line there is no word.
LEMMA NothingLeft ==
    ASSUME NEW D
    PROVE  Skip(<<>>, D).word = <<>>
<1>1. {Len(<<>>) + 1} \cup {i \in DOMAIN <<>> : <<>>[i] \in D} = {1}
  OBVIOUS
<1>2. Min({1}) = 1
  BY MinIs
<1>3. SubSeq(<<>>, 1, 1 - 1) = <<>>
  OBVIOUS
<1> QED  BY <1>1, <1>2, <1>3 DEF Skip

\* What k turns of the loop leave.
Got(hs, k) == [i \in 1..k |-> Heard(hs[i])]
After(hs, k) ==
    IF k <= Len(hs) THEN [rest |-> RestOf(hs, k), stopped |-> FALSE, headers |-> Got(hs, k)]
    ELSE [rest |-> <<>>, stopped |-> TRUE, headers |-> Got(hs, Len(hs))]

\* A list that is one longer.
LEMMA OneMore ==
    ASSUME NEW j \in Nat, NEW F(_)
    PROVE  Append([i \in 1..j |-> F(i)], F(j + 1)) = [i \in 1..(j + 1) |-> F(i)]
<1> DEFINE V == {F(i) : i \in 1..(j + 1)}
           f == [i \in 1..j |-> F(i)]
           g == [i \in 1..(j + 1) |-> F(i)]
<1>1. /\ f \in [1..j -> V] /\ g \in [1..(j + 1) -> V] /\ F(j + 1) \in V
      /\ g[j + 1] = F(j + 1) /\ \A i \in 1..j : f[i] = g[i]
  OBVIOUS
<1> HIDE DEF V, f, g
<1>2. f \in Seq(V) /\ Len(f) = j /\ g \in Seq(V) /\ Len(g) = j + 1
  BY <1>1
<1>3. PICK x \in V : x = F(j + 1)
  BY <1>1
<1>4. Append(f, x) = g
  <2>1. /\ Append(f, x) \in Seq(V) /\ Len(Append(f, x)) = j + 1 /\ Append(f, x)[j + 1] = x
        /\ \A i \in 1..j : Append(f, x)[i] = f[i]
    BY <1>2
  <2>2. \A i \in 1..(j + 1) : Append(f, x)[i] = g[i]
    <3>1. ASSUME NEW i \in 1..(j + 1) PROVE Append(f, x)[i] = g[i]
      <4>1. i = j + 1 \/ i \in 1..j
        OBVIOUS
      <4> QED  BY <4>1, <2>1, <1>1, <1>3
    <3> QED  BY <3>1
  <2> DEFINE a == Append(f, x)
  <2>3. a \in Strings(V) /\ g \in Strings(V) /\ Len(a) = Len(g) /\ \A i \in 1..Len(a) : a[i] = g[i]
    BY <2>1, <2>2, <1>2 DEF Strings
  <2> HIDE DEF a
  <2>4. a = g
    BY <2>3, SameString
  <2> QED  BY <2>4 DEF a
<1> QED  BY <1>3, <1>4 DEF f, g

\* One turn of parse_http_headers takes one header line, as long as there are lines.
LEMMA Turn ==
    ASSUME NEW hs \in Seq(HeaderFields), \A i \in DOMAIN hs : IsHeader(hs[i]), NEW k \in Nat \ {0}
    PROVE  NextHeader(After(hs, k - 1)) = After(hs, k)
<1>1. PICK n \in Nat : n = Len(hs)
  OBVIOUS
<1>2. CASE k <= n
  <2>1. k \in 1..Len(hs) /\ k - 1 <= Len(hs) /\ k <= Len(hs)
    BY <1>1, <1>2
  <2>2. Append(Got(hs, k - 1), Heard(hs[k])) = Got(hs, k)
    <3>1. PICK j \in Nat : j = k - 1 /\ k = j + 1
      OBVIOUS
    <3>2. Append(Got(hs, j), Heard(hs[j + 1])) = Got(hs, j + 1)
      BY OneMore DEF Got
    <3> QED  BY <3>1, <3>2
  <2>3. NextHeader([rest |-> RestOf(hs, k - 1), stopped |-> FALSE, headers |-> Got(hs, k - 1)])
          = [rest |-> RestOf(hs, k), stopped |-> FALSE, headers |-> Append(Got(hs, k - 1), Heard(hs[k]))]
    BY <2>1, HeaderRead
  <2> QED  BY <2>1, <2>2, <2>3 DEF After
<1>3. CASE k > n
  <2>1. After(hs, k) = [rest |-> <<>>, stopped |-> TRUE, headers |-> Got(hs, n)]
    BY <1>1, <1>3 DEF After
  <2>2. PICK b \in BOOLEAN : After(hs, k - 1) = [rest |-> <<>>, stopped |-> b, headers |-> Got(hs, n)]
    <3>1. CASE k = n + 1
      <4>1. k - 1 = n
        BY <3>1
      <4>2. After(hs, n) = [rest |-> RestOf(hs, n), stopped |-> FALSE, headers |-> Got(hs, n)]
        BY <1>1 DEF After
      <4>3. RestOf(hs, n) = <<>>
        BY <1>1 DEF RestOf
      <4>4. After(hs, k - 1) = [rest |-> <<>>, stopped |-> FALSE, headers |-> Got(hs, n)]
        BY ONLY <4>1, <4>2, <4>3
      <4> QED  BY <4>4, Zenon
    <3>2. CASE k # n + 1
      <4>1. After(hs, k - 1) = [rest |-> <<>>, stopped |-> TRUE, headers |-> Got(hs, n)]
        BY <1>1, <1>3, <3>2 DEF After
      <4> QED  BY <4>1, Zenon
    <3> QED  BY <3>1, <3>2
  <2> DEFINE G == Got(hs, n)
  <2> HIDE DEF G
  <2>3. NextHeader([rest |-> <<>>, stopped |-> b, headers |-> G]) = [rest |-> <<>>, stopped |-> TRUE, headers |-> G]
    <3> DEFINE was == [rest |-> <<>>, stopped |-> b, headers |-> G]
    <3>1. was.rest = <<>> /\ [was EXCEPT !.stopped = TRUE] = [rest |-> <<>>, stopped |-> TRUE, headers |-> G]
      <4>1. was \in [rest : {<<>>}, stopped : BOOLEAN, headers : {G}]
        OBVIOUS
      <4> HIDE DEF was
      <4>2. [was EXCEPT !.stopped = TRUE] \in [rest : {<<>>}, stopped : {TRUE}, headers : {G}]
        BY <4>1
      <4>3. PICK x \in [rest : {<<>>}, stopped : {TRUE}, headers : {G}] : x = [was EXCEPT !.stopped = TRUE]
        BY <4>2
      <4>4. x = [rest |-> x.rest, stopped |-> x.stopped, headers |-> x.headers]
        OBVIOUS
      <4>5. x.rest = <<>> /\ x.stopped = TRUE /\ x.headers = G
        OBVIOUS
      <4> QED  BY <4>1, <4>3, <4>4, <4>5
    <3> HIDE DEF was
    <3>2. Skip(was.rest, {Colon, Blank}).word = <<>>
      BY <3>1, NothingLeft
    <3>3. NextHeader(was) = [was EXCEPT !.stopped = TRUE]
      BY <3>2 DEF NextHeader
    <3> QED  BY <3>1, <3>3 DEF was
  <2> QED  BY <2>1, <2>2, <2>3 DEF G
<1> QED  BY <1>1, <1>2, <1>3

\* The loop keeps the first headers it has room for.
LEMMA HeadersParsed ==
    ASSUME NEW hs \in Seq(HeaderFields), \A i \in DOMAIN hs : IsHeader(hs[i])
    PROVE  ParseHeaders(RestOf(hs, 0)) = Got(hs, Min({MaxHeaders, Len(hs)}))
<1>1. PICK n \in Nat, m \in Nat : n = Len(hs) /\ m = MaxHeaders /\ m # 0 /\ m \in 0..m
  BY MaxHeadersPositive
<1> DEFINE start == [rest |-> RestOf(hs, 0), stopped |-> FALSE, headers |-> <<>>]
           Def(f) == f = [turn \in 0..m |-> IF turn = 0 THEN start ELSE NextHeader(f[turn - 1])]
           h == CHOOSE f : Def(f)
<1>2. ParseHeaders(RestOf(hs, 0)) = h[m].headers
  BY <1>1 DEF ParseHeaders
<1>3. After(hs, 0) = start
  <2>1. Got(hs, 0) = <<>>
    BY DEF Got
  <2>2. 0 <= Len(hs)
    BY <1>1
  <2> QED  BY <2>1, <2>2 DEF After
<1> HIDE DEF start
<1> DEFINE f0 == [turn \in 0..m |-> After(hs, turn)]
<1>4. Def(f0)
  <2>1. ASSUME NEW i \in 0..m PROVE f0[i] = IF i = 0 THEN start ELSE NextHeader(f0[i - 1])
    <3>1. CASE i = 0
      BY <3>1, <1>3
    <3>2. CASE i # 0
      <4>1. i \in Nat \ {0} /\ i - 1 \in 0..m
        BY <3>2
      <4>2. NextHeader(After(hs, i - 1)) = After(hs, i)
        BY <4>1, Turn
      <4> QED  BY <4>1, <4>2, <3>2
    <3> QED  BY <3>1, <3>2
  <2> QED  BY <2>1
<1> HIDE DEF f0
<1>5. Def(h)
  <2> HIDE DEF Def
  <2> QED  BY <1>4
<1> HIDE DEF h
<1>6. \A i \in 0..m : h[i] = IF i = 0 THEN start ELSE NextHeader(h[i - 1])
  BY <1>5
<1> DEFINE E == {i \in 0..m : h[i] = After(hs, i)}
<1>7. 0 \in E /\ \A i \in 0..m : i \in E /\ i < m => i + 1 \in E
  <2>1. 0 \in E
    BY <1>1, <1>3, <1>6
  <2>2. ASSUME NEW i \in 0..m, i \in E, i < m PROVE i + 1 \in E
    <3>1. PICK j \in Nat \ {0} : j = i + 1 /\ j - 1 = i /\ j \in 0..m
      BY <2>2
    <3>2. h[j] = NextHeader(h[j - 1])
      BY <3>1, <1>6
    <3>3. NextHeader(After(hs, j - 1)) = After(hs, j)
      BY Turn
    <3>4. h[j - 1] = After(hs, j - 1)
      BY <3>1, <2>2
    <3> QED  BY <3>1, <3>2, <3>3, <3>4
  <2> QED  BY <2>1, <2>2
<1> HIDE DEF E
<1>8. m \in E
  BY <1>1, <1>7, UpTo
<1>9. h[m] = After(hs, m)
  BY <1>8 DEF E
<1>10. Min({MaxHeaders, Len(hs)}) = IF m <= n THEN m ELSE n
  <2>1. CASE m <= n
    <3>1. {m, n} \in SUBSET Int /\ m \in {m, n} /\ \A y \in {m, n} : m <= y
      BY <2>1
    <3>2. Min({m, n}) = m
      BY ONLY <3>1, MinIs
    <3> QED  BY <1>1, <2>1, <3>2
  <2>2. CASE ~(m <= n)
    <3>1. {m, n} \in SUBSET Int /\ n \in {m, n} /\ \A y \in {m, n} : n <= y
      BY <2>2
    <3>2. Min({m, n}) = n
      BY ONLY <3>1, MinIs
    <3> QED  BY <1>1, <2>2, <3>2
  <2> QED  BY <2>1, <2>2
<1>11. After(hs, m).headers = Got(hs, IF m <= n THEN m ELSE n)
  BY <1>1 DEF After
<1> QED  BY <1>2, <1>9, <1>10, <1>11

-----------------------------------------------------------------------------
(* What a request is written as *)

\* Opaque, as Grouped is.
Joined(s, t) ==
    /\ Len(s) \in Nat /\ Len(t) \in Nat /\ Len(s \o t) = Len(s) + Len(t)
    /\ DOMAIN (s \o t) = 1..(Len(s) + Len(t))
    /\ \A i \in 1..Len(s) : (s \o t)[i] = s[i]
    /\ \A i \in 1..Len(t) : (s \o t)[Len(s) + i] = t[i]

\* The definition for all strings.
LEMMA Joining ==
    ASSUME NEW S, NEW s \in Strings(S), NEW t \in Strings(S)
    PROVE  Joined(s, t)
  BY JoinPlaces DEF Joined

\* No unit comes in by joining.
LEMMA JoinFree ==
    ASSUME NEW S, NEW s \in Strings(S), NEW t \in Strings(S), NEW D, Free(s, D), Free(t, D)
    PROVE  Free(s \o t, D)
<1>1. PICK u \in Strings(S) : u = s \o t
  BY Joins
<1>2. /\ Len(s) \in Nat /\ Len(t) \in Nat /\ DOMAIN u = 1..(Len(s) + Len(t))
      /\ \A i \in 1..(Len(s) + Len(t)) : u[i] = IF i <= Len(s) THEN s[i] ELSE t[i - Len(s)]
  <2>1. /\ Len(s) \in Nat /\ Len(t) \in Nat /\ DOMAIN (s \o t) = 1..(Len(s) + Len(t))
        /\ \A i \in 1..(Len(s) + Len(t)) : (s \o t)[i] = IF i <= Len(s) THEN s[i] ELSE t[i - Len(s)]
    BY JoinPlaces
  <2> QED  BY ONLY <1>1, <2>1
<1>3. (\A i \in 1..Len(s) : s[i] \notin D) /\ \A i \in 1..Len(t) : t[i] \notin D
  BY DEF Free, Strings
<1>4. ASSUME NEW i \in 1..(Len(s) + Len(t)) PROVE u[i] \notin D
  <2>1. CASE i <= Len(s)
    BY <2>1, <1>2, <1>3
  <2>2. CASE ~(i <= Len(s))
    <3>1. i - Len(s) \in 1..Len(t)
      BY <2>2, <1>2
    <3> QED  BY <3>1, <2>2, <1>2, <1>3
  <2> QED  BY <2>1, <2>2
<1>5. Free(u, D)
  BY <1>2, <1>4 DEF Free
<1> QED  BY <1>1, <1>5

\* Nor by joining many.
LEMMA FlattenFree ==
    ASSUME NEW S, NEW seqs \in Seq(Strings(S)), NEW D, \A i \in 1..Len(seqs) : Free(seqs[i], D)
    PROVE  FlattenSeq(seqs) \in Strings(S) /\ Free(FlattenSeq(seqs), D)
<1>1. PICK n \in Nat : n = Len(seqs) /\ n \in 0..n /\ \A i \in 1..n : seqs[i] \in Strings(S)
  OBVIOUS
<1>2. /\ First(seqs, 0) = <<>> /\ First(seqs, n) = FlattenSeq(seqs)
      /\ \A i \in 0..n : First(seqs, i) \in Strings(S)
      /\ \A i \in 1..n : First(seqs, i) = First(seqs, i - 1) \o seqs[i]
  BY <1>1, FirstSteps
<1> DEFINE E == {i \in 0..n : Free(First(seqs, i), D)}
<1>3. 0 \in E
  <2>1. Free(<<>>, D)
    BY DEF Free
  <2> QED  BY <1>1, <1>2, <2>1
<1>4. ASSUME NEW i \in 0..n, i \in E, i < n PROVE i + 1 \in E
  <2>1. PICK j \in 1..n : j = i + 1 /\ j - 1 = i /\ j \in 0..n
    BY <1>4
  <2>2. Free(First(seqs, i) \o seqs[j], D)
    BY <1>1, <1>2, <1>4, JoinFree
  <2> QED  BY <2>1, <2>2, <1>2
<1> HIDE DEF E
<1>5. n \in E
  BY <1>1, <1>3, <1>4, UpTo
<1> QED  BY <1>1, <1>2, <1>5 DEF E

\* An element of a sequence.
LEMMA ElementOf ==
    ASSUME NEW T, NEW s \in Seq(T), NEW i \in 1..Len(s)
    PROVE  s[i] \in T
  OBVIOUS

\* A list of one sequence.
LEMMA FlattenOne ==
    ASSUME NEW S, NEW seqs \in Seq(Strings(S)), Len(seqs) = 1
    PROVE  FlattenSeq(seqs) = seqs[1]
<1>1. seqs[1] \in Strings(S) /\ 1 \in 1..Len(seqs) /\ 1 - 1 = 0
  <2>1. 1 \in 1..Len(seqs) /\ 1 - 1 = 0
    OBVIOUS
  <2> QED  BY <2>1, ElementOf
<1>2. FlattenSeq(seqs) = <<>> \o seqs[1]
  BY <1>1, FirstSteps
<1>3. <<>> \o seqs[1] = seqs[1]
  BY <1>1, Joins
<1> QED  BY <1>2, <1>3

\* It begins as its first sequence does.
LEMMA FlattenBegins ==
    ASSUME NEW S, NEW seqs \in Seq(Strings(S)), Len(seqs) > 0, Len(seqs[1]) > 0
    PROVE  /\ FlattenSeq(seqs) \in Strings(S) /\ Len(FlattenSeq(seqs)) > 0
           /\ FlattenSeq(seqs)[1] = seqs[1][1]
<1>1. PICK n \in Nat : n = Len(seqs) /\ 1 \in 1..n /\ 1 - 1 = 0 /\ 1 \in 0..n /\ 0 \in 0..n
  OBVIOUS
<1>2. PICK s \in Strings(S) : s = seqs[1] /\ Len(s) > 0
  OBVIOUS
<1>3. PICK t \in Strings(S) : t = Rest(seqs, 1)
  BY <1>1, RestSteps
<1>4. FlattenSeq(seqs) = s \o t /\ FlattenSeq(seqs) \in Strings(S)
  BY <1>1, <1>2, <1>3, RestSteps
<1>5. /\ Len(s \o t) = Len(s) + Len(t) /\ Len(s) \in Nat /\ Len(t) \in Nat
      /\ \A i \in 1..Len(s) : (s \o t)[i] = s[i]
  BY JoinPlaces
<1>6. 1 \in 1..Len(s)
  BY <1>2, <1>5
<1> QED  BY <1>2, <1>4, <1>5, <1>6

\* Short texts.
LEMMA Tuples ==
    /\ \A a \in Nat : <<a>> \in Strings(Nat) /\ Len(<<a>>) = 1 /\ <<a>>[1] = a
    /\ \A a, b \in Nat : <<a, b>> \in Strings(Nat) /\ Len(<<a, b>>) = 2 /\ <<a, b>>[1] = a /\ <<a, b>>[2] = b
    /\ \A a, b, c \in Nat : /\ <<a, b, c>> \in Strings(Nat) /\ Len(<<a, b, c>>) = 3
                            /\ <<a, b, c>>[1] = a /\ <<a, b, c>>[2] = b /\ <<a, b, c>>[3] = c
  BY DEF Strings

\* An escape is put together of its sign and its digits.
LEMMA OneAndTwo ==
    ASSUME NEW a \in Nat, NEW b \in Nat, NEW c \in Nat
    PROVE  <<a>> \o <<b, c>> = <<a, b, c>>
<1> DEFINE s == <<a>>
           t == <<b, c>>
           u == <<a, b, c>>
           v == s \o t
<1>1. /\ s \in Strings(Nat) /\ t \in Strings(Nat) /\ u \in Strings(Nat)
      /\ Len(s) = 1 /\ s[1] = a /\ Len(t) = 2 /\ t[1] = b /\ t[2] = c
      /\ Len(u) = 3 /\ u[1] = a /\ u[2] = b /\ u[3] = c
  BY Tuples
<1> HIDE DEF s, t, u
<1>2. /\ s \o t \in Strings(Nat) /\ Len(s \o t) = Len(s) + Len(t)
      /\ \A i \in 1..Len(s) : (s \o t)[i] = s[i]
      /\ \A i \in 1..Len(t) : (s \o t)[Len(s) + i] = t[i]
  <2> HIDE DEF v
  <2>1. Joined(s, t)
    BY <1>1, Joining
  <2> QED  BY ONLY <2>1, <1>1, Joins DEF Joined
<1>3. v \in Strings(Nat) /\ Len(v) = 3 /\ v[1] = a /\ v[1 + 1] = b /\ v[1 + 2] = c
  BY ONLY <1>1, <1>2
<1> HIDE DEF v
<1>4. 1 + 1 = 2 /\ 1 + 2 = 3 /\ \A i \in 1..3 : i = 1 \/ i = 2 \/ i = 3
  OBVIOUS
<1>5. v = u
  BY <1>1, <1>3, <1>4, SameString
<1> QED  BY <1>5 DEF s, t, u, v

\* urlEncode of one byte.
LEMMA EncodedByte ==
    ASSUME NEW c \in Nat
    PROVE  UrlEncode(<<c>>, FALSE) = IF c \in Unreserved THEN <<c>>
                                     ELSE <<Percent, HexDigit(c \div 16), HexDigit(c % 16)>>
<1> DEFINE code == IF c \in Unreserved THEN <<c>> ELSE <<Percent>> \o <<HexDigit(c \div 16), HexDigit(c % 16)>>
           all == [i \in DOMAIN <<c>> |-> code]
<1>1. /\ HexDigit(c \div 16) \in Nat /\ HexDigit(c % 16) \in Nat /\ Percent \in Nat
  BY DEF HexDigit, Percent
<1>2. PICK a \in Nat, b \in Nat : a = HexDigit(c \div 16) /\ b = HexDigit(c % 16)
  BY <1>1
<1>3. <<Percent>> \o <<a, b>> = <<Percent, a, b>> /\ <<Percent, a, b>> \in Seq(Nat) /\ <<c>> \in Seq(Nat)
  BY <1>1, OneAndTwo
<1>4. code \in Strings(Nat)
  BY <1>2, <1>3 DEF Strings
<1>5. FlattenSeq(all) = code
  <2> HIDE DEF code
  <2>1. all \in Seq(Strings(Nat)) /\ Len(all) = 1 /\ all[1] = code
    BY <1>4
  <2> HIDE DEF all
  <2> QED  BY <2>1, FlattenOne
<1>6. UrlEncode(<<c>>, FALSE) = FlattenSeq(all)
  <2>1. \A i \in DOMAIN <<c>> : <<c>>[i] = c
    OBVIOUS
  <2> QED  BY <2>1 DEF UrlEncode
<1> QED  BY <1>2, <1>3, <1>5, <1>6

PathCode(c) == IF c = Slash THEN <<Slash>> ELSE UrlEncode(<<c>>, FALSE)

\* What a byte of a path is written as holds no blank and no question mark.
LEMMA PathCodes ==
    ASSUME NEW c \in Nat
    PROVE  /\ PathCode(c) \in Strings(Nat) /\ Len(PathCode(c)) > 0
           /\ Free(PathCode(c), {Blank, QuestionMark}) /\ PathCode(c)[1] # Blank
<1>1. CASE PathCode(c) = <<c>> /\ (c = Slash \/ c \in Unreserved)
  BY <1>1 DEF Strings, Free, Blank, QuestionMark, Slash, Unreserved, Digits, Uppers, Lowers
<1>2. CASE PathCode(c) = <<Percent, HexDigit(c \div 16), HexDigit(c % 16)>>
  <2>1. PICK a \in Nat, b \in Nat : a = HexDigit(c \div 16) /\ b = HexDigit(c % 16)
                                    /\ a \notin {Blank, QuestionMark} /\ b \notin {Blank, QuestionMark}
    BY DEF HexDigit, Blank, QuestionMark
  <2> DEFINE code == <<Percent, a, b>>
  <2>2. /\ code \in Seq(Nat) /\ Len(code) > 0 /\ code[1] = Percent /\ DOMAIN code = 1..3
        /\ code[2] = a /\ code[3] = b
    BY DEF Percent
  <2>3. PathCode(c) = code
    BY <1>2, <2>1
  <2> HIDE DEF code
  <2> QED  BY <2>1, <2>2, <2>3 DEF Strings, Free, Percent, Blank, QuestionMark
<1> QED  BY <1>1, <1>2, EncodedByte DEF PathCode

\* Nor does the path.
LEMMA PathEncoded ==
    ASSUME NEW path \in Seq(Nat), path # <<>>
    PROVE  /\ EncodedPath(path) \in Strings(Nat) /\ Free(EncodedPath(path), {Blank, QuestionMark})
           /\ Len(EncodedPath(path)) > 0 /\ EncodedPath(path)[1] # Blank
<1>1. PICK n \in Nat : n = Len(path) /\ n > 0 /\ DOMAIN path = 1..n /\ \A i \in 1..n : path[i] \in Nat
  OBVIOUS
<1> DEFINE codes == [i \in 1..n |-> PathCode(path[i])]
<1>2. \A i \in 1..n : PathCode(path[i]) \in Strings(Nat)
  BY <1>1, PathCodes
<1>3. codes \in Seq(Strings(Nat)) /\ Len(codes) = n /\ \A i \in 1..n : codes[i] = PathCode(path[i])
  BY <1>1, <1>2
<1>4. EncodedPath(path) = FlattenSeq(codes)
  BY <1>1 DEF EncodedPath, PathCode
<1> HIDE DEF codes
<1>5. \A i \in 1..Len(codes) : Free(codes[i], {Blank, QuestionMark})
  BY <1>1, <1>3, PathCodes
<1>6. 1 \in 1..n /\ codes[1] = PathCode(path[1]) /\ Len(codes[1]) > 0 /\ codes[1][1] # Blank
  <2>1. 1 \in 1..n /\ path[1] \in Nat
    BY <1>1
  <2> QED  BY <2>1, <1>3, PathCodes
<1>7. FlattenSeq(codes) \in Strings(Nat) /\ Free(FlattenSeq(codes), {Blank, QuestionMark})
  BY <1>3, <1>5, FlattenFree
<1>8. Len(FlattenSeq(codes)) > 0 /\ FlattenSeq(codes)[1] = codes[1][1]
  BY <1>1, <1>3, <1>6, FlattenBegins
<1> QED  BY <1>4, <1>6, <1>7, <1>8

\* What a byte of a value is written as holds no ampersand and no blank.
LEMMA CodeFree ==
    ASSUME NEW code \in Seq(Nat), NEW byte \in Nat, Codes(code, byte)
    PROVE  Free(code, {Ampersand, Blank})
<1> USE DEF Free, Ampersand, Blank
<1>1. CASE Len(code) = 3 /\ code[1] = Percent /\ {code[2], code[3]} \subseteq HexDigits
  <2>2. code[1] = 37 /\ code[2] \in HexDigits /\ code[3] \in HexDigits
    BY <1>1 DEF Percent
  <2>3. DOMAIN code = 1..3 /\ \A i \in 1..3 : i = 1 \/ i = 2 \/ i = 3
    BY <1>1
  <2>4. \A c \in HexDigits : c \notin {38, 32}
    BY DEF HexDigits, Digits
  <2>5. code[1] \notin {38, 32} /\ code[2] \notin {38, 32} /\ code[3] \notin {38, 32}
    BY <2>2, <2>4
  <2> QED  BY <2>3, <2>5
<1>2. CASE code = <<byte>> /\ byte \in Unreserved
  BY <1>2 DEF Unreserved, Digits, Uppers, Lowers
<1>3. CASE code = <<Plus>>
  BY <1>3 DEF Plus
<1> QED  BY <1>1, <1>2, <1>3 DEF Codes

\* A sequence over a wider set.
LEMMA WiderSeq ==
    ASSUME NEW A, NEW B, A \subseteq B, NEW s \in Seq(A)
    PROVE  s \in Seq(B) /\ DOMAIN s = 1..Len(s) /\ Len(s) \in Nat
  OBVIOUS

\* What the parser may rely on in a parameter.
LEMMA ParamParts ==
    ASSUME NEW p \in ParamFields, IsParam(p)
    PROVE  /\ p.name \in Strings(Nat) /\ Free(p.name, {EqualsSign, Ampersand, Blank})
           /\ p.codes \in Seq(Strings(Nat)) /\ p.value \in Seq(Nat) /\ Len(p.codes) = Len(p.value)
           /\ \A i \in 1..Len(p.value) : Codes(p.codes[i], p.value[i])
           /\ FlattenSeq(p.codes) \in Strings(Nat)
           /\ Free(FlattenSeq(p.codes), {Ampersand, Blank})
           /\ ParamText(p) \in Strings(Nat) /\ Free(ParamText(p), {Ampersand, Blank})
           /\ p.equals \in BOOLEAN /\ (p.value # <<>> => p.equals)
<1>1. /\ p.name \in Seq(Nat) /\ p.codes \in Seq(Seq(Nat)) /\ p.value \in Seq(Byte) /\ p.equals \in BOOLEAN
  BY DEF ParamFields, Units
<1>2. p.value \in Seq(Nat) /\ DOMAIN p.value = 1..Len(p.value)
  <2>1. Byte \subseteq Nat
    BY DEF Byte
  <2> QED  BY <1>1, <2>1, WiderSeq
<1>3. p.name \in Strings(Nat) /\ p.codes \in Seq(Strings(Nat))
  BY <1>1 DEF Strings
<1>4. /\ Free(p.name, {EqualsSign, Ampersand, Blank}) /\ Len(p.codes) = Len(p.value)
      /\ \A i \in 1..Len(p.value) : Codes(p.codes[i], p.value[i])
      /\ p.value # <<>> => p.equals
  BY <1>2 DEF IsParam, Free
<1>5. ASSUME NEW i \in 1..Len(p.codes) PROVE Free(p.codes[i], {Ampersand, Blank})
  <2>1. p.codes[i] \in Seq(Nat)
    BY <1>1, ElementOf
  <2>2. p.value[i] \in Nat /\ i \in 1..Len(p.value)
    BY <1>2, <1>4, ElementOf
  <2>3. Codes(p.codes[i], p.value[i])
    BY <1>4, <2>2
  <2> QED  BY <2>1, <2>2, <2>3, CodeFree
<1>6. /\ FlattenSeq(p.codes) \in Strings(Nat)
      /\ Free(FlattenSeq(p.codes), {Ampersand, Blank})
  BY <1>3, <1>5, FlattenFree
<1>7. /\ ParamText(p) \in Strings(Nat) /\ Free(ParamText(p), {Ampersand, Blank})
  <2>1. Free(p.name, {Ampersand, Blank})
    BY <1>4 DEF Free
  <2> DEFINE sign == IF p.equals THEN <<EqualsSign>> ELSE <<>>
  <2>2. sign \in Strings(Nat) /\ Free(sign, {Ampersand, Blank})
    BY DEF Strings, Free, EqualsSign, Ampersand, Blank
  <2> HIDE DEF sign
  <2>3. p.name \o sign \in Strings(Nat) /\ Free(p.name \o sign, {Ampersand, Blank})
    BY <1>3, <2>1, <2>2, JoinFree, Joins
  <2>4. /\ (p.name \o sign) \o FlattenSeq(p.codes) \in Strings(Nat)
        /\ Free((p.name \o sign) \o FlattenSeq(p.codes), {Ampersand, Blank})
    BY <1>6, <2>3, JoinFree, Joins
  <2> QED  BY <2>4 DEF ParamText, sign
<1> QED  BY <1>1, <1>2, <1>3, <1>4, <1>6, <1>7

Pieces(ps) == [i \in DOMAIN ps |-> (IF i = 1 THEN <<QuestionMark>> ELSE <<Ampersand>>) \o ParamText(ps[i])]

\* The parameters are texts, each behind its sign.
LEMMA PieceTexts ==
    ASSUME NEW ps \in Seq(ParamFields), \A i \in DOMAIN ps : IsParam(ps[i])
    PROVE  /\ Pieces(ps) \in Seq(Strings(Nat)) /\ Len(Pieces(ps)) = Len(ps) /\ Len(ps) \in Nat
           /\ \A i \in 1..Len(ps) :
                /\ ps[i] \in ParamFields /\ IsParam(ps[i])
                /\ ParamText(ps[i]) \in Strings(Nat)
                /\ Pieces(ps)[i] = (IF i = 1 THEN <<QuestionMark>> ELSE <<Ampersand>>) \o ParamText(ps[i])
                /\ Free(Pieces(ps)[i], {Blank})
                /\ Len(Pieces(ps)[i]) > 0
           /\ Query(ps) = FlattenSeq(Pieces(ps))
<1>1. PICK n \in Nat : n = Len(ps) /\ DOMAIN ps = 1..n /\ \A i \in 1..n : ps[i] \in ParamFields /\ IsParam(ps[i])
  OBVIOUS
<1> DEFINE sign(i) == IF i = 1 THEN <<QuestionMark>> ELSE <<Ampersand>>
<1>2. ASSUME NEW i \in 1..n
      PROVE  /\ ParamText(ps[i]) \in Strings(Nat) /\ Free(ParamText(ps[i]), {Blank})
             /\ sign(i) \o ParamText(ps[i]) \in Strings(Nat)
             /\ Free(sign(i) \o ParamText(ps[i]), {Blank})
             /\ Len(sign(i) \o ParamText(ps[i])) > 0
  <2>1. ParamText(ps[i]) \in Strings(Nat) /\ Free(ParamText(ps[i]), {Ampersand, Blank})
    BY <1>1, ParamParts
  <2>2. Free(ParamText(ps[i]), {Blank})
    BY <2>1 DEF Free
  <2>3. PICK s \in Strings(Nat) : s = sign(i) /\ Free(s, {Blank}) /\ Len(s) = 1
    <3>1. sign(i) \in Strings(Nat) /\ Free(sign(i), {Blank}) /\ Len(sign(i)) = 1
      BY DEF Strings, Free, Ampersand, Blank, QuestionMark
    <3> HIDE DEF sign
    <3> QED  BY <3>1
  <2> HIDE DEF sign
  <2>4. PICK t \in Strings(Nat) : t = ParamText(ps[i])
    BY <2>1
  <2>5. s \o t \in Strings(Nat) /\ Free(s \o t, {Blank}) /\ Joined(s, t)
    BY <2>2, <2>3, <2>4, JoinFree, Joins, Joining
  <2>6. Len(s \o t) > 0
    BY ONLY <2>3, <2>5 DEF Joined
  <2> QED  BY <2>1, <2>2, <2>3, <2>4, <2>5, <2>6
<1>3. Pieces(ps) \in Seq(Strings(Nat)) /\ Len(Pieces(ps)) = n /\ \A i \in 1..n : Pieces(ps)[i] = sign(i) \o ParamText(ps[i])
  BY <1>1, <1>2 DEF Pieces
<1>4. Query(ps) = FlattenSeq(Pieces(ps))
  BY DEF Query, Pieces
<1> QED  BY <1>1, <1>2, <1>3, <1>4

\* A query begins with its question mark and holds no blank.
LEMMA QueryText ==
    ASSUME NEW ps \in Seq(ParamFields), \A i \in DOMAIN ps : IsParam(ps[i])
    PROVE  /\ Query(ps) \in Strings(Nat) /\ Free(Query(ps), {Blank})
           /\ ps = <<>> => Query(ps) = <<>>
           /\ ps # <<>> => Len(Query(ps)) > 0 /\ Query(ps)[1] = QuestionMark
<1>1. /\ Pieces(ps) \in Seq(Strings(Nat)) /\ Len(Pieces(ps)) = Len(ps) /\ Len(ps) \in Nat
      /\ \A i \in 1..Len(ps) :
           /\ ParamText(ps[i]) \in Strings(Nat)
           /\ Pieces(ps)[i] = (IF i = 1 THEN <<QuestionMark>> ELSE <<Ampersand>>) \o ParamText(ps[i])
           /\ Free(Pieces(ps)[i], {Blank}) /\ Len(Pieces(ps)[i]) > 0
      /\ Query(ps) = FlattenSeq(Pieces(ps))
  BY PieceTexts
<1>2. Query(ps) \in Strings(Nat) /\ Free(Query(ps), {Blank})
  BY <1>1, FlattenFree
<1>3. ASSUME ps = <<>> PROVE Query(ps) = <<>>
  <2>1. First(Pieces(ps), 0) = <<>> /\ First(Pieces(ps), Len(Pieces(ps))) = FlattenSeq(Pieces(ps))
    BY <1>1, FirstSteps
  <2>2. Len(ps) = 0
    BY <1>3
  <2> QED  BY <1>1, <2>1, <2>2
<1>4. ASSUME ps # <<>> PROVE Len(Query(ps)) > 0 /\ Query(ps)[1] = QuestionMark
  <2>1. Len(ps) > 0 /\ 1 \in 1..Len(ps)
    BY <1>1, <1>4
  <2>2. Pieces(ps)[1] = <<QuestionMark>> \o ParamText(ps[1]) /\ Len(Pieces(ps)[1]) > 0
    BY <1>1, <2>1
  <2>3. Joined(<<QuestionMark>>, ParamText(ps[1]))
    <3>1. <<QuestionMark>> \in Strings(Nat)
      BY DEF Strings, QuestionMark
    <3> QED  BY <1>1, <2>1, <3>1, Joining
  <2>4. Len(<<QuestionMark>>) = 1 /\ <<QuestionMark>>[1] = QuestionMark /\ 1 \in 1..1
    OBVIOUS
  <2>5. Pieces(ps)[1][1] = QuestionMark
    BY ONLY <2>2, <2>3, <2>4 DEF Joined
  <2>6. Len(FlattenSeq(Pieces(ps))) > 0 /\ FlattenSeq(Pieces(ps))[1] = Pieces(ps)[1][1]
    BY <1>1, <2>1, <2>2, FlattenBegins
  <2> QED  BY <1>1, <2>5, <2>6
<1> QED  BY <1>2, <1>3, <1>4

-----------------------------------------------------------------------------
(* The message is taken apart *)

Target(r) == EncodedPath(r.path) \o Query(r.params)

\* What WellFormed says of one request.
LEMMA RequestParts ==
    ASSUME NEW r \in Requests
    PROVE  /\ r.method \in Nat /\ r.method \notin WhiteSpace
           /\ r.version \in Nat /\ r.version \notin {Return, LineFeed}
           /\ r.path \in Seq(Nat) /\ r.path # <<>>
           /\ r.params \in Seq(ParamFields) /\ \A i \in DOMAIN r.params : IsParam(r.params[i])
           /\ r.headers \in Seq(HeaderFields) /\ \A i \in DOMAIN r.headers : IsHeader(r.headers[i])
<1>1. /\ r.method \in Nat /\ r.method \notin WhiteSpace
      /\ r.version \in Nat /\ r.version \notin {Return, LineFeed}
      /\ r.path \in Seq(Byte) /\ r.path # <<>>
      /\ r.params \in Seq(ParamFields) /\ \A i \in DOMAIN r.params : IsParam(r.params[i])
      /\ r.headers \in Seq(HeaderFields) /\ \A i \in DOMAIN r.headers : IsHeader(r.headers[i])
  BY WellFormed DEF Units
<1>2. Byte \subseteq Nat
  BY DEF Byte
<1> QED  BY <1>1, <1>2, WiderSeq

\* The target of a request line.
LEMMA TargetText ==
    ASSUME NEW r \in Requests
    PROVE  /\ EncodedPath(r.path) \in Strings(Nat) /\ Free(EncodedPath(r.path), {QuestionMark})
           /\ Query(r.params) \in Strings(Nat)
           /\ Target(r) \in Strings(Nat) /\ Free(Target(r), {Blank})
           /\ Len(Target(r)) > 0 /\ Target(r)[1] # Blank
<1>1. PICK p \in Strings(Nat) : /\ p = EncodedPath(r.path) /\ Free(p, {Blank, QuestionMark})
                                /\ Len(p) > 0 /\ p[1] # Blank
  BY RequestParts, PathEncoded
<1>2. PICK q \in Strings(Nat) : q = Query(r.params) /\ Free(q, {Blank})
  BY RequestParts, QueryText
<1>3. Free(p, {Blank}) /\ Free(p, {QuestionMark})
  BY <1>1 DEF Free
<1>4. p \o q \in Strings(Nat) /\ Free(p \o q, {Blank}) /\ Joined(p, q)
  BY <1>2, <1>3, JoinFree, Joins, Joining
<1>5. Len(p \o q) > 0 /\ (p \o q)[1] = p[1]
  BY ONLY <1>1, <1>4 DEF Joined
<1> QED  BY <1>1, <1>2, <1>3, <1>4, <1>5 DEF Target

\* What the parser sees of a request: its last byte is overwritten.
LEMMA MessageText ==
    ASSUME NEW r \in Requests
    PROVE  SubSeq(Message(r), 1, Len(Message(r)) - 1)
             = <<r.method>> \o (<<Blank>> \o (Target(r) \o (<<Blank>> \o
                  (<<Http, r.version>> \o (CrLf \o Ahead(r.headers, 0))))))
<1>1. \A s \in Strings(Nat), t \in Strings(Nat) : s \o t \in Strings(Nat)
  BY Joins
<1>2. PICK p \in Strings(Nat), q \in Strings(Nat) : p = EncodedPath(r.path) /\ q = Query(r.params)
  BY TargetText
<1>3. PICK f \in Strings(Nat) : f = FlattenSeq(Lines(r.headers)) /\ Ahead(r.headers, 0) = f \o <<Return>>
  <2>1. /\ Lines(r.headers) \in Seq(Strings(Nat)) /\ 0 \in 0..Len(r.headers)
        /\ Rest(Lines(r.headers), 0) \in Strings(Nat)
    BY RequestParts, LinesType
  <2>2. Rest(Lines(r.headers), 0) = FlattenSeq(Lines(r.headers))
    BY <2>1, RestSteps
  <2> QED  BY <2>1, <2>2 DEF Ahead
<1> DEFINE m == <<r.method>>
           b == <<Blank>>
           mb == <<r.method, Blank>>
           h == <<Http, r.version>>
           v == <<Blank, Http, r.version>>
           c == <<Return>>
           l == <<LineFeed>>
           e == CrLf
<1>4. /\ m \in Strings(Nat) /\ b \in Strings(Nat) /\ mb \in Strings(Nat) /\ h \in Strings(Nat)
      /\ v \in Strings(Nat) /\ c \in Strings(Nat) /\ l \in Strings(Nat) /\ e \in Strings(Nat)
      /\ Len(l) = 1
  <2>1. /\ r.method \in Nat /\ r.version \in Nat /\ Http \in Nat /\ Blank \in Nat
        /\ Return \in Nat /\ LineFeed \in Nat
    BY RequestParts DEF Http, Blank, Return, LineFeed
  <2> QED  BY <2>1, Tuples DEF CrLf
<1>5. mb = m \o b /\ v = b \o h /\ e = c \o l
  <2>1. /\ r.method \in Nat /\ r.version \in Nat /\ Http \in Nat /\ Blank \in Nat
    BY RequestParts DEF Http, Blank
  <2>2. v = b \o h
    BY <2>1, OneAndTwo
  <2>3. mb = m \o b
    OBVIOUS
  <2>4. e = c \o l
    BY DEF CrLf
  <2> QED  BY <2>2, <2>3, <2>4
<1>6. Message(r) = mb \o p \o q \o v \o e \o f \o e
  BY <1>2, <1>3 DEF Message, Lines
<1> HIDE DEF m, b, mb, h, v, c, l, e
<1> DEFINE w == mb \o p \o q
           z == w \o v
           y == z \o e
           x == y \o f
           u == x \o c
<1>7. /\ w \in Strings(Nat) /\ z \in Strings(Nat) /\ y \in Strings(Nat) /\ x \in Strings(Nat)
      /\ u \in Strings(Nat)
  BY <1>1, <1>4
<1>8. Message(r) = x \o e
  BY <1>6
<1> HIDE DEF w, z, y, x, u
<1>9. Message(r) = u \o l
  <2>1. Grouped(x, c, l)
    BY <1>4, <1>7, Grouping
  <2> QED  BY ONLY <2>1, <1>5, <1>8 DEF Grouped, u
<1>10. SubSeq(Message(r), 1, Len(Message(r)) - 1) = u
  <2>1. SubSeq(u \o l, 1, Len(u)) = u
    BY <1>4, <1>7, JoinParts
  <2>2. Joined(u, l)
    BY <1>4, <1>7, Joining
  <2>3. Len(u \o l) - 1 = Len(u)
    BY ONLY <2>2, <1>4 DEF Joined
  <2> QED  BY ONLY <1>9, <2>1, <2>3
<1> DEFINE a == f \o c
           ea == e \o a
           hea == h \o ea
           vea == v \o ea
           t == p \o q
           tvea == t \o vea
<1>11. /\ a \in Strings(Nat) /\ ea \in Strings(Nat) /\ hea \in Strings(Nat) /\ vea \in Strings(Nat)
       /\ t \in Strings(Nat) /\ tvea \in Strings(Nat)
  BY <1>1, <1>4
<1> HIDE DEF a, ea, hea, vea, t, tvea
<1>12. /\ Grouped(y, f, c) /\ Grouped(z, e, a) /\ Grouped(w, v, ea) /\ Grouped(mb, p, q)
       /\ Grouped(mb, t, vea) /\ Grouped(m, b, tvea) /\ Grouped(b, h, ea)
  BY <1>4, <1>7, <1>11, Grouping
<1>13. u = y \o a /\ y \o a = z \o ea /\ z \o ea = w \o vea /\ w = mb \o t
  BY ONLY <1>12 DEF Grouped, u, x, y, z, w, a, ea, vea, t
<1>14. (mb \o t) \o vea = mb \o tvea /\ mb \o tvea = m \o (b \o tvea) /\ vea = b \o hea
  BY ONLY <1>5, <1>12 DEF Grouped, tvea, vea, hea
<1>15. u = m \o (b \o (t \o (b \o hea)))
  BY ONLY <1>13, <1>14 DEF tvea
<1>16. t = Target(r) /\ hea = <<Http, r.version>> \o (CrLf \o Ahead(r.headers, 0))
  BY ONLY <1>2, <1>3 DEF Target, t, hea, ea, a, e, c, h
<1> QED  BY ONLY <1>10, <1>15, <1>16 DEF m, b

\* Nothing is skipped where no white space stands.
LEMMA NoSpaceAhead ==
    ASSUME NEW s \in Strings(Nat), Len(s) > 0, s[1] \notin WhiteSpace
    PROVE  SkipSpace(s) = s
<1>1. PICK n \in Nat : n = Len(s) /\ n > 0 /\ DOMAIN s = 1..n /\ s \in Seq(Nat)
  BY DEF Strings
<1> DEFINE M == {n + 1} \cup {i \in DOMAIN s : s[i] \notin WhiteSpace}
<1>2. M \in SUBSET Int /\ 1 \in M /\ \A y \in M : 1 <= y
  BY <1>1
<1> HIDE DEF M
<1>3. Min(M) = 1
  BY <1>2, MinIs
<1>4. SubSeq(s, 1, n) = s
  BY <1>1
<1> QED  BY <1>1, <1>3, <1>4 DEF SkipSpace, M

\* What parse_http_message makes of a request.
Read(r) ==
    [accepted |-> TRUE, method |-> r.method, version |-> <<r.version>>,
     uri |-> ParseTarget(Target(r)).uri, hasQuery |-> ParseTarget(Target(r)).hasQuery,
     query |-> ParseTarget(Target(r)).query,
     headers |-> Got(r.headers, Min({MaxHeaders, Len(r.headers)}))]

\* Opaque, as Grouped is.
Skipped(w, d, r, D) == Skip(w \o (d \o r), D) = [word |-> w, rest |-> r]

\* The definition for all words.
LEMMA Skipping ==
    ASSUME NEW S, NEW w \in Strings(S), NEW d \in Strings(S), NEW r \in Strings(S), NEW D,
           Free(w, D), Only(d, D), d # <<>>, r # <<>> => r[1] \notin D
    PROVE  Skipped(w, d, r, D)
  BY SkipWord DEF Skipped

\* parse_http_message takes the message apart where the client put it together.
LEMMA MessageParsed ==
    ASSUME NEW r \in Requests
    PROVE  ParseHttpMessage(Message(r)) = IF r.method \in {Get, Post, Put} THEN Read(r) ELSE NotAccepted
<1>1. \A s \in Strings(Nat), t \in Strings(Nat) : s \o t \in Strings(Nat)
  BY Joins
<1>2. /\ r.method \in Nat /\ r.method \notin WhiteSpace /\ r.version \in Nat
      /\ r.version \notin {Return, LineFeed}
      /\ r.headers \in Seq(HeaderFields) /\ \A i \in DOMAIN r.headers : IsHeader(r.headers[i])
  BY RequestParts
<1>3. PICK t \in Strings(Nat) : t = Target(r) /\ Free(t, {Blank}) /\ Len(t) > 0 /\ t[1] # Blank
  BY TargetText
<1> DEFINE m == <<r.method>>
           b == <<Blank>>
           h == <<Http, r.version>>
           ea == CrLf \o Ahead(r.headers, 0)
           hea == h \o ea
           bhea == b \o hea
           rest == t \o bhea
           buf == m \o (b \o rest)
<1>4. /\ m \in Strings(Nat) /\ b \in Strings(Nat) /\ h \in Strings(Nat)
      /\ Len(m) = 1 /\ m[1] = r.method /\ Free(m, {Blank})
      /\ b # <<>> /\ Only(b, {Blank})
      /\ Len(h) = 2 /\ h[1] = Http /\ Free(h, {Return, LineFeed})
  <2>1. Http \in Nat /\ Blank \in Nat /\ Http \notin {Return, LineFeed}
    BY DEF Http, Blank, Return, LineFeed
  <2>2. /\ <<r.method>> \in Strings(Nat) /\ <<Blank>> \in Strings(Nat) /\ <<Http, r.version>> \in Strings(Nat)
        /\ Len(<<r.method>>) = 1 /\ <<r.method>>[1] = r.method
        /\ Len(<<Http, r.version>>) = 2 /\ <<Http, r.version>>[1] = Http
    BY <1>2, <2>1, Tuples
  <2>3. Free(<<r.method>>, {Blank}) /\ <<Blank>> # <<>> /\ Only(<<Blank>>, {Blank})
    BY <1>2 DEF Free, Only, WhiteSpace
  <2>4. Free(<<Http, r.version>>, {Return, LineFeed})
    BY <1>2, <2>1 DEF Free
  <2> QED  BY <2>2, <2>3, <2>4
<1>5. IsValidHttpMethod(m) <=> r.method \in {Get, Post, Put}
  BY DEF IsValidHttpMethod
<1>6. StartsWith(h, Http) /\ Tail(h) = <<r.version>>
  BY <1>2 DEF StartsWith, Http
<1>7. SubSeq(Message(r), 1, Len(Message(r)) - 1) = buf
  BY <1>3, MessageText
<1> HIDE DEF m, b, h, ea, hea, bhea, rest, buf
<1>8. ea \in Strings(Nat)
  <2>1. Ahead(r.headers, 0) \in Strings(Nat) /\ CrLf \in Strings(Nat)
    <3>1. 0 \in 0..Len(r.headers)
      BY <1>2
    <3> QED  BY <1>2, <3>1, LinesType, Units1
  <2> QED  BY <2>1, <1>1 DEF ea
<1>9. /\ hea \in Strings(Nat) /\ bhea \in Strings(Nat) /\ rest \in Strings(Nat)
       /\ b \o rest \in Strings(Nat) /\ buf \in Strings(Nat)
  BY <1>1, <1>4, <1>8 DEF hea, bhea, rest, buf
<1>10. SkipSpace(buf) = buf
  <2>1. Joined(m, b \o rest)
    BY <1>4, <1>9, Joining
  <2>2. Len(buf) > 0 /\ buf[1] = r.method
    BY ONLY <1>4, <2>1 DEF Joined, buf
  <2> QED  BY <2>2, <1>2, <1>9, NoSpaceAhead
<1>11. Skip(buf, {Blank}) = [word |-> m, rest |-> rest]
  <2>1. rest[1] \notin {Blank}
    <3>1. Joined(t, bhea)
      BY <1>9, Joining
    <3>2. rest[1] = t[1]
      BY ONLY <1>3, <3>1 DEF Joined, rest
    <3> QED  BY <3>2, <1>3
  <2>2. Skipped(m, b, rest, {Blank})
    BY <2>1, <1>4, <1>9, Skipping
  <2> QED  BY ONLY <2>2 DEF Skipped, buf
<1>12. Skip(rest, {Blank}) = [word |-> t, rest |-> hea]
  <2>1. hea[1] \notin {Blank}
    <3>1. Joined(h, ea)
      BY <1>4, <1>8, Joining
    <3>2. hea[1] = Http
      BY ONLY <1>4, <3>1 DEF Joined, hea
    <3> QED  BY <3>2 DEF Http, Blank
  <2>2. Skipped(t, b, hea, {Blank})
    BY <2>1, <1>3, <1>4, <1>9, Skipping
  <2> QED  BY ONLY <2>2 DEF Skipped, rest, bhea
<1>13. Skip(hea, {Return, LineFeed}) = [word |-> h, rest |-> RestOf(r.headers, 0)]
  <2>1. 0 \in 0..Len(r.headers)
    BY <1>2
  <2>2. Skip(h \o (CrLf \o Ahead(r.headers, 0)), {Return, LineFeed}) = [word |-> h, rest |-> RestOf(r.headers, 0)]
    BY <1>2, <1>4, <2>1, LineRead
  <2> QED  BY ONLY <2>2 DEF hea, ea
<1>14. ParseHeaders(RestOf(r.headers, 0)) = Got(r.headers, Min({MaxHeaders, Len(r.headers)}))
  BY <1>2, HeadersParsed
<1> DEFINE method == Skip(SkipSpace(SubSeq(Message(r), 1, Len(Message(r)) - 1)), {Blank})
           target == Skip(method.rest, {Blank})
           version == Skip(target.rest, {Return, LineFeed})
<1>15. method.word = m /\ method.rest = rest
  <2>1. method = Skip(SkipSpace(buf), {Blank})
    BY ONLY <1>7 DEF method
  <2>2. method = [word |-> m, rest |-> rest]
    BY ONLY <2>1, <1>10, <1>11
  <2> HIDE DEF method
  <2> QED  BY ONLY <2>2
<1> HIDE DEF method
<1>16. target.word = t /\ target.rest = hea
  BY ONLY <1>12, <1>15 DEF target
<1> HIDE DEF target
<1>17. version.word = h /\ version.rest = RestOf(r.headers, 0)
  BY ONLY <1>13, <1>16 DEF version
<1> HIDE DEF version
<1>18. ParseHttpMessage(Message(r)) =
         IF IsValidHttpMethod(method.word) /\ StartsWith(version.word, Http)
         THEN [accepted |-> TRUE, method |-> method.word[1], version |-> Tail(version.word),
               uri |-> ParseTarget(target.word).uri, hasQuery |-> ParseTarget(target.word).hasQuery,
               query |-> ParseTarget(target.word).query, headers |-> ParseHeaders(version.rest)]
         ELSE NotAccepted
  BY ONLY DEF ParseHttpMessage, method, target, version
<1>19. ParseHttpMessage(Message(r)) =
         IF IsValidHttpMethod(m) /\ StartsWith(h, Http)
         THEN [accepted |-> TRUE, method |-> m[1], version |-> Tail(h),
               uri |-> ParseTarget(t).uri, hasQuery |-> ParseTarget(t).hasQuery,
               query |-> ParseTarget(t).query, headers |-> ParseHeaders(RestOf(r.headers, 0))]
         ELSE NotAccepted
  BY ONLY <1>15, <1>16, <1>17, <1>18
<1> QED  BY ONLY <1>3, <1>4, <1>5, <1>6, <1>14, <1>19 DEF Read

\* mg_strcasecmp tells names apart as SameLetters does.
LEMMA SameNameIs ==
    ASSUME NEW s \in Seq(Nat), NEW t \in Seq(Nat)
    PROVE  SameName(t, s) <=> SameLetters(s, t)
<1>1. ASSUME NEW a \in Nat, NEW b \in Nat
      PROVE  Lower(b) = Lower(a) <=> a = b \/ \E c \in Uppers : {a, b} = {c, c + 32}
  <2>1. ASSUME NEW c \in Uppers, {a, b} = {c, c + 32} PROVE Lower(b) = Lower(a)
    <3>1. (a = c /\ b = c + 32) \/ (b = c /\ a = c + 32)
      BY <2>1 DEF Uppers
    <3>2. Lower(c) = c + 32 /\ Lower(c + 32) = c + 32
      BY DEF Lower, Uppers
    <3> QED  BY <3>1, <3>2
  <2>2. ASSUME Lower(b) = Lower(a), a # b PROVE \E c \in Uppers : {a, b} = {c, c + 32}
    <3>1. (a \in Uppers /\ b = a + 32) \/ (b \in Uppers /\ a = b + 32)
      BY <2>2 DEF Lower, Uppers
    <3> QED  BY <3>1
  <2> QED  BY <2>1, <2>2
<1>2. ASSUME Len(s) = Len(t), NEW i \in DOMAIN s
      PROVE  Lower(t[i]) = Lower(s[i]) <=> s[i] = t[i] \/ \E c \in Uppers : {s[i], t[i]} = {c, c + 32}
  <2>1. s[i] \in Nat /\ t[i] \in Nat
    BY <1>2
  <2> QED  BY <1>1, <2>1
<1>3. Len(s) = Len(t) => DOMAIN s = DOMAIN t
  OBVIOUS
<1> QED  BY <1>2, <1>3 DEF SameName, SameLetters

\* A set of numbers with a bound below it has a least one.
LEMMA LeastOf ==
    ASSUME NEW S \in SUBSET Nat, S # {}
    PROVE  Min(S) \in S /\ \A x \in S : Min(S) <= x
<1>1. IsWellFoundedOn(Smaller, Nat)
  BY NatLessThanWellFounded DEF Smaller
<1>2. PICK x \in S : \A y \in S : <<y, x>> \notin Smaller
  BY <1>1, WFMin
<1>3. ASSUME NEW y \in S PROVE x <= y
  <2>1. x \in Nat /\ y \in Nat
    OBVIOUS
  <2>2. ~(y < x)
    BY <1>2, <2>1 DEF Smaller, OpToRel
  <2> QED  BY <2>1, <2>2
<1>4. S \in SUBSET Int
  OBVIOUS
<1>5. Min(S) = x
  BY <1>3, <1>4, MinIs
<1> QED  BY <1>3, <1>5

\* The lesser of two numbers.
LEMMA LesserOf ==
    ASSUME NEW a \in Nat, NEW b \in Nat
    PROVE  /\ Min({a, b}) \in Nat /\ Min({a, b}) <= a /\ Min({a, b}) <= b
           /\ Min({a, b}) = IF a <= b THEN a ELSE b
<1>1. CASE a <= b
  <2>1. Min({a, b}) = a
    BY <1>1, MinIs
  <2> QED  BY <1>1, <2>1
<1>2. CASE ~(a <= b)
  <2>1. Min({a, b}) = b
    BY <1>2, MinIs
  <2> QED  BY <1>2, <2>1
<1> QED  BY <1>1, <1>2

\* What mg_get_header finds among the headers of a request.
LEMMA HeaderFound ==
    ASSUME NEW hs \in Seq(HeaderFields), NEW k \in 0..Len(hs), NEW name \in Seq(Nat)
    PROVE  LET heard == {i \in 1..k : SameLetters(hs[i].name, name)}
           IN  GetHeader(Got(hs, k), name) =
                   IF heard = {} THEN Absent ELSE [present |-> TRUE, value |-> hs[Min(heard)].value]
<1> DEFINE heard == {i \in 1..k : SameLetters(hs[i].name, name)}
           found == {i \in DOMAIN Got(hs, k) : SameName(name, Got(hs, k)[i].name)}
<1>1. k \in Nat /\ \A i \in 1..k : hs[i] \in HeaderFields
  OBVIOUS
<1>2. /\ DOMAIN Got(hs, k) = 1..k
      /\ \A i \in 1..k : Got(hs, k)[i].name = hs[i].name /\ Got(hs, k)[i].value = hs[i].value
  BY DEF Got, Heard
<1>3. ASSUME NEW i \in 1..k PROVE SameName(name, Got(hs, k)[i].name) <=> SameLetters(hs[i].name, name)
  <2>1. hs[i].name \in Seq(Nat) /\ Got(hs, k)[i].name = hs[i].name
    BY <1>1, <1>2 DEF HeaderFields, Units
  <2> QED  BY <2>1, SameNameIs
<1>4. found = heard
  BY <1>2, <1>3
<1>5. GetHeader(Got(hs, k), name) = IF found = {} THEN Absent
                                    ELSE [present |-> TRUE, value |-> Got(hs, k)[Min(found)].value]
  BY DEF GetHeader
<1>6. ASSUME heard # {} PROVE Got(hs, k)[Min(heard)].value = hs[Min(heard)].value
  <2> HIDE DEF heard
  <2>1. heard \in SUBSET Nat /\ heard \subseteq 1..k
    BY <1>1 DEF heard
  <2>2. Min(heard) \in heard
    BY <1>6, <2>1, LeastOf
  <2> QED  BY <1>2, <2>1, <2>2
<1> HIDE DEF found, heard
<1>7. GetHeader(Got(hs, k), name) = IF heard = {} THEN Absent ELSE [present |-> TRUE, value |-> hs[Min(heard)].value]
  BY ONLY <1>4, <1>5, <1>6
<1> QED  BY <1>7 DEF heard

-----------------------------------------------------------------------------
(* The header is found to end where it does *)

\* The bytes that isprint refuses below 128.
Unprintable == 0..31 \cup {127}

\* What is joined is free of units when its parts are.
LEMMA JoinFreeParts ==
    ASSUME NEW S, NEW s \in Strings(S), NEW t \in Strings(S), NEW D
    PROVE  Free(s \o t, D) <=> Free(s, D) /\ Free(t, D)
<1>1. Free(s, D) /\ Free(t, D) => Free(s \o t, D)
  BY JoinFree
<1>2. ASSUME Free(s \o t, D) PROVE Free(s, D) /\ Free(t, D)
  <2>1. PICK u : u = s \o t /\ Free(u, D)
    BY <1>2
  <2>2. /\ Len(s) \in Nat /\ Len(t) \in Nat /\ DOMAIN u = 1..(Len(s) + Len(t))
        /\ \A i \in 1..Len(s) : u[i] = s[i]
        /\ \A i \in 1..Len(t) : u[Len(s) + i] = t[i]
    <3>1. Joined(s, t)
      BY Joining
    <3> QED  BY ONLY <2>1, <3>1 DEF Joined
  <2>3. DOMAIN s = 1..Len(s) /\ DOMAIN t = 1..Len(t)
    BY DEF Strings
  <2>4. ASSUME NEW i \in 1..Len(s) PROVE s[i] \notin D
    <3>1. i \in DOMAIN u
      BY <2>2
    <3> QED  BY <2>1, <2>2, <3>1 DEF Free
  <2>5. ASSUME NEW i \in 1..Len(t) PROVE t[i] \notin D
    <3>1. Len(s) + i \in DOMAIN u
      BY <2>2
    <3> QED  BY <2>1, <2>2, <3>1 DEF Free
  <2> QED  BY <2>3, <2>4, <2>5 DEF Free
<1> QED  BY <1>1, <1>2

\* Also when the parts are many.
LEMMA FlattenFreeParts ==
    ASSUME NEW S, NEW seqs \in Seq(Strings(S)), NEW D
    PROVE  /\ FlattenSeq(seqs) \in Strings(S)
           /\ Free(FlattenSeq(seqs), D) <=> \A i \in 1..Len(seqs) : Free(seqs[i], D)
<1>1. PICK n \in Nat : n = Len(seqs) /\ n \in 0..n /\ \A i \in 1..n : seqs[i] \in Strings(S)
  OBVIOUS
<1>2. /\ First(seqs, n) = FlattenSeq(seqs)
      /\ \A i \in 0..n : First(seqs, i) \in Strings(S)
      /\ \A i \in 1..n : First(seqs, i) = First(seqs, i - 1) \o seqs[i]
  BY <1>1, FirstSteps
<1>3. ASSUME \A i \in 1..n : Free(seqs[i], D) PROVE Free(FlattenSeq(seqs), D)
  BY <1>1, <1>3, FlattenFree
<1>4. ASSUME Free(FlattenSeq(seqs), D) PROVE \A i \in 1..n : Free(seqs[i], D)
  <2> DEFINE E == {i \in 0..n : Free(First(seqs, i), D)}
  <2>1. n \in E
    BY <1>1, <1>2, <1>4
  <2>2. ASSUME NEW i \in 1..n, Free(First(seqs, i), D)
        PROVE  Free(First(seqs, i - 1), D) /\ Free(seqs[i], D)
    <3>1. i - 1 \in 0..n
      BY <1>1
    <3>2. First(seqs, i - 1) \in Strings(S) /\ seqs[i] \in Strings(S)
      BY <3>1, <1>1, <1>2
    <3>3. Free(First(seqs, i - 1) \o seqs[i], D)
      BY <1>2, <2>2
    <3> QED  BY <3>2, <3>3, JoinFreeParts
  <2>3. ASSUME NEW i \in 1..n, i \in E PROVE i - 1 \in E
    <3>1. i - 1 \in 0..n
      BY <1>1
    <3> QED  BY <2>2, <2>3, <3>1
  <2>4. \A i \in 1..n : i \in E => Free(seqs[i], D)
    BY <2>2
  <2> HIDE DEF E
  <2>5. 0..n \subseteq E
    BY <2>1, <2>3, DownFrom
  <2>6. \A i \in 1..n : i \in 0..n
    OBVIOUS
  <2> QED  BY <2>4, <2>5, <2>6
<1>5. FlattenSeq(seqs) \in Strings(S)
  BY <1>1, <1>2
<1> QED  BY <1>1, <1>3, <1>4, <1>5

\* Lines, none of which is empty.
Whole(s) ==
    /\ \A i \in DOMAIN s : i = 1 \/ s[i - 1] = LineFeed => s[i] \notin {Return, LineFeed}
    /\ s # <<>> => s[Len(s)] = LineFeed

\* One line.
LEMMA WholeLine ==
    ASSUME NEW w \in Strings(Nat), w # <<>>, Free(w, {Return, LineFeed})
    PROVE  /\ w \o CrLf \in Strings(Nat) /\ w \o CrLf # <<>> /\ Whole(w \o CrLf)
<1>1. PICK n \in Nat : n = Len(w) /\ n > 0 /\ DOMAIN w = 1..n
  BY DEF Strings
<1>2. \A i \in 1..n : w[i] # Return /\ w[i] # LineFeed
  BY <1>1 DEF Free
<1>3. /\ CrLf \in Strings(Nat) /\ Len(CrLf) = 2 /\ CrLf[1] = Return /\ CrLf[2] = LineFeed
  BY Units1
<1>4. PICK u \in Strings(Nat) : u = w \o CrLf
  BY <1>3, Joins
<1>5. /\ Len(u) = n + 2 /\ DOMAIN u = 1..(n + 2) /\ \A i \in 1..n : u[i] = w[i]
      /\ u[n + 1] = Return /\ u[n + 2] = LineFeed
  <2>1. Joined(w, CrLf)
    BY <1>3, Joining
  <2>2. 1 \in 1..2 /\ 2 \in 1..2
    OBVIOUS
  <2> QED  BY ONLY <1>1, <1>3, <1>4, <2>1, <2>2 DEF Joined
<1>6. Return # LineFeed
  BY DEF Return, LineFeed
<1>7. ASSUME NEW i \in 1..(n + 2), i = 1 \/ u[i - 1] = LineFeed PROVE i \in 1..n
  <2>1. 1 \in 1..n
    BY <1>1
  <2>2. CASE i = n + 1
    <3>1. n \in 1..n /\ i - 1 = n
      BY <1>1, <2>2
    <3> QED  BY <3>1, <2>2, <1>1, <1>2, <1>5, <1>7
  <2>3. CASE i = n + 2
    <3>1. i - 1 = n + 1 /\ i # 1
      BY <2>3
    <3> QED  BY <3>1, <1>5, <1>6, <1>7
  <2>4. CASE i \in 1..n
    BY <2>4
  <2> QED  BY <1>1, <2>2, <2>3, <2>4
<1>8. \A i \in 1..(n + 2) : i = 1 \/ u[i - 1] = LineFeed => u[i] \notin {Return, LineFeed}
  BY <1>2, <1>5, <1>7
<1>9. u # <<>> /\ Whole(u)
  BY <1>5, <1>8 DEF Whole
<1> QED  BY <1>4, <1>9

\* Lines behind lines.
LEMMA WholeJoin ==
    ASSUME NEW s \in Strings(Nat), NEW t \in Strings(Nat), Whole(s), Whole(t)
    PROVE  Whole(s \o t)
<1>1. PICK m \in Nat, n \in Nat : /\ m = Len(s) /\ n = Len(t) /\ DOMAIN s = 1..m /\ DOMAIN t = 1..n
                                  /\ (m = 0 => s = <<>>) /\ (n = 0 => t = <<>>)
  BY NoLength DEF Strings
<1>2. PICK u \in Strings(Nat) : u = s \o t
  BY Joins
<1>3. /\ Len(u) = m + n /\ DOMAIN u = 1..(m + n)
      /\ \A i \in 1..m : u[i] = s[i]
      /\ \A i \in 1..n : u[m + i] = t[i]
  <2>1. Joined(s, t)
    BY Joining
  <2> QED  BY ONLY <1>1, <1>2, <2>1 DEF Joined
<1>4. /\ \A i \in 1..m : i = 1 \/ s[i - 1] = LineFeed => s[i] \notin {Return, LineFeed}
      /\ s # <<>> => s[m] = LineFeed
  BY ONLY <1>1, Whole(s) DEF Whole
<1>5. /\ \A i \in 1..n : i = 1 \/ t[i - 1] = LineFeed => t[i] \notin {Return, LineFeed}
      /\ t # <<>> => t[n] = LineFeed
  BY ONLY <1>1, Whole(t) DEF Whole
<1>6. ASSUME NEW i \in 1..(m + n), i = 1 \/ u[i - 1] = LineFeed PROVE u[i] \notin {Return, LineFeed}
  <2>1. CASE i <= m
    <3>1. i \in 1..m /\ (i = 1 \/ i - 1 \in 1..m)
      BY <2>1
    <3> QED  BY <3>1, <1>3, <1>4, <1>6
  <2>2. CASE ~(i <= m)
    <3>1. PICK j \in 1..n : i = m + j
      <4>1. i - m \in 1..n /\ i = m + (i - m)
        BY <2>2
      <4> QED  BY <4>1
    <3>2. u[i] = t[j]
      BY <1>3, <3>1
    <3>3. CASE j = 1
      BY <1>5, <3>2, <3>3
    <3>4. CASE j # 1
      <4>1. j - 1 \in 1..n /\ i - 1 = m + (j - 1) /\ i # 1
        BY <3>1, <3>4
      <4>2. u[i - 1] = t[j - 1]
        BY <1>3, <4>1
      <4> QED  BY <1>5, <1>6, <3>2, <4>1, <4>2
    <3> QED  BY <3>3, <3>4
  <2> QED  BY <2>1, <2>2
<1>7. ASSUME u # <<>> PROVE u[m + n] = LineFeed
  <2>1. CASE n = 0
    <3>1. u = s
      BY <1>1, <1>2, <2>1, Joins
    <3> QED  BY <1>4, <1>7, <2>1, <3>1
  <2>2. CASE n # 0
    <3>1. n \in 1..n /\ t # <<>>
      BY <1>1, <2>2
    <3> QED  BY <1>3, <1>5, <3>1
  <2> QED  BY <2>1, <2>2
<1>8. Whole(u)
  BY <1>3, <1>6, <1>7 DEF Whole
<1> QED  BY <1>2, <1>8

\* Many of them.
LEMMA WholeFlatten ==
    ASSUME NEW seqs \in Seq(Strings(Nat)), \A i \in 1..Len(seqs) : Whole(seqs[i])
    PROVE  Whole(FlattenSeq(seqs))
<1>1. PICK n \in Nat : n = Len(seqs) /\ n \in 0..n /\ \A i \in 1..n : seqs[i] \in Strings(Nat)
  OBVIOUS
<1>2. /\ First(seqs, 0) = <<>> /\ First(seqs, n) = FlattenSeq(seqs)
      /\ \A i \in 0..n : First(seqs, i) \in Strings(Nat)
      /\ \A i \in 1..n : First(seqs, i) = First(seqs, i - 1) \o seqs[i]
  BY <1>1, FirstSteps
<1> DEFINE E == {i \in 0..n : Whole(First(seqs, i))}
<1>3. 0 \in E
  <2>1. Whole(<<>>)
    BY DEF Whole
  <2> QED  BY <1>1, <1>2, <2>1
<1>4. ASSUME NEW i \in 0..n, i \in E, i < n PROVE i + 1 \in E
  <2>1. PICK j \in 1..n : j = i + 1 /\ j - 1 = i /\ j \in 0..n
    BY <1>4
  <2>2. Whole(First(seqs, i) \o seqs[j])
    BY <1>1, <1>2, <1>4, WholeJoin
  <2> QED  BY <2>1, <2>2, <1>2
<1> HIDE DEF E
<1>5. n \in E
  BY <1>1, <1>3, <1>4, UpTo
<1> QED  BY <1>1, <1>2, <1>5 DEF E

\* get_request_len goes to the end of the lines, unless a control character stops it.
LEMMA EndFound ==
    ASSUME NEW x \in Strings(Nat), x # <<>>, Whole(x)
    PROVE  GetRequestLen(x \o CrLf) = IF Free(x \o CrLf, Controls) THEN Len(x \o CrLf) ELSE Malformed
<1>1. PICK n \in Nat : n = Len(x) /\ n > 0 /\ DOMAIN x = 1..n
  BY DEF Strings
<1>2. /\ CrLf \in Strings(Nat) /\ Len(CrLf) = 2 /\ CrLf[1] = Return /\ CrLf[2] = LineFeed
  BY Units1
<1>3. PICK u \in Strings(Nat) : u = x \o CrLf
  BY <1>2, Joins
<1>4. /\ Len(u) = n + 2 /\ DOMAIN u = 1..(n + 2) /\ \A i \in 1..n : u[i] = x[i]
      /\ u[n + 1] = Return /\ u[n + 2] = LineFeed
  <2>1. Joined(x, CrLf)
    BY <1>2, Joining
  <2>2. 1 \in 1..2 /\ 2 \in 1..2
    OBVIOUS
  <2> QED  BY ONLY <1>1, <1>2, <1>3, <2>1, <2>2 DEF Joined
<1>5. /\ \A i \in 1..n : i = 1 \/ x[i - 1] = LineFeed => x[i] \notin {Return, LineFeed}
      /\ x[n] = LineFeed
  BY ONLY <1>1, Whole(x), x # <<>> DEF Whole
<1>6. Return # LineFeed /\ Return \notin Controls /\ LineFeed \notin Controls
  BY DEF Return, LineFeed, Controls
<1>7. EndsAt(u, n)
  <2>1. n \in DOMAIN u /\ n + 1 \in DOMAIN u /\ n + 2 \in DOMAIN u /\ u[n] = LineFeed
    BY <1>1, <1>4, <1>5
  <2> QED  BY <1>4, <2>1 DEF EndsAt, IsAt
<1>8. ASSUME NEW i \in 1..(n + 2), EndsAt(u, i) PROVE i = n
  <2>1. /\ u[i] = LineFeed /\ i + 1 \in 1..(n + 2) /\ u[i + 1] \in {Return, LineFeed}
    BY <1>4, <1>8 DEF EndsAt, IsAt
  <2>2. CASE i = n + 1
    BY <2>1, <2>2, <1>4, <1>6
  <2>3. CASE i + 1 \in 1..n
    <3>1. i \in 1..n /\ i + 1 - 1 = i
      BY <2>3
    <3>2. x[i] = LineFeed /\ x[i + 1] \in {Return, LineFeed}
      BY <3>1, <2>1, <2>3, <1>4
    <3> QED  BY <3>1, <3>2, <2>3, <1>5
  <2> QED  BY <2>1, <2>2, <2>3
<1> DEFINE deciding == {i \in DOMAIN u : u[i] \in Controls \/ EndsAt(u, i)}
<1>9. deciding \in SUBSET Int /\ n \in deciding /\ deciding # {}
  BY <1>1, <1>4, <1>7
<1>10. CASE Free(u, Controls)
  <2>1. deciding = {n}
    BY <1>4, <1>8, <1>9, <1>10 DEF Free
  <2>2. Min(deciding) = n
    <3>1. \A i \in deciding : n <= i
      BY <2>1
    <3> HIDE DEF deciding
    <3> QED  BY <1>9, <3>1, MinIs
  <2>3. u[n] \notin Controls /\ u[n + 1] # LineFeed
    BY <1>1, <1>4, <1>5, <1>6
  <2>4. GetRequestLen(u) = n + 2
    BY <1>9, <2>2, <2>3 DEF GetRequestLen
  <2> QED  BY <1>3, <1>4, <1>10, <2>4
<1>11. CASE ~Free(u, Controls)
  <2>1. PICK c \in 1..(n + 2) : u[c] \in Controls
    BY <1>4, <1>11 DEF Free
  <2>2. c < n
    BY <1>4, <1>5, <1>6, <2>1
  <2>3. PICK f \in deciding : \A i \in deciding : f <= i
    <3>1. deciding \in SUBSET Nat /\ deciding # {}
      BY <1>4, <1>9
    <3> HIDE DEF deciding
    <3> QED  BY <3>1, LeastOf
  <2>4. f \in 1..(n + 2) /\ f <= c /\ c \in deciding
    BY <1>4, <2>1, <2>3
  <2>5. u[f] \in Controls
    <3>1. f # n
      BY <2>2, <2>4
    <3> QED  BY <1>4, <1>8, <2>3, <3>1
  <2>6. Min(deciding) = f
    <3> HIDE DEF deciding
    <3> QED  BY <1>9, <2>3, MinIs
  <2>7. GetRequestLen(u) = Malformed
    BY <1>9, <2>5, <2>6 DEF GetRequestLen
  <2> QED  BY <1>3, <1>11, <2>7
<1> QED  BY <1>10, <1>11

\* An escape in a path is printable, and so is what is not escaped.
LEMMA PathPrintable ==
    ASSUME NEW c \in Byte
    PROVE  PathCode(c) \in Strings(Nat) /\ Free(PathCode(c), Unprintable)
<1>1. c \in Nat /\ c < 256
  BY DEF Byte
<1>2. PathCode(c) \in Strings(Nat)
  BY <1>1, PathCodes
<1>3. CASE PathCode(c) = <<c>> /\ (c = Slash \/ c \in Unreserved)
  <2>1. c \notin Unprintable
    BY <1>3 DEF Unprintable, Slash, Unreserved, Digits, Uppers, Lowers
  <2>2. Free(<<c>>, Unprintable)
    BY <2>1 DEF Free
  <2> QED  BY <1>2, <1>3, <2>2
<1>4. CASE PathCode(c) = <<Percent, HexDigit(c \div 16), HexDigit(c % 16)>>
  <2>1. PICK d \in 0..15, e \in 0..15 : d = c \div 16 /\ e = c % 16
    BY <1>1
  <2>2. \A n \in 0..15 : HexDigit(n) \in Nat /\ HexDigit(n) \notin Unprintable
    BY DEF HexDigit, Unprintable
  <2>3. PICK a \in Nat, b \in Nat : /\ a = HexDigit(c \div 16) /\ b = HexDigit(c % 16)
                                    /\ a \notin Unprintable /\ b \notin Unprintable
    BY <2>1, <2>2
  <2>4. Percent \in Nat /\ Percent \notin Unprintable
    BY DEF Percent, Unprintable
  <2>5. Free(<<Percent, a, b>>, Unprintable)
    BY <2>3, <2>4 DEF Free
  <2> QED  BY <1>2, <1>4, <2>3, <2>5
<1> QED  BY <1>1, <1>3, <1>4, EncodedByte DEF PathCode

\* So is all that a byte of a value may be written as.
LEMMA CodePrintable ==
    ASSUME NEW code \in Seq(Nat), NEW byte \in Nat, Codes(code, byte)
    PROVE  Free(code, Unprintable)
<1>1. CASE Len(code) = 3 /\ code[1] = Percent /\ {code[2], code[3]} \subseteq HexDigits
  <2>1. DOMAIN code = 1..3 /\ \A i \in 1..3 : i = 1 \/ i = 2 \/ i = 3
    BY <1>1
  <2>2. \A c \in HexDigits : c \notin Unprintable
    BY DEF HexDigits, Digits, Unprintable
  <2>3. Percent \notin Unprintable
    BY DEF Percent, Unprintable
  <2>4. code[1] \notin Unprintable /\ code[2] \notin Unprintable /\ code[3] \notin Unprintable
    BY <1>1, <2>2, <2>3
  <2> QED  BY <2>1, <2>4 DEF Free
<1>2. CASE code = <<byte>> /\ byte \in Unreserved
  BY <1>2 DEF Free, Unprintable, Unreserved, Digits, Uppers, Lowers
<1>3. CASE code = <<Plus>>
  BY <1>3 DEF Free, Unprintable, Plus
<1> QED  BY <1>1, <1>2, <1>3 DEF Codes

\* Free of some units, free of fewer.
LEMMA FreeOfFewer ==
    ASSUME NEW s, NEW D, NEW E, E \subseteq D, Free(s, D)
    PROVE  Free(s, E)
  BY DEF Free

\* An unprintable byte in the path does not show.
LEMMA PathFree ==
    ASSUME NEW path \in Seq(Byte), NEW D \in SUBSET Unprintable
    PROVE  Free(EncodedPath(path), D)
<1>1. PICK n \in Nat : n = Len(path) /\ DOMAIN path = 1..n /\ \A i \in 1..n : path[i] \in Byte
  OBVIOUS
<1> DEFINE codes == [i \in 1..n |-> PathCode(path[i])]
<1>2. \A i \in 1..n : PathCode(path[i]) \in Strings(Nat) /\ Free(PathCode(path[i]), Unprintable)
  BY <1>1, PathPrintable
<1>3. codes \in Seq(Strings(Nat)) /\ Len(codes) = n /\ \A i \in 1..n : codes[i] = PathCode(path[i])
  BY <1>1, <1>2
<1>4. EncodedPath(path) = FlattenSeq(codes)
  BY <1>1 DEF EncodedPath, PathCode
<1> HIDE DEF codes
<1>5. \A i \in 1..Len(codes) : Free(codes[i], D)
  BY <1>2, <1>3, FreeOfFewer
<1> QED  BY <1>3, <1>4, <1>5, FlattenFree

\* Nor does one in a value, but the names of parameters are written as they are.
LEMMA ParamFree ==
    ASSUME NEW p \in ParamFields, IsParam(p), NEW D \in SUBSET Unprintable
    PROVE  Free(ParamText(p), D) <=> Free(p.name, D)
<1>1. /\ p.name \in Strings(Nat) /\ p.codes \in Seq(Strings(Nat)) /\ p.value \in Seq(Nat)
      /\ Len(p.codes) = Len(p.value) /\ FlattenSeq(p.codes) \in Strings(Nat)
      /\ \A i \in 1..Len(p.value) : Codes(p.codes[i], p.value[i])
  BY ParamParts
<1>2. Free(FlattenSeq(p.codes), D)
  <2>1. ASSUME NEW i \in 1..Len(p.codes) PROVE Free(p.codes[i], D)
    <3>1. p.codes[i] \in Seq(Nat) /\ p.value[i] \in Nat /\ Codes(p.codes[i], p.value[i])
      BY <1>1, ElementOf DEF Strings
    <3>2. Free(p.codes[i], Unprintable)
      BY <3>1, CodePrintable
    <3> QED  BY <3>2, FreeOfFewer
  <2> QED  BY <1>1, <2>1, FlattenFree
<1> DEFINE sign == IF p.equals THEN <<EqualsSign>> ELSE <<>>
<1>3. sign \in Strings(Nat) /\ Free(sign, D)
  BY DEF Strings, Free, EqualsSign, Unprintable
<1>4. ParamText(p) = (p.name \o sign) \o FlattenSeq(p.codes)
  BY DEF ParamText
<1> HIDE DEF sign
<1>5. p.name \o sign \in Strings(Nat)
  BY <1>1, <1>3, Joins
<1>6. Free(p.name \o sign, D) <=> Free(p.name, D)
  BY <1>1, <1>3, JoinFreeParts
<1>7. Free((p.name \o sign) \o FlattenSeq(p.codes), D) <=> Free(p.name \o sign, D)
  BY <1>1, <1>2, <1>5, JoinFreeParts
<1> QED  BY ONLY <1>4, <1>6, <1>7

\* A query.
LEMMA QueryFree ==
    ASSUME NEW ps \in Seq(ParamFields), \A i \in DOMAIN ps : IsParam(ps[i]), NEW D \in SUBSET Unprintable
    PROVE  Free(Query(ps), D) <=> \A i \in DOMAIN ps : Free(ps[i].name, D)
<1>1. /\ Pieces(ps) \in Seq(Strings(Nat)) /\ Len(Pieces(ps)) = Len(ps) /\ DOMAIN ps = 1..Len(ps)
      /\ \A i \in 1..Len(ps) :
           /\ ps[i] \in ParamFields /\ IsParam(ps[i]) /\ ParamText(ps[i]) \in Strings(Nat)
           /\ Pieces(ps)[i] = (IF i = 1 THEN <<QuestionMark>> ELSE <<Ampersand>>) \o ParamText(ps[i])
      /\ Query(ps) = FlattenSeq(Pieces(ps))
  BY PieceTexts
<1>2. ASSUME NEW i \in 1..Len(ps) PROVE Free(Pieces(ps)[i], D) <=> Free(ps[i].name, D)
  <2> DEFINE sign == IF i = 1 THEN <<QuestionMark>> ELSE <<Ampersand>>
  <2>1. sign \in Strings(Nat) /\ Free(sign, D)
    BY DEF Strings, Free, QuestionMark, Ampersand, Unprintable
  <2>2. Pieces(ps)[i] = sign \o ParamText(ps[i])
    BY <1>1
  <2> HIDE DEF sign
  <2>3. Free(sign \o ParamText(ps[i]), D) <=> Free(ParamText(ps[i]), D)
    BY <1>1, <2>1, JoinFreeParts
  <2>4. Free(ParamText(ps[i]), D) <=> Free(ps[i].name, D)
    BY <1>1, ParamFree
  <2> QED  BY ONLY <2>2, <2>3, <2>4
<1>3. Free(FlattenSeq(Pieces(ps)), D) <=> \A i \in 1..Len(Pieces(ps)) : Free(Pieces(ps)[i], D)
  BY <1>1, FlattenFreeParts
<1> QED  BY <1>1, <1>2, <1>3

RequestLine(r) == <<r.method, Blank>> \o EncodedPath(r.path) \o Query(r.params) \o <<Blank, Http, r.version>>

\* A request line.
LEMMA RequestLineFree ==
    ASSUME NEW r \in Requests, NEW D \in SUBSET Unprintable
    PROVE  /\ RequestLine(r) \in Strings(Nat) /\ RequestLine(r) # <<>>
           /\ Free(RequestLine(r), D) <=> /\ r.method \notin D /\ r.version \notin D
                                          /\ \A i \in DOMAIN r.params : Free(r.params[i].name, D)
<1>1. /\ r.method \in Nat /\ r.version \in Nat /\ r.path \in Seq(Byte)
      /\ r.params \in Seq(ParamFields) /\ \A i \in DOMAIN r.params : IsParam(r.params[i])
  BY WellFormed, RequestParts
<1>2. PICK p \in Strings(Nat), q \in Strings(Nat) : p = EncodedPath(r.path) /\ q = Query(r.params)
  BY TargetText
<1>3. Free(p, D)
  BY <1>1, <1>2, PathFree
<1>4. Free(q, D) <=> \A i \in DOMAIN r.params : Free(r.params[i].name, D)
  BY <1>1, <1>2, QueryFree
<1>5. Blank \in Nat /\ Blank \notin D /\ Http \in Nat /\ Http \notin D
  BY DEF Blank, Http, Unprintable
<1>6. PICK m \in Strings(Nat) : /\ m = <<r.method, Blank>> /\ Len(m) = 2
                                /\ (Free(m, D) <=> r.method \notin D)
  <2>1. <<r.method, Blank>> \in Strings(Nat) /\ Len(<<r.method, Blank>>) = 2
    BY <1>1, <1>5, Tuples
  <2>2. Free(<<r.method, Blank>>, D) <=> r.method \notin D
    BY <1>5 DEF Free
  <2> QED  BY <2>1, <2>2
<1>7. PICK v \in Strings(Nat) : v = <<Blank, Http, r.version>> /\ (Free(v, D) <=> r.version \notin D)
  <2>1. <<Blank, Http, r.version>> \in Strings(Nat)
    BY <1>1, <1>5, Tuples
  <2>2. Free(<<Blank, Http, r.version>>, D) <=> r.version \notin D
    BY <1>5 DEF Free
  <2> QED  BY <2>1, <2>2
<1>8. RequestLine(r) = m \o p \o q \o v
  BY <1>2, <1>6, <1>7 DEF RequestLine
<1>9. PICK x \in Strings(Nat) : x = m \o p /\ Len(x) > 0 /\ (Free(x, D) <=> Free(m, D))
  <2>1. m \o p \in Strings(Nat) /\ (Free(m \o p, D) <=> Free(m, D)) /\ Joined(m, p)
    BY <1>3, Joins, JoinFreeParts, Joining
  <2>2. Len(m \o p) > 0
    BY ONLY <1>6, <2>1 DEF Joined
  <2> QED  BY <2>1, <2>2
<1>10. PICK y \in Strings(Nat) : y = x \o q /\ Len(y) > 0 /\ (Free(y, D) <=> Free(x, D) /\ Free(q, D))
  <2>1. x \o q \in Strings(Nat) /\ (Free(x \o q, D) <=> Free(x, D) /\ Free(q, D)) /\ Joined(x, q)
    BY Joins, JoinFreeParts, Joining
  <2>2. Len(x \o q) > 0
    BY ONLY <1>9, <2>1 DEF Joined
  <2> QED  BY <2>1, <2>2
<1>11. PICK z \in Strings(Nat) : z = y \o v /\ Len(z) > 0 /\ (Free(z, D) <=> Free(y, D) /\ Free(v, D))
  <2>1. y \o v \in Strings(Nat) /\ (Free(y \o v, D) <=> Free(y, D) /\ Free(v, D)) /\ Joined(y, v)
    BY Joins, JoinFreeParts, Joining
  <2>2. Len(y \o v) > 0
    BY ONLY <1>10, <2>1 DEF Joined
  <2> QED  BY <2>1, <2>2
<1>12. z # <<>>
  BY <1>11
<1> QED  BY ONLY <1>4, <1>6, <1>7, <1>8, <1>9, <1>10, <1>11, <1>12

\* A header with its line end.
LEMMA HeaderLineFree ==
    ASSUME NEW h \in HeaderFields, IsHeader(h)
    PROVE  /\ HeaderLine(h) \in Strings(Nat) /\ Whole(HeaderLine(h))
           /\ Free(HeaderLine(h), Controls) <=> Free(h.name \o h.value, Controls)
<1>1. /\ h.name \in Strings(Nat) /\ h.name # <<>> /\ h.value \in Strings(Nat) /\ h.blanks \in Strings(Nat)
      /\ Only(h.blanks, {Blank}) /\ Free(h.value, {Return, LineFeed})
  BY HeaderParts
<1>2. Free(h.name, {Return, LineFeed})
  BY DEF IsHeader, Free
<1>3. <<Colon>> \in Strings(Nat) /\ CrLf \in Strings(Nat)
  BY Units1
<1>4. PICK x \in Strings(Nat) : x = h.name \o <<Colon>>
  BY <1>1, <1>3, Joins
<1>5. PICK y \in Strings(Nat) : y = x \o h.blanks
  BY <1>1, Joins
<1>6. PICK w \in Strings(Nat) : w = y \o h.value
  BY <1>1, Joins
<1>7. HeaderLine(h) = w \o CrLf
  BY <1>4, <1>5, <1>6 DEF HeaderLine
<1>8. \A D : Free(x, D) <=> Free(h.name, D) /\ Free(<<Colon>>, D)
  BY <1>1, <1>3, <1>4, JoinFreeParts
<1>9. \A D : Free(y, D) <=> Free(x, D) /\ Free(h.blanks, D)
  BY <1>1, <1>5, JoinFreeParts
<1>10. \A D : Free(w, D) <=> Free(y, D) /\ Free(h.value, D)
  BY <1>1, <1>6, JoinFreeParts
<1>11. /\ Free(<<Colon>>, {Return, LineFeed}) /\ Free(<<Colon>>, Controls)
       /\ Free(h.blanks, {Return, LineFeed}) /\ Free(h.blanks, Controls) /\ Free(CrLf, Controls)
  <2>1. /\ Colon \notin {Return, LineFeed} /\ Colon \notin Controls
        /\ Blank \notin {Return, LineFeed} /\ Blank \notin Controls
        /\ Return \notin Controls /\ LineFeed \notin Controls
    BY DEF Colon, Return, LineFeed, Blank, Controls
  <2>2. Free(<<Colon>>, {Return, LineFeed}) /\ Free(<<Colon>>, Controls)
    BY <2>1 DEF Free
  <2>3. Free(h.blanks, {Return, LineFeed}) /\ Free(h.blanks, Controls)
    BY <1>1, <2>1 DEF Free, Only
  <2>4. Free(CrLf, Controls)
    BY <2>1 DEF Free, CrLf
  <2> QED  BY <2>2, <2>3, <2>4
<1>12. w # <<>>
  <2>1. Joined(h.name, <<Colon>>) /\ Joined(x, h.blanks) /\ Joined(y, h.value)
    BY <1>1, <1>3, <1>4, <1>5, <1>6, Joining
  <2>2. Len(<<Colon>>) = 1
    OBVIOUS
  <2>3. Len(x) > 0
    BY ONLY <1>4, <2>1, <2>2 DEF Joined
  <2>4. Len(y) > 0
    BY ONLY <1>5, <2>1, <2>3 DEF Joined
  <2>5. Len(w) > 0
    BY ONLY <1>6, <2>1, <2>4 DEF Joined
  <2> QED  BY <2>5
<1>13. Free(w, {Return, LineFeed})
  BY ONLY <1>1, <1>2, <1>8, <1>9, <1>10, <1>11
<1>14. w \o CrLf \in Strings(Nat) /\ Whole(w \o CrLf)
  BY <1>12, <1>13, WholeLine
<1>15. Free(w \o CrLf, Controls) <=> Free(w, Controls)
  BY <1>3, <1>11, JoinFreeParts
<1>16. Free(h.name \o h.value, Controls) <=> Free(h.name, Controls) /\ Free(h.value, Controls)
  BY <1>1, JoinFreeParts
<1> QED  BY ONLY <1>7, <1>8, <1>9, <1>10, <1>11, <1>14, <1>15, <1>16

\* The request line and the headers are lines, and the message has an empty one behind
\* them; what must be printable in it is what Printable names.
LEMMA MessageLines ==
    ASSUME NEW r \in Requests
    PROVE  /\ Message(r) \in Strings(Nat)
           /\ GetRequestLen(Message(r)) =
                IF Free(Message(r), Controls) THEN Len(Message(r)) ELSE Malformed
           /\ r.method \notin Controls => (Free(Message(r), Controls) <=> Printable(r))
<1>1. PICK hs \in Seq(HeaderFields) : hs = r.headers /\ \A i \in DOMAIN hs : IsHeader(hs[i])
  BY RequestParts
<1>2. /\ Lines(hs) \in Seq(Strings(Nat)) /\ Len(Lines(hs)) = Len(hs) /\ DOMAIN hs = 1..Len(hs)
      /\ \A i \in 1..Len(hs) : hs[i] \in HeaderFields /\ Lines(hs)[i] = HeaderLine(hs[i])
  <2>1. Lines(hs) \in Seq(Strings(Nat)) /\ Len(Lines(hs)) = Len(hs)
    BY <1>1, LinesType
  <2>2. DOMAIN hs = 1..Len(hs) /\ \A i \in 1..Len(hs) : hs[i] \in HeaderFields
    OBVIOUS
  <2>3. \A i \in 1..Len(hs) : Lines(hs)[i] = HeaderLine(hs[i])
    BY <2>2 DEF Lines
  <2> QED  BY <2>1, <2>2, <2>3
<1>3. PICK f \in Strings(Nat) : f = FlattenSeq(Lines(hs))
  BY <1>2, FlattenFreeParts
<1>4. \A i \in 1..Len(hs) : /\ Whole(Lines(hs)[i])
                            /\ (Free(Lines(hs)[i], Controls) <=> Free(hs[i].name \o hs[i].value, Controls))
  BY <1>1, <1>2, HeaderLineFree
<1>5. Whole(f)
  BY <1>2, <1>3, <1>4, WholeFlatten
<1>6. Free(f, Controls) <=> \A i \in DOMAIN hs : Free(hs[i].name \o hs[i].value, Controls)
  <2>1. Free(f, Controls) <=> \A i \in 1..Len(Lines(hs)) : Free(Lines(hs)[i], Controls)
    BY <1>2, <1>3, FlattenFreeParts
  <2> QED  BY <1>2, <1>4, <2>1
<1>7. Controls \in SUBSET Unprintable /\ {Return, LineFeed} \in SUBSET Unprintable
  BY DEF Controls, Unprintable, Return, LineFeed
<1>8. PICK l \in Strings(Nat) : l = RequestLine(r) /\ l # <<>>
  BY <1>7, RequestLineFree
<1>9. Free(l, {Return, LineFeed})
  <2>1. /\ r.method \notin {Return, LineFeed} /\ r.version \notin {Return, LineFeed}
        /\ r.params \in Seq(ParamFields) /\ \A i \in DOMAIN r.params : IsParam(r.params[i])
    BY RequestParts DEF WhiteSpace
  <2>2. \A i \in DOMAIN r.params : Free(r.params[i].name, {Return, LineFeed})
    BY <2>1 DEF IsParam, Free
  <2> QED  BY <1>7, <1>8, <2>1, <2>2, RequestLineFree
<1>10. Free(l, Controls) <=> /\ r.method \notin Controls /\ r.version \notin Controls
                             /\ \A i \in DOMAIN r.params : Free(r.params[i].name, Controls)
  BY <1>7, <1>8, RequestLineFree
<1>11. CrLf \in Strings(Nat) /\ Free(CrLf, Controls)
  <2>1. Return \notin Controls /\ LineFeed \notin Controls
    BY DEF Return, LineFeed, Controls
  <2> QED  BY <2>1, Units1 DEF Free, CrLf
<1>12. PICK lc \in Strings(Nat) : /\ lc = l \o CrLf /\ lc # <<>> /\ Whole(lc)
                                  /\ (Free(lc, Controls) <=> Free(l, Controls))
  <2>1. l \o CrLf \in Strings(Nat) /\ l \o CrLf # <<>> /\ Whole(l \o CrLf)
    BY <1>8, <1>9, WholeLine
  <2>2. Free(l \o CrLf, Controls) <=> Free(l, Controls)
    BY <1>11, JoinFreeParts
  <2> QED  BY <2>1, <2>2
<1>13. PICK x \in Strings(Nat) : /\ x = lc \o f /\ x # <<>> /\ Whole(x)
                                 /\ (Free(x, Controls) <=> Free(lc, Controls) /\ Free(f, Controls))
  <2>1. /\ lc \o f \in Strings(Nat) /\ Whole(lc \o f) /\ Joined(lc, f)
        /\ (Free(lc \o f, Controls) <=> Free(lc, Controls) /\ Free(f, Controls))
    BY <1>5, <1>12, Joins, WholeJoin, JoinFreeParts, Joining
  <2>2. Len(lc) # 0
    BY <1>12, NoLength DEF Strings
  <2>3. Len(lc \o f) # 0
    BY ONLY <2>1, <2>2 DEF Joined
  <2>4. lc \o f # <<>>
    BY <2>3
  <2> QED  BY <2>1, <2>4
<1>14. Message(r) = x \o CrLf
  BY <1>1, <1>3, <1>8, <1>12, <1>13 DEF Message, RequestLine, Lines
<1>15. x \o CrLf \in Strings(Nat) /\ (Free(x \o CrLf, Controls) <=> Free(x, Controls))
  BY <1>11, Joins, JoinFreeParts
<1>16. GetRequestLen(x \o CrLf) = IF Free(x \o CrLf, Controls) THEN Len(x \o CrLf) ELSE Malformed
  BY <1>13, EndFound
<1>17. r.method \notin Controls => (Free(x, Controls) <=> Printable(r))
  BY ONLY <1>1, <1>6, <1>10, <1>12, <1>13 DEF Printable
<1> QED  BY ONLY <1>14, <1>15, <1>16, <1>17

\* try_parse parses the whole header, or nothing of it.
LEMMA TryParsed ==
    ASSUME NEW r \in Requests
    PROVE  TryParse(Message(r)) =
             IF r.method \in {Get, Post, Put} /\ Printable(r) THEN Read(r) ELSE NotAccepted
<1>1. PICK msg \in Seq(Nat) : msg = Message(r) /\ Len(msg) \in Nat
  BY MessageLines DEF Strings
<1>2. GetRequestLen(msg) = IF Free(msg, Controls) THEN Len(msg) ELSE Malformed
  BY <1>1, MessageLines
<1>3. r.method \in {Get, Post, Put} => (Free(msg, Controls) <=> Printable(r))
  <2>1. Get \notin Controls /\ Post \notin Controls /\ Put \notin Controls
    BY DEF Get, Post, Put, Controls
  <2>2. r.method \notin Controls => (Free(msg, Controls) <=> Printable(r))
    BY <1>1, MessageLines
  <2> QED  BY ONLY <2>1, <2>2
<1>4. ParseHttpMessage(msg) = IF r.method \in {Get, Post, Put} THEN Read(r) ELSE NotAccepted
  BY <1>1, MessageParsed
<1>5. SubSeq(msg, 1, Len(msg)) = msg /\ Len(msg) # Malformed
  BY <1>1 DEF Malformed
<1>6. CASE Free(msg, Controls)
  <2>1. TryParse(msg) = ParseHttpMessage(msg)
    BY <1>2, <1>5, <1>6 DEF TryParse
  <2> QED  BY ONLY <1>1, <1>3, <1>4, <1>6, <2>1
<1>7. CASE ~Free(msg, Controls)
  <2>1. TryParse(msg) = NotAccepted
    BY ONLY <1>2, <1>7 DEF TryParse
  <2> QED  BY ONLY <1>1, <1>3, <1>7, <2>1
<1> QED  BY <1>6, <1>7

-----------------------------------------------------------------------------
(* The invariant: what the server works with is what was read of the request *)

HeaderIsRead ==
    /\ sent \in Requests
    /\ Handed => /\ ri = Read(sent) /\ sent.method \in {Get, Post, Put} /\ Printable(sent)
                 /\ IsValidUri(ri.uri)
    /\ Handed /\ pc # "parsed" =>
         queryParam = IF ri.hasQuery THEN ParseQuery(ri.query, BufSize) ELSE NotParsed

\* The server's request is the one try_parse made of what arrived, and the
\* parameters that handle works with are what parseQuery made of its query.
THEOREM HeaderIsReadHolds == HeaderSpec => []HeaderIsRead
<1>1. HeaderInit => HeaderIsRead
  BY DEF HeaderInit, HeaderIsRead, Handed
<1>2. HeaderIsRead /\ [HeaderNext]_headerVars => HeaderIsRead'
  <2> SUFFICES ASSUME HeaderIsRead, [HeaderNext]_headerVars PROVE HeaderIsRead'
    OBVIOUS
  <2>1. sent \in Requests
    BY DEF HeaderIsRead
  <2>2. CASE HandOver
    <3>1. Parsed.accepted /\ IsValidUri(Parsed.uri)
      BY <2>2 DEF HandOver, IsBadRequest
    <3>2. Parsed = IF sent.method \in {Get, Post, Put} /\ Printable(sent) THEN Read(sent) ELSE NotAccepted
      BY <2>1, TryParsed DEF Parsed
    <3>3. ~NotAccepted.accepted
      BY DEF NotAccepted
    <3>4. Parsed = Read(sent) /\ sent.method \in {Get, Post, Put} /\ Printable(sent)
      BY ONLY <3>1, <3>2, <3>3
    <3>5. sent' = sent /\ pc' = "parsed" /\ ri' = Parsed
      BY <2>2 DEF HandOver
    <3>6. Read(sent') = Read(sent) /\ sent'.method = sent.method /\ Printable(sent') = Printable(sent)
      BY ONLY <3>5
    <3> QED  BY <2>1, <3>1, <3>4, <3>5, <3>6 DEF HeaderIsRead
  <2>3. CASE RefuseRequest \/ RefuseVersion
    BY <2>1, <2>3 DEF RefuseRequest, RefuseVersion, HeaderIsRead, Handed
  <2>4. CASE RequestHandler
    <3>1. /\ sent' = sent /\ ri' = ri /\ Handed
          /\ queryParam' = IF ri.hasQuery THEN ParseQuery(ri.query, BufSize) ELSE NotParsed
      BY <2>4 DEF RequestHandler, Handed
    <3>2. /\ Read(sent') = Read(sent) /\ sent'.method = sent.method /\ Printable(sent') = Printable(sent)
          /\ IsValidUri(ri'.uri) = IsValidUri(ri.uri)
      BY ONLY <3>1
    <3>3. ri = Read(sent) /\ sent.method \in {Get, Post, Put} /\ Printable(sent) /\ IsValidUri(ri.uri)
      BY <3>1 DEF HeaderIsRead
    <3> QED  BY ONLY <2>1, <3>1, <3>2, <3>3 DEF HeaderIsRead
  <2>5. CASE UNCHANGED headerVars
    <3>1. sent' = sent /\ ri' = ri /\ pc' = pc /\ queryParam' = queryParam
      BY <2>5 DEF headerVars
    <3>2. /\ Read(sent') = Read(sent) /\ IsValidUri(ri'.uri) = IsValidUri(ri.uri) /\ Handed' = Handed
          /\ Printable(sent') = Printable(sent)
      BY ONLY <3>1 DEF Handed
    <3> QED  BY <2>1, <3>1, <3>2 DEF HeaderIsRead
  <2> QED  BY <2>2, <2>3, <2>4, <2>5 DEF HeaderNext
<1> QED  BY <1>1, <1>2, PTL DEF HeaderSpec

\* Every header that was kept is found under its name in any case, with the value
\* the client gave it first, and no other (parse_http_headers, mg_get_header).
THEOREM HeadersReadBackHolds == HeaderSpec => []HeadersReadBack
<1>1. HeaderIsRead => HeadersReadBack
  <2> SUFFICES ASSUME HeaderIsRead, Handed,
                      NEW name \in {sent.headers[i].name : i \in DOMAIN sent.headers} \cup {ContentTypeName}
               PROVE  LET heard == {i \in 1..Min({MaxHeaders, Len(sent.headers)}) :
                                      SameLetters(sent.headers[i].name, name)}
                      IN  GetHeader(ri.headers, name) =
                            IF heard = {} THEN Absent
                            ELSE [present |-> TRUE, value |-> sent.headers[Min(heard)].value]
    BY DEF HeadersReadBack
  <2>1. PICK r \in Requests : r = sent /\ ri = Read(r)
    BY DEF HeaderIsRead
  <2>2. PICK hs \in Seq(HeaderFields) : hs = r.headers
    BY RequestParts
  <2>3. PICK k \in 0..Len(hs) : k = Min({MaxHeaders, Len(hs)})
    <3>1. PICK n \in Nat : n = Len(hs) /\ \A k \in Nat : k <= n => k \in 0..Len(hs)
      OBVIOUS
    <3>2. MaxHeaders \in Nat
      BY MaxHeadersPositive
    <3>3. Min({MaxHeaders, n}) \in Nat /\ Min({MaxHeaders, n}) <= n
      BY <3>2, LesserOf
    <3> QED  BY <3>1, <3>3
  <2>4. ri.headers = Got(hs, k)
    BY <2>1, <2>2, <2>3 DEF Read
  <2>5. name \in Seq(Nat)
    <3>1. ASSUME NEW i \in DOMAIN hs PROVE hs[i].name \in Seq(Nat)
      <4>1. hs[i] \in HeaderFields
        OBVIOUS
      <4> QED  BY <4>1 DEF HeaderFields, Units
    <3>2. ContentTypeName \in Seq(Nat)
      BY DEF ContentTypeName
    <3> QED  BY <2>1, <2>2, <3>1, <3>2
  <2>6. LET heard == {i \in 1..k : SameLetters(hs[i].name, name)}
        IN  GetHeader(Got(hs, k), name) =
                IF heard = {} THEN Absent ELSE [present |-> TRUE, value |-> hs[Min(heard)].value]
    BY <2>5, HeaderFound
  <2> QED  BY ONLY <2>1, <2>2, <2>3, <2>4, <2>6
<1> QED  BY <1>1, HeaderIsReadHolds, PTL

-----------------------------------------------------------------------------
(* Decoding *)

\* f[i] is made of the value at a later place, and the last one is a.
Backwards(f, n, T, a, next, Step) ==
    /\ f \in [1..(n + 1) -> T] /\ f[n + 1] = a
    /\ \A i \in 1..n : f[i] = Step[i][f[next[i]]]

\* A function defined by such a recursion exists.
LEMMA BackwardRecursion ==
    ASSUME NEW n \in Nat, NEW T, NEW a \in T, NEW Step \in Steps(n, T),
           NEW next \in [1..n -> 1..(n + 1)], \A i \in 1..n : i < next[i]
    PROVE  \E f : Backwards(f, n, T, a, next, Step)
<1> DEFINE Good(f, k) == f[n + 1] = a /\ \A i \in (k + 1)..n : f[i] = Step[i][f[next[i]]]
           S == {k \in 0..n : \E f \in [1..(n + 1) -> T] : Good(f, k)}
<1>1. n \in S
  <2> DEFINE f == [i \in 1..(n + 1) |-> a]
  <2>1. f \in [1..(n + 1) -> T] /\ Good(f, n) /\ n \in 0..n
    OBVIOUS
  <2> HIDE DEF f, Good
  <2> QED  BY <2>1
<1>2. ASSUME NEW k \in 1..n, k \in S PROVE k - 1 \in S
  <2>1. PICK f \in [1..(n + 1) -> T] : Good(f, k)
    BY <1>2
  <2> DEFINE v == Step[k][f[next[k]]]
             g == [f EXCEPT ![k] = v]
  <2>2. v \in T /\ k \in 1..(n + 1)
    <3>1. f[next[k]] \in T
      OBVIOUS
    <3> QED  BY <3>1 DEF Steps
  <2> HIDE DEF v
  <2>3. g \in [1..(n + 1) -> T] /\ g[k] = v /\ \A i \in 1..(n + 1) : i # k => g[i] = f[i]
    BY <2>2
  <2> HIDE DEF g
  <2>4. g[n + 1] = a
    BY <2>1, <2>3
  <2>5. ASSUME NEW i \in ((k - 1) + 1)..n PROVE g[i] = Step[i][g[next[i]]]
    <3>1. i \in 1..n /\ next[i] \in 1..(n + 1) /\ i < next[i] /\ i >= k /\ i \in 1..(n + 1)
      OBVIOUS
    <3>2. g[next[i]] = f[next[i]]
      BY <3>1, <2>3
    <3>3. CASE i = k
      BY <3>2, <3>3, <2>3 DEF v
    <3>4. CASE i # k
      <4>1. g[i] = f[i] /\ i \in (k + 1)..n
        BY <3>1, <3>4, <2>3
      <4> QED  BY <4>1, <3>2, <2>1
    <3> QED  BY <3>3, <3>4
  <2>6. Good(g, k - 1) /\ k - 1 \in 0..n
    BY <2>4, <2>5
  <2> HIDE DEF Good
  <2> QED  BY <2>3, <2>6
<1>3. n \in Nat
  OBVIOUS
<1>4. 0 \in S
  <2> HIDE DEF S
  <2>1. 0..n \subseteq S
    BY <1>1, <1>2, DownFrom
  <2> QED  BY <2>1
<1>5. PICK f \in [1..(n + 1) -> T] : Good(f, 0)
  BY <1>4
<1>6. Backwards(f, n, T, a, next, Step)
  BY <1>5 DEF Backwards
<1> QED  BY <1>6

\* What the decoder makes of the byte at i and where it goes on.
ByteAt(src, isForm, i) ==
    IF IsEscape(src, i) THEN 16 * HexToInt(src[i + 1]) + HexToInt(src[i + 2])
    ELSE IF isForm /\ src[i] = Plus THEN Blank ELSE src[i]
NextAt(src, i) == IF IsEscape(src, i) THEN i + 3 ELSE i + 1

\* The equations of the decoder.
Decodes(h, src, isForm) ==
    /\ h[Len(src) + 1] = <<>>
    /\ \A i \in 1..Len(src) : h[i] = <<ByteAt(src, isForm, i)>> \o h[NextAt(src, i)]

\* Decoded is given by these equations.
LEMMA DecodedSteps ==
    ASSUME NEW src \in Seq(Nat), NEW isForm \in BOOLEAN
    PROVE  \E h : Decodes(h, src, isForm) /\ Decoded(src, isForm) = h[1]
<1>1. PICK n \in Nat : n = Len(src) /\ \A i \in 1..n : src[i] \in Nat
  OBVIOUS
<1> DEFINE Def(f) == f = [i \in 1..Len(src) + 1 |->
                            IF i > Len(src) THEN <<>>
                            ELSE IF IsEscape(src, i)
                            THEN <<16 * HexToInt(src[i + 1]) + HexToInt(src[i + 2])>> \o f[i + 3]
                            ELSE <<IF isForm /\ src[i] = Plus THEN Blank ELSE src[i]>> \o f[i + 1]]
           Step == [i \in 1..n |-> [s \in Strings(Nat) |-> <<ByteAt(src, isForm, i)>> \o s]]
           next == [i \in 1..n |-> NextAt(src, i)]
           h == CHOOSE f : Def(f)
<1>2. ASSUME NEW i \in 1..n
      PROVE  /\ ByteAt(src, isForm, i) \in Nat
             /\ NextAt(src, i) \in 1..(n + 1) /\ i < NextAt(src, i)
  <2>1. ASSUME IsEscape(src, i)
        PROVE  16 * HexToInt(src[i + 1]) + HexToInt(src[i + 2]) \in Nat /\ i + 3 \in 1..(n + 1)
    <3>1. i + 2 <= n /\ src[i + 1] \in HexDigits /\ src[i + 2] \in HexDigits
      BY <2>1, <1>1 DEF IsEscape
    <3>2. \A c \in HexDigits : HexToInt(c) \in Nat
      BY DEF HexDigits, HexToInt, Digits, Uppers
    <3> QED  BY <3>1, <3>2
  <2>2. Blank \in Nat /\ src[i] \in Nat
    BY <1>1 DEF Blank
  <2> QED  BY <1>1, <2>1, <2>2 DEF ByteAt, NextAt
<1>3. Step \in Steps(n, Strings(Nat))
  <2>1. ASSUME NEW i \in 1..n
        PROVE  [s \in Strings(Nat) |-> <<ByteAt(src, isForm, i)>> \o s] \in [Strings(Nat) -> Strings(Nat)]
    <3>1. <<ByteAt(src, isForm, i)>> \in Strings(Nat)
      BY <1>2, Tuples
    <3> QED  BY <3>1, Joins
  <2> QED  BY <2>1 DEF Steps
<1>4. next \in [1..n -> 1..(n + 1)] /\ \A i \in 1..n : i < next[i]
  BY <1>2
<1>5. <<>> \in Strings(Nat)
  BY Joins
<1>6. PICK g : Backwards(g, n, Strings(Nat), <<>>, next, Step)
  <2> HIDE DEF next, Step
  <2> QED  BY <1>3, <1>4, <1>5, BackwardRecursion
<1>7. ASSUME NEW i \in 1..n
      PROVE  g[i] = <<ByteAt(src, isForm, i)>> \o g[NextAt(src, i)]
  <2>1. g[i] = Step[i][g[next[i]]] /\ next[i] = NextAt(src, i) /\ NextAt(src, i) \in 1..(n + 1)
    BY <1>2, <1>6 DEF Backwards
  <2>2. g[NextAt(src, i)] \in Strings(Nat)
    BY <2>1, <1>6 DEF Backwards
  <2> QED  BY <2>1, <2>2
<1>8. g \in [1..(n + 1) -> Strings(Nat)] /\ g[n + 1] = <<>>
  BY <1>6 DEF Backwards
<1> HIDE DEF Step, next
<1>9. Def(g)
  <2>1. ASSUME NEW i \in 1..(n + 1)
        PROVE  g[i] = IF i > n THEN <<>>
                      ELSE IF IsEscape(src, i)
                      THEN <<16 * HexToInt(src[i + 1]) + HexToInt(src[i + 2])>> \o g[i + 3]
                      ELSE <<IF isForm /\ src[i] = Plus THEN Blank ELSE src[i]>> \o g[i + 1]
    <3>1. CASE i > n
      <4>1. i = n + 1
        BY <3>1
      <4> QED  BY <4>1, <1>8
    <3>2. CASE i \in 1..n
      <4>1. g[i] = <<ByteAt(src, isForm, i)>> \o g[NextAt(src, i)] /\ ~(i > n)
        <5>1. g[i] = <<ByteAt(src, isForm, i)>> \o g[NextAt(src, i)]
          BY ONLY <3>2, <1>7
        <5> QED  BY <3>2, <5>1
      <4>2. CASE IsEscape(src, i)
        <5>1. /\ ByteAt(src, isForm, i) = 16 * HexToInt(src[i + 1]) + HexToInt(src[i + 2])
              /\ NextAt(src, i) = i + 3
          BY ONLY <4>2 DEF ByteAt, NextAt
        <5> QED  BY ONLY <4>1, <4>2, <5>1
      <4>3. CASE ~IsEscape(src, i)
        <5>1. /\ ByteAt(src, isForm, i) = IF isForm /\ src[i] = Plus THEN Blank ELSE src[i]
              /\ NextAt(src, i) = i + 1
          BY ONLY <4>3 DEF ByteAt, NextAt
        <5> QED  BY ONLY <4>1, <4>3, <5>1
      <4> QED  BY <4>2, <4>3
    <3> QED  BY <3>1, <3>2
  <2>2. g = [i \in 1..(n + 1) |-> g[i]]
    BY <1>8
  <2>3. g = [i \in 1..(n + 1) |->
               IF i > n THEN <<>>
               ELSE IF IsEscape(src, i)
               THEN <<16 * HexToInt(src[i + 1]) + HexToInt(src[i + 2])>> \o g[i + 3]
               ELSE <<IF isForm /\ src[i] = Plus THEN Blank ELSE src[i]>> \o g[i + 1]]
    BY <2>1, <2>2
  <2> QED  BY <2>3, <1>1
<1>10. Decoded(src, isForm) = h[1]
  BY DEF Decoded
<1>11. Def(h)
  <2> HIDE DEF Def
  <2> QED  BY <1>9
<1> HIDE DEF h
<1>12. \A i \in 1..(n + 1) :
         h[i] = IF i > n THEN <<>>
                ELSE IF IsEscape(src, i)
                THEN <<16 * HexToInt(src[i + 1]) + HexToInt(src[i + 2])>> \o h[i + 3]
                ELSE <<IF isForm /\ src[i] = Plus THEN Blank ELSE src[i]>> \o h[i + 1]
  BY <1>11, <1>1
<1>13. Decodes(h, src, isForm)
  <2>1. h[n + 1] = <<>>
    <3>1. n + 1 \in 1..(n + 1) /\ n + 1 > n
      OBVIOUS
    <3> QED  BY ONLY <1>12, <3>1
  <2>2. ASSUME NEW i \in 1..n PROVE h[i] = <<ByteAt(src, isForm, i)>> \o h[NextAt(src, i)]
    <3>1. i \in 1..(n + 1) /\ ~(i > n)
      OBVIOUS
    <3>2. h[i] = IF IsEscape(src, i)
                 THEN <<16 * HexToInt(src[i + 1]) + HexToInt(src[i + 2])>> \o h[i + 3]
                 ELSE <<IF isForm /\ src[i] = Plus THEN Blank ELSE src[i]>> \o h[i + 1]
      BY <3>1, <1>12
    <3>3. CASE IsEscape(src, i)
      <4>1. /\ ByteAt(src, isForm, i) = 16 * HexToInt(src[i + 1]) + HexToInt(src[i + 2])
            /\ NextAt(src, i) = i + 3
        BY ONLY <3>3 DEF ByteAt, NextAt
      <4> QED  BY ONLY <3>2, <3>3, <4>1
    <3>4. CASE ~IsEscape(src, i)
      <4>1. /\ ByteAt(src, isForm, i) = IF isForm /\ src[i] = Plus THEN Blank ELSE src[i]
            /\ NextAt(src, i) = i + 1
        BY ONLY <3>4 DEF ByteAt, NextAt
      <4> QED  BY ONLY <3>2, <3>4, <4>1
    <3> QED  BY <3>3, <3>4
  <2> QED  BY <2>1, <2>2, <1>1 DEF Decodes
<1> QED  BY <1>10, <1>13

\* What is written is what comes before one place, and then the rest.
LEMMA FirstAndRest ==
    ASSUME NEW S, NEW seqs \in Seq(Strings(S)), NEW k \in 0..Len(seqs)
    PROVE  FlattenSeq(seqs) = First(seqs, k) \o Rest(seqs, k)
<1>1. PICK n \in Nat : n = Len(seqs) /\ 0 \in 0..n
  OBVIOUS
<1>2. ASSUME NEW i \in 1..n
      PROVE  i \in 0..n /\ i - 1 \in 0..n /\ seqs[i] \in Strings(S)
  BY <1>1, ElementOf
<1>3. /\ First(seqs, 0) = <<>>
      /\ \A i \in 0..n : First(seqs, i) \in Strings(S)
      /\ \A i \in 1..n : First(seqs, i) = First(seqs, i - 1) \o seqs[i]
  BY <1>1, FirstSteps
<1>4. /\ Rest(seqs, 0) = FlattenSeq(seqs)
      /\ \A i \in 0..n : Rest(seqs, i) \in Strings(S)
      /\ \A i \in 1..n : Rest(seqs, i - 1) = seqs[i] \o Rest(seqs, i)
  BY <1>1, RestSteps
<1> DEFINE E == {i \in 0..n : FlattenSeq(seqs) = First(seqs, i) \o Rest(seqs, i)}
<1>5. 0 \in E
  <2>1. <<>> \o Rest(seqs, 0) = Rest(seqs, 0)
    BY <1>1, <1>4, Joins
  <2> QED  BY <2>1, <1>1, <1>3, <1>4
<1>6. ASSUME NEW i \in 0..n, i \in E, i < n PROVE i + 1 \in E
  <2>1. PICK j \in 1..n : j = i + 1 /\ j - 1 = i
    BY <1>6
  <2>2. First(seqs, i) \in Strings(S) /\ seqs[j] \in Strings(S) /\ Rest(seqs, j) \in Strings(S)
    BY <1>2, <1>3, <1>4
  <2>3. (First(seqs, i) \o seqs[j]) \o Rest(seqs, j) = First(seqs, i) \o (seqs[j] \o Rest(seqs, j))
    <3>1. Grouped(First(seqs, i), seqs[j], Rest(seqs, j))
      BY <2>2, Grouping
    <3> QED  BY ONLY <3>1 DEF Grouped
  <2>4. First(seqs, j) = First(seqs, i) \o seqs[j] /\ Rest(seqs, i) = seqs[j] \o Rest(seqs, j)
    BY <2>1, <1>3, <1>4
  <2>5. FlattenSeq(seqs) = First(seqs, j) \o Rest(seqs, j)
    BY <1>6, <2>3, <2>4
  <2> QED  BY <2>1, <2>5, <1>2
<1> HIDE DEF E
<1>7. 0..n \subseteq E
  BY <1>5, <1>6, UpTo
<1> QED  BY <1>1, <1>7 DEF E

\* The decoder reads a code as the byte.
Spelled(code, byte, isForm) ==
    \/ Len(code) = 3 /\ IsEscape(code, 1) /\ 16 * HexToInt(code[2]) + HexToInt(code[3]) = byte
    \/ \E u \in Nat \ {Percent} : code = <<u>> /\ byte = IF isForm /\ u = Plus THEN Blank ELSE u

\* Every way to write a byte of a value spells it.
LEMMA CodeSpelled ==
    ASSUME NEW code \in Seq(Nat), NEW byte \in Nat, Codes(code, byte)
    PROVE  Spelled(code, byte, TRUE)
<1>0. CASE /\ Len(code) = 3 /\ code[1] = Percent /\ {code[2], code[3]} \subseteq HexDigits
           /\ 16 * HexToInt(code[2]) + HexToInt(code[3]) = byte
  <2>1. IsEscape(code, 1)
    <3>1. 1 + 1 = 2 /\ 1 + 2 = 3
      OBVIOUS
    <3> QED  BY ONLY <1>0, <3>1 DEF IsEscape
  <2> QED  BY ONLY <1>0, <2>1 DEF Spelled
<1>1. CASE code = <<byte>> /\ byte \in Unreserved
  <2>1. byte # Percent /\ byte # Plus
    BY <1>1 DEF Unreserved, Digits, Uppers, Lowers, Percent, Plus
  <2> QED  BY <1>1, <2>1 DEF Spelled
<1>2. CASE code = <<Plus>> /\ byte = Blank
  <2>1. Plus \in Nat /\ Plus # Percent
    BY DEF Plus, Percent
  <2> QED  BY <1>2, <2>1 DEF Spelled
<1> QED  BY <1>0, <1>1, <1>2 DEF Codes

\* And so does what urlEncode writes for it.
LEMMA ByteSpelled ==
    ASSUME NEW c \in Byte
    PROVE  LET code == IF c \in Unreserved THEN <<c>>
                       ELSE <<Percent>> \o <<HexDigit(c \div 16), HexDigit(c % 16)>>
           IN  code \in Strings(Nat) /\ Spelled(code, c, FALSE)
<1>1. c \in Nat /\ c < 256
  BY DEF Byte
<1>2. CASE c \in Unreserved
  <2>1. c # Percent
    BY <1>2 DEF Unreserved, Digits, Uppers, Lowers, Percent
  <2>2. <<c>> \in Strings(Nat)
    BY <1>1, Tuples
  <2> QED  BY <1>1, <1>2, <2>1, <2>2 DEF Spelled
<1>3. CASE c \notin Unreserved
  <2>1. PICK a \in 0..15, b \in 0..15 : a = c \div 16 /\ b = c % 16 /\ 16 * a + b = c
    <3>1. c \div 16 \in 0..15 /\ c % 16 \in 0..15 /\ 16 * (c \div 16) + (c % 16) = c
      BY <1>1
    <3> QED  BY <3>1
  <2>2. \A n \in 0..15 : HexDigit(n) \in HexDigits /\ HexDigit(n) \in Nat /\ HexToInt(HexDigit(n)) = n
    BY DEF HexDigit, HexDigits, HexToInt, Digits, Uppers
  <2>3. PICK x \in HexDigits, y \in HexDigits : x = HexDigit(a) /\ y = HexDigit(b) /\ x \in Nat /\ y \in Nat
    BY <2>2
  <2> DEFINE code == <<Percent, x, y>>
  <2>4. HexToInt(x) = a /\ HexToInt(y) = b
    BY <2>1, <2>2, <2>3
  <2>5. Percent \in Nat
    BY DEF Percent
  <2>6. code \in Strings(Nat) /\ Len(code) = 3 /\ code[1] = Percent /\ code[2] = x /\ code[3] = y
    BY <2>3, <2>5, Tuples
  <2>7. <<Percent>> \o <<x, y>> = code
    BY <2>3, <2>5, OneAndTwo
  <2> HIDE DEF code
  <2>8. IsEscape(code, 1)
    <3>1. 1 + 1 = 2 /\ 1 + 2 = 3
      OBVIOUS
    <3> QED  BY <2>6, <3>1 DEF IsEscape
  <2>9. Spelled(code, c, FALSE)
    BY <2>1, <2>4, <2>6, <2>8 DEF Spelled
  <2> QED  BY ONLY <1>3, <2>1, <2>3, <2>6, <2>7, <2>9
<1> QED  BY <1>2, <1>3

\* And so does what a byte of a path is written as.
LEMMA PathSpelled ==
    ASSUME NEW c \in Byte
    PROVE  Spelled(PathCode(c), c, FALSE)
<1>1. c \in Nat
  BY DEF Byte
<1>2. CASE c = Slash
  <2>1. Slash # Percent
    BY DEF Slash, Percent
  <2> QED  BY <1>1, <1>2, <2>1 DEF Spelled, PathCode
<1>3. CASE c # Slash
  <2> DEFINE code == IF c \in Unreserved THEN <<c>>
                     ELSE <<Percent>> \o <<HexDigit(c \div 16), HexDigit(c % 16)>>
  <2>1. Spelled(code, c, FALSE)
    BY ByteSpelled
  <2>2. PathCode(c) = code
    <3>1. HexDigit(c \div 16) \in Nat /\ HexDigit(c % 16) \in Nat /\ Percent \in Nat
      BY <1>1 DEF HexDigit, Percent
    <3>2. <<Percent>> \o <<HexDigit(c \div 16), HexDigit(c % 16)>> = <<Percent, HexDigit(c \div 16), HexDigit(c % 16)>>
      BY <3>1, OneAndTwo
    <3> QED  BY <1>1, <1>3, <3>2, EncodedByte DEF PathCode
  <2> HIDE DEF code
  <2> QED  BY ONLY <2>1, <2>2
<1> QED  BY <1>2, <1>3

\* The decoder at the beginning of a code.
ReadAt(src, p, code, byte, isForm) ==
    p \in 1..Len(src) /\ ByteAt(src, isForm, p) = byte /\ NextAt(src, p) = p + Len(code)

\* The decoder reads at p the byte that is written there.
LEMMA CodeRead ==
    ASSUME NEW a \in Strings(Nat), NEW code \in Strings(Nat), NEW b \in Strings(Nat),
           NEW byte \in Nat, NEW isForm \in BOOLEAN, Spelled(code, byte, isForm)
    PROVE  ReadAt(a \o (code \o b), Len(a) + 1, code, byte, isForm)
<1>1. PICK src \in Strings(Nat) : src = a \o (code \o b)
  BY Joins
<1>2. PICK p \in Nat : p = Len(a) + 1
  BY Joins
<1>3. PICK t \in Strings(Nat) : t = code \o b
  BY Joins
<1>4. Joined(code, b) /\ Joined(a, t)
  BY Joining
<1>5. /\ Len(code) \in Nat /\ Len(b) \in Nat /\ Len(t) = Len(code) + Len(b)
      /\ \A i \in 1..Len(code) : t[i] = code[i]
  BY ONLY <1>3, <1>4 DEF Joined
<1>6. /\ Len(a) \in Nat /\ Len(src) = Len(a) + Len(t)
      /\ \A i \in 1..Len(t) : src[Len(a) + i] = t[i]
  BY ONLY <1>3, <1>4, <1>1 DEF Joined
<1>7. ASSUME NEW i \in 1..Len(code) PROVE src[Len(a) + i] = code[i]
  <2>1. i \in 1..Len(t)
    BY <1>5
  <2> QED  BY ONLY <1>5, <1>6, <2>1, i \in 1..Len(code)
<1>8. ASSUME Len(code) = 3, IsEscape(code, 1), 16 * HexToInt(code[2]) + HexToInt(code[3]) = byte
      PROVE  p \in 1..Len(src) /\ ByteAt(src, isForm, p) = byte /\ NextAt(src, p) = p + Len(code)
  <2>1. /\ 1 \in 1..Len(code) /\ 2 \in 1..Len(code) /\ 3 \in 1..Len(code)
        /\ Len(a) + 1 = p /\ Len(a) + 2 = p + 1 /\ Len(a) + 3 = p + 2 /\ p + 2 <= Len(src)
        /\ 1 + 1 = 2 /\ 1 + 2 = 3 /\ p \in 1..Len(src) /\ p + 3 = p + Len(code)
    BY <1>2, <1>5, <1>6, <1>8
  <2>2. src[p] = code[1] /\ src[p + 1] = code[2] /\ src[p + 2] = code[3]
    BY ONLY <2>1, <1>7
  <2>3. code[1] = Percent /\ {code[2], code[3]} \subseteq HexDigits
    BY ONLY <1>8, <2>1 DEF IsEscape
  <2>4. IsEscape(src, p)
    BY ONLY <2>1, <2>2, <2>3 DEF IsEscape
  <2> QED  BY ONLY <1>8, <2>1, <2>2, <2>4 DEF ByteAt, NextAt
<1>9. ASSUME NEW u \in Nat \ {Percent}, code = <<u>>, byte = IF isForm /\ u = Plus THEN Blank ELSE u
      PROVE  p \in 1..Len(src) /\ ByteAt(src, isForm, p) = byte /\ NextAt(src, p) = p + Len(code)
  <2>1. Len(code) = 1 /\ code[1] = u
    BY <1>9
  <2>2. 1 \in 1..Len(code) /\ Len(a) + 1 = p /\ p \in 1..Len(src)
    BY <2>1, <1>2, <1>5, <1>6
  <2>3. src[p] = u
    BY ONLY <2>1, <2>2, <1>7
  <2>4. ~IsEscape(src, p)
    BY <2>3 DEF IsEscape
  <2> QED  BY ONLY <1>9, <2>1, <2>2, <2>3, <2>4 DEF ByteAt, NextAt
<1>10. ReadAt(src, p, code, byte, isForm)
  BY <1>8, <1>9 DEF Spelled, ReadAt
<1> QED  BY ONLY <1>10, <1>1, <1>2

\* What a client writes with any codes for the bytes of a value is read as the value.
LEMMA DecodedBack ==
    ASSUME NEW codes \in Seq(Strings(Nat)), NEW value \in Seq(Nat), NEW isForm \in BOOLEAN,
           Len(codes) = Len(value), \A i \in 1..Len(value) : Spelled(codes[i], value[i], isForm)
    PROVE  Decoded(FlattenSeq(codes), isForm) = value
<1>1. PICK n \in Nat : n = Len(value) /\ n \in 0..n
  OBVIOUS
<1>2. ASSUME NEW i \in 1..n
      PROVE  /\ codes[i] \in Strings(Nat) /\ value[i] \in Nat /\ Spelled(codes[i], value[i], isForm)
             /\ i - 1 \in 0..n /\ i \in 0..n /\ (i - 1) + 1 = i
  BY <1>1, ElementOf
<1>3. /\ First(codes, 0) = <<>> /\ First(codes, n) = FlattenSeq(codes)
      /\ \A i \in 0..n : First(codes, i) \in Strings(Nat)
      /\ \A i \in 1..n : First(codes, i) = First(codes, i - 1) \o codes[i]
  BY <1>1, FirstSteps
<1>4. /\ \A i \in 0..n : Rest(codes, i) \in Strings(Nat)
      /\ \A i \in 1..n : Rest(codes, i - 1) = codes[i] \o Rest(codes, i)
  BY <1>1, RestSteps
<1>5. PICK src \in Strings(Nat) : src = FlattenSeq(codes)
  BY <1>1, <1>3
<1>6. PICK h : Decodes(h, src, isForm) /\ Decoded(src, isForm) = h[1]
  BY DecodedSteps DEF Strings
<1> DEFINE place(k) == Len(First(codes, k)) + 1
           E == {k \in 0..n : h[place(k)] = SubSeq(value, k + 1, n)}
<1>7. n \in E
  <2>1. place(n) = Len(src) + 1 /\ h[Len(src) + 1] = <<>>
    BY <1>3, <1>5, <1>6 DEF Decodes
  <2>2. SubSeq(value, n + 1, n) = <<>>
    BY <1>1
  <2> HIDE DEF place
  <2> QED  BY <1>1, <2>1, <2>2
<1>8. ASSUME NEW k \in 1..n, k \in E PROVE k - 1 \in E
  <2>1. PICK a \in Strings(Nat) : a = First(codes, k - 1)
    BY <1>2, <1>3
  <2>2. PICK code \in Strings(Nat), byte \in Nat :
           code = codes[k] /\ byte = value[k] /\ Spelled(code, byte, isForm)
    BY <1>2
  <2>3. PICK b \in Strings(Nat) : b = Rest(codes, k)
    BY <1>2, <1>4
  <2>4. src = a \o (code \o b)
    <3>1. FlattenSeq(codes) = First(codes, k - 1) \o Rest(codes, k - 1)
      BY <1>1, <1>2, FirstAndRest
    <3>2. Rest(codes, k - 1) = codes[k] \o Rest(codes, k)
      BY <1>4
    <3> QED  BY ONLY <1>5, <2>1, <2>2, <2>3, <3>1, <3>2
  <2>5. PICK p \in Nat : p = Len(a) + 1 /\ p = place(k - 1)
    <3>1. Len(a) \in Nat
      BY Joins
    <3> QED  BY <2>1, <3>1
  <2>6. p \in 1..Len(src) /\ ByteAt(src, isForm, p) = byte /\ NextAt(src, p) = p + Len(code)
    <3>1. ReadAt(a \o (code \o b), Len(a) + 1, code, byte, isForm)
      BY <2>2, CodeRead
    <3>2. ReadAt(src, p, code, byte, isForm)
      BY ONLY <3>1, <2>4, <2>5
    <3> QED  BY ONLY <3>2 DEF ReadAt
  <2>7. place(k) = p + Len(code)
    <3>1. First(codes, k) = a \o code
      BY <1>3, <2>1, <2>2
    <3>2. Joined(a, code)
      BY Joining
    <3>3. Len(First(codes, k)) = Len(a) + Len(code) /\ Len(a) \in Nat /\ Len(code) \in Nat
      BY ONLY <3>1, <3>2 DEF Joined
    <3> QED  BY <3>3, <2>5
  <2>8. h[p] = <<value[k]>> \o h[p + Len(code)]
    BY ONLY <1>6, <2>2, <2>6 DEF Decodes
  <2>9. h[p] = <<value[k]>> \o SubSeq(value, k + 1, n)
    BY ONLY <2>7, <2>8, <1>8
  <2>10. <<value[k]>> \o SubSeq(value, k + 1, n) = SubSeq(value, (k - 1) + 1, n)
    <3>1. PICK v \in Strings(Nat) : v = value
      BY DEF Strings
    <3>2. k \in Nat /\ n \in Nat /\ k <= n /\ n <= Len(v) /\ k - 1 \in Nat /\ k - 1 <= n /\ (k - 1) + 1 = k
      BY <1>1, <3>1
    <3>3. PICK j \in Nat : j = k - 1 /\ j <= n
      BY <3>2
    <3> DEFINE s == SubSeq(v, k + 1, n)
               t == SubSeq(v, j + 1, n)
               w == <<v[k]>>
    <3>4. s \in Strings(Nat) /\ Len(s) = n - k /\ \A i \in 1..(n - k) : s[i] = v[k + i]
      BY <3>2, Cut
    <3>5. t \in Strings(Nat) /\ Len(t) = n - j /\ \A i \in 1..(n - j) : t[i] = v[j + i]
      <4>1. v \in Strings(Nat) /\ j \in Nat /\ n \in Nat /\ j <= n /\ n <= Len(v)
        BY <3>1, <3>2, <3>3
      <4>2. Excerpt(Nat, v, j, n)
        BY ONLY <4>1, Excerpts
      <4> QED  BY ONLY <4>2 DEF Excerpt, t
    <3>6. w \in Strings(Nat) /\ Len(w) = 1 /\ w[1] = v[k]
      BY <1>2, <3>1, Tuples
    <3> HIDE DEF s, t, w
    <3>7. Joined(w, s) /\ w \o s \in Strings(Nat)
      BY <3>4, <3>6, Joining, Joins
    <3>8. /\ Len(w \o s) = 1 + (n - k)
          /\ \A i \in 1..1 : (w \o s)[i] = w[i]
          /\ \A i \in 1..(n - k) : (w \o s)[1 + i] = s[i]
      BY ONLY <3>4, <3>6, <3>7 DEF Joined
    <3>9. PICK x \in Strings(Nat) : x = w \o s
      BY <3>7
    <3>10. ASSUME NEW i \in 1..Len(x) PROVE x[i] = t[i]
      <4>1. i \in 1..(n - j)
        BY <3>2, <3>3, <3>8, <3>9
      <4>2. CASE i = 1
        <5>1. j + 1 = k /\ 1 \in 1..(n - j) /\ 1 \in 1..1
          BY <3>2, <3>3
        <5>2. x[1] = w[1]
          BY ONLY <5>1, <3>8, <3>9
        <5>3. t[1] = v[k]
          BY ONLY <5>1, <3>5
        <5> QED  BY <4>2, <5>2, <5>3, <3>6
      <4>3. CASE i # 1
        <5>1. PICK l \in 1..(n - k) : i = 1 + l /\ j + i = k + l
          <6>1. i - 1 \in 1..(n - k) /\ i = 1 + (i - 1) /\ j + i = k + (i - 1)
            BY <3>2, <3>3, <4>1, <4>3
          <6> QED  BY <6>1
        <5>2. x[i] = s[l] /\ s[l] = v[k + l] /\ t[i] = v[j + i]
          BY ONLY <5>1, <3>8, <3>9, <3>4, <3>5, <4>1
        <5> QED  BY <5>1, <5>2
      <4> QED  BY <4>2, <4>3
    <3>11. Len(x) = Len(t)
      BY <3>2, <3>3, <3>5, <3>8, <3>9
    <3>12. x = t
      BY <3>5, <3>10, <3>11, SameString
    <3> QED  BY <3>1, <3>3, <3>9, <3>12 DEF s, t, w
  <2>11. h[place(k - 1)] = SubSeq(value, (k - 1) + 1, n)
    BY ONLY <2>5, <2>9, <2>10
  <2> QED  BY <1>2, <2>11
<1>9. n \in Nat
  OBVIOUS
<1>10. h[1] = value
  <2>1. place(0) = 1
    BY <1>3
  <2> HIDE DEF E
  <2>2. 0..n \subseteq E
    BY <1>7, <1>8, DownFrom
  <2>3. 0 \in E
    BY <2>2, <1>1
  <2>4. h[1] = SubSeq(value, 0 + 1, n)
    BY <2>1, <2>3 DEF E
  <2>5. SubSeq(value, 1, n) = value
    BY <1>1
  <2> QED  BY <2>4, <2>5
<1> QED  BY <1>5, <1>6, <1>10

-----------------------------------------------------------------------------
(* Queries *)

\* A part of what is written.
LEMMA Middle ==
    ASSUME NEW S, NEW s \in Strings(S), NEW w \in Strings(S), NEW t \in Strings(S)
    PROVE  SubSeq(s \o (w \o t), Len(s) + 1, Len(s) + Len(w)) = w
<1>1. PICK u \in Strings(S) : u = w \o t
  BY Joins
<1>2. PICK v \in Strings(S) : v = s \o u
  BY Joins
<1>3. Joined(w, t) /\ Joined(s, u)
  BY Joining
<1>4. /\ Len(s) \in Nat /\ Len(w) \in Nat /\ Len(t) \in Nat /\ Len(v) = Len(s) + Len(u) /\ Len(u) = Len(w) + Len(t)
      /\ \A i \in 1..Len(u) : v[Len(s) + i] = u[i]
      /\ \A i \in 1..Len(w) : u[i] = w[i]
  BY ONLY <1>1, <1>2, <1>3 DEF Joined
<1>5. PICK a \in Nat, b \in Nat : a = Len(s) /\ b = Len(s) + Len(w) /\ a <= b /\ b <= Len(v) /\ b - a = Len(w)
  BY <1>4
<1> DEFINE x == SubSeq(v, a + 1, b)
<1>6. x \in Strings(S) /\ Len(x) = b - a /\ \A i \in 1..(b - a) : x[i] = v[a + i]
  BY <1>5, Cut
<1> HIDE DEF x
<1>7. ASSUME NEW i \in 1..Len(x) PROVE x[i] = w[i]
  <2>1. i \in 1..(b - a) /\ i \in 1..Len(u) /\ i \in 1..Len(w)
    BY <1>4, <1>5, <1>6
  <2>2. x[i] = v[a + i] /\ v[a + i] = u[i] /\ u[i] = w[i]
    BY ONLY <2>1, <1>4, <1>5, <1>6
  <2> QED  BY <2>2
<1>8. x = w
  BY <1>5, <1>6, <1>7, SameString
<1>9. SubSeq(v, a + 1, b) = w
  BY <1>8 DEF x
<1> QED  BY ONLY <1>1, <1>2, <1>5, <1>9

\* Before the first delimiter of a text stands s, and t behind it.
Delimited(text, c, s, t) ==
    /\ Positions(text, c) # {}
    /\ SubSeq(text, 1, Min(Positions(text, c)) - 1) = s
    /\ SubSeq(text, Min(Positions(text, c)) + 1, Len(text)) = t

\* A text is cut at the first of its delimiters.
LEMMA AtDelimiter ==
    ASSUME NEW s \in Strings(Nat), NEW c \in Nat, NEW t \in Strings(Nat), Free(s, {c})
    PROVE  Delimited(s \o (<<c>> \o t), c, s, t)
<1>1. PICK u \in Strings(Nat), d \in Strings(Nat) : d = <<c>> /\ Len(d) = 1 /\ d[1] = c /\ u = d \o t
  <2>1. <<c>> \in Strings(Nat) /\ Len(<<c>>) = 1 /\ <<c>>[1] = c
    BY Tuples
  <2> QED  BY <2>1, Joins
<1>2. PICK text \in Strings(Nat) : text = s \o u
  BY Joins
<1>3. Joined(d, t) /\ Joined(s, u) /\ Joined(s, d)
  BY Joining
<1>4. /\ Len(s) \in Nat /\ Len(t) \in Nat /\ Len(text) = Len(s) + Len(u) /\ Len(u) = 1 + Len(t)
      /\ DOMAIN text = 1..Len(text)
      /\ Len(s \o d) = Len(s) + 1
      /\ \A i \in 1..Len(s) : text[i] = s[i]
      /\ \A i \in 1..Len(u) : text[Len(s) + i] = u[i]
      /\ \A i \in 1..Len(d) : u[i] = d[i]
  BY ONLY <1>1, <1>2, <1>3 DEF Joined
<1>5. \A i \in 1..Len(s) : s[i] # c
  BY DEF Free, Strings
<1>6. Positions(text, c) \in SUBSET Int
  BY <1>4 DEF Positions
<1>7. Len(s) + 1 \in Positions(text, c)
  <2>1. Len(s) + 1 \in 1..Len(text) /\ 1 \in 1..Len(u) /\ 1 \in 1..Len(d)
    BY <1>1, <1>4
  <2>2. text[Len(s) + 1] = c
    BY ONLY <2>1, <1>1, <1>4
  <2> QED  BY <2>1, <2>2, <1>4 DEF Positions
<1>8. ASSUME NEW i \in Positions(text, c) PROVE Len(s) + 1 <= i
  <2>1. i \in 1..Len(text) /\ text[i] = c
    BY <1>4 DEF Positions
  <2>2. i \notin 1..Len(s)
    BY ONLY <2>1, <1>4, <1>5
  <2> QED  BY <2>1, <2>2, <1>4
<1>9. Min(Positions(text, c)) = Len(s) + 1
  <2>1. PICK p \in Positions(text, c) : p = Len(s) + 1
    BY <1>7
  <2>2. \A i \in Positions(text, c) : p <= i
    BY <1>8, <2>1
  <2>3. Min(Positions(text, c)) = p
    BY <1>6, <2>2, MinIs
  <2> QED  BY <2>1, <2>3
<1>10. SubSeq(text, 1, Len(s)) = s
  <2>1. SubSeq(s \o u, 1, Len(s)) = s
    BY JoinParts
  <2> QED  BY ONLY <2>1, <1>2
<1>11. SubSeq(text, Len(s) + 2, Len(text)) = t
  <2>1. PICK a \in Strings(Nat) : a = s \o d
    BY Joins
  <2>2. SubSeq(a \o t, Len(a) + 1, Len(a \o t)) = t
    BY JoinParts
  <2>3. Grouped(s, d, t)
    BY Grouping
  <2>4. a \o t = text
    BY ONLY <1>1, <1>2, <2>1, <2>3 DEF Grouped
  <2>5. Len(a) + 1 = Len(s) + 2
    BY ONLY <1>4, <2>1
  <2> QED  BY ONLY <2>2, <2>4, <2>5
<1>12. (Len(s) + 1) - 1 = Len(s) /\ (Len(s) + 1) + 1 = Len(s) + 2
  BY <1>4
<1>13. Delimited(text, c, s, t)
  <2>1. Positions(text, c) # {}
    BY ONLY <1>7
  <2>2. SubSeq(text, 1, Min(Positions(text, c)) - 1) = s
    BY ONLY <1>9, <1>10, <1>12
  <2>3. SubSeq(text, Min(Positions(text, c)) + 1, Len(text)) = t
    BY ONLY <1>9, <1>11, <1>12
  <2> QED  BY ONLY <2>1, <2>2, <2>3 DEF Delimited
<1>14. text = s \o (<<c>> \o t)
  BY ONLY <1>1, <1>2
<1> QED  BY ONLY <1>13, <1>14

\* A word without the delimiter.
LEMMA NoDelimiter ==
    ASSUME NEW s, NEW c, Free(s, {c})
    PROVE  Positions(s, c) = {}
  BY DEF Free, Positions

\* The name and the value of a parameter are read as they are meant.
LEMMA ParamRead ==
    ASSUME NEW p \in ParamFields, IsParam(p)
    PROVE  /\ ParamName(ParamText(p)) = p.name
           /\ ParamValue(ParamText(p), BufSize) = SubSeq(p.value, 1, Min({BufSize - 1, Len(p.value)}))
<1>1. PICK s \in Strings(Nat) : s = p.name /\ Free(s, {EqualsSign})
  <2>1. p.name \in Strings(Nat) /\ Free(p.name, {EqualsSign, Ampersand, Blank})
    BY ParamParts
  <2> QED  BY <2>1 DEF Free
<1>2. PICK t \in Strings(Nat) : t = FlattenSeq(p.codes)
  BY ParamParts
<1>3. /\ p.codes \in Seq(Strings(Nat)) /\ p.value \in Seq(Nat) /\ Len(p.codes) = Len(p.value)
      /\ \A i \in 1..Len(p.value) : Codes(p.codes[i], p.value[i])
      /\ p.equals \in BOOLEAN /\ (p.value # <<>> => p.equals)
  BY ParamParts
<1>4. CASE p.equals
  <2>1. PICK d \in Strings(Nat) : d = <<EqualsSign>>
    BY Tuples DEF EqualsSign
  <2>2. ParamText(p) = s \o (<<EqualsSign>> \o t)
    <3>1. Grouped(s, d, t)
      BY Grouping
    <3>2. ParamText(p) = (s \o d) \o t
      BY ONLY <1>1, <1>2, <1>4, <2>1 DEF ParamText
    <3> QED  BY ONLY <2>1, <3>1, <3>2 DEF Grouped
  <2>3. Delimited(s \o (<<EqualsSign>> \o t), EqualsSign, s, t)
    <3>1. EqualsSign \in Nat
      BY DEF EqualsSign
    <3> QED  BY <1>1, <3>1, AtDelimiter
  <2>4. Delimited(ParamText(p), EqualsSign, s, t)
    BY ONLY <2>2, <2>3
  <2>5. ParamName(ParamText(p)) = s /\ ParamValue(ParamText(p), BufSize) = UrlDecode(t, BufSize)
    BY ONLY <2>4 DEF Delimited, ParamName, ParamValue
  <2>6. Decoded(t, TRUE) = p.value
    <3>1. ASSUME NEW i \in 1..Len(p.value) PROVE Spelled(p.codes[i], p.value[i], TRUE)
      <4>1. p.codes[i] \in Seq(Nat) /\ p.value[i] \in Nat /\ Codes(p.codes[i], p.value[i])
        BY <1>3, ElementOf DEF Strings
      <4> QED  BY <4>1, CodeSpelled
    <3>2. Decoded(FlattenSeq(p.codes), TRUE) = p.value
      BY <1>3, <3>1, DecodedBack
    <3> QED  BY <1>2, <3>2
  <2> QED  BY ONLY <1>1, <2>5, <2>6 DEF UrlDecode
<1>5. CASE ~p.equals
  <2>1. p.value = <<>> /\ p.codes = <<>>
    BY <1>3, <1>5
  <2>2. t = <<>>
    BY <1>2, <2>1 DEF FlattenSeq
  <2>3. ParamText(p) = s
    <3>1. ParamText(p) = (s \o <<>>) \o <<>>
      BY ONLY <1>1, <1>2, <1>5, <2>2 DEF ParamText
    <3>2. s \o <<>> = s
      BY Joins
    <3> QED  BY ONLY <3>1, <3>2
  <2>4. Positions(s, EqualsSign) = {}
    BY <1>1, NoDelimiter
  <2>5. ParamName(ParamText(p)) = s /\ ParamValue(ParamText(p), BufSize) = <<>>
    BY <2>3, <2>4 DEF ParamName, ParamValue
  <2>6. SubSeq(p.value, 1, Min({BufSize - 1, Len(p.value)})) = <<>>
    <3>1. Len(p.value) = 0 /\ BufSize - 1 \in Nat
      BY <2>1, BufSizePositive
    <3>2. Min({BufSize - 1, 0}) = 0
      <4>1. Min({BufSize - 1, 0}) = IF BufSize - 1 <= 0 THEN BufSize - 1 ELSE 0
        BY <3>1, LesserOf
      <4> QED  BY <3>1, <4>1
    <3> QED  BY <2>1, <3>1, <3>2
  <2> QED  BY <1>1, <2>5, <2>6
<1> QED  BY <1>3, <1>4, <1>5

\* Words with a delimiter between them.
Parted(c, words) == [i \in DOMAIN words |-> (IF i = 1 THEN <<>> ELSE <<c>>) \o words[i]]
\* Where the k-th of them starts.
Start(c, words, k) == Len(First(Parted(c, words), k - 1)) + (IF k = 1 THEN 1 ELSE 2)

\* The words with their delimiters are texts.
LEMMA PartedType ==
    ASSUME NEW c \in Nat, NEW words \in Seq(Strings(Nat))
    PROVE  /\ Parted(c, words) \in Seq(Strings(Nat)) /\ Len(Parted(c, words)) = Len(words)
           /\ \A i \in 1..Len(words) :
                 Parted(c, words)[i] = (IF i = 1 THEN <<>> ELSE <<c>>) \o words[i]
<1>1. PICK n \in Nat : n = Len(words) /\ DOMAIN words = 1..n
  OBVIOUS
<1> DEFINE piece(i) == (IF i = 1 THEN <<>> ELSE <<c>>) \o words[i]
           P == [i \in 1..n |-> piece(i)]
<1>2. ASSUME NEW i \in 1..n PROVE piece(i) \in Strings(Nat)
  <2>1. words[i] \in Strings(Nat)
    BY <1>1, ElementOf
  <2>2. <<c>> \in Strings(Nat) /\ <<>> \in Strings(Nat)
    BY Tuples, Joins
  <2> QED  BY <2>1, <2>2, Joins
<1>3. Parted(c, words) = P
  BY ONLY <1>1 DEF Parted, P, piece
<1> HIDE DEF piece
<1>4. /\ P \in Seq(Strings(Nat)) /\ Len(P) = n
      /\ \A i \in 1..n : P[i] = piece(i)
  BY <1>2
<1> HIDE DEF P
<1> QED  BY ONLY <1>1, <1>4, <1>3 DEF piece

\* Where a unit stands in two texts, one after the other.
LEMMA JoinPositions ==
    ASSUME NEW S, NEW s \in Strings(S), NEW t \in Strings(S), NEW c
    PROVE  Positions(s \o t, c) = Positions(s, c) \cup {Len(s) + i : i \in Positions(t, c)}
<1>1. PICK u \in Strings(S) : u = s \o t
  BY Joins
<1>2. Joined(s, t)
  BY Joining
<1>3. /\ Len(s) \in Nat /\ Len(t) \in Nat /\ DOMAIN u = 1..(Len(s) + Len(t))
      /\ \A i \in 1..Len(s) : u[i] = s[i]
      /\ \A i \in 1..Len(t) : u[Len(s) + i] = t[i]
  BY ONLY <1>1, <1>2 DEF Joined
<1>4. DOMAIN s = 1..Len(s) /\ DOMAIN t = 1..Len(t)
  BY DEF Strings
<1>5. ASSUME NEW i \in Positions(u, c)
      PROVE  i \in Positions(s, c) \cup {Len(s) + j : j \in Positions(t, c)}
  <2>1. i \in 1..(Len(s) + Len(t)) /\ u[i] = c
    BY <1>3 DEF Positions
  <2>2. CASE i <= Len(s)
    <3>1. i \in 1..Len(s)
      BY <2>1, <2>2, <1>3
    <3>2. s[i] = c
      BY <3>1, <2>1, <1>3
    <3> QED  BY <3>1, <3>2, <1>4 DEF Positions
  <2>3. CASE ~(i <= Len(s))
    <3>1. PICK j \in 1..Len(t) : i = Len(s) + j
      <4>1. i - Len(s) \in 1..Len(t) /\ i = Len(s) + (i - Len(s))
        BY <2>1, <2>3, <1>3
      <4> QED  BY <4>1
    <3>2. t[j] = c
      BY <3>1, <2>1, <1>3
    <3>3. j \in Positions(t, c)
      BY <3>1, <3>2, <1>4 DEF Positions
    <3> QED  BY <3>1, <3>3
  <2> QED  BY <2>2, <2>3
<1>6. ASSUME NEW i \in Positions(s, c) PROVE i \in Positions(u, c)
  <2>1. i \in 1..Len(s) /\ s[i] = c
    BY <1>4 DEF Positions
  <2>2. u[i] = c /\ i \in 1..(Len(s) + Len(t))
    BY <2>1, <1>3
  <2> QED  BY <2>2, <1>3 DEF Positions
<1>7. ASSUME NEW j \in Positions(t, c) PROVE Len(s) + j \in Positions(u, c)
  <2>1. j \in 1..Len(t) /\ t[j] = c
    BY <1>4 DEF Positions
  <2>2. u[Len(s) + j] = c /\ Len(s) + j \in 1..(Len(s) + Len(t))
    BY <2>1, <1>3
  <2> QED  BY <2>2, <1>3 DEF Positions
<1>8. Positions(u, c) = Positions(s, c) \cup {Len(s) + i : i \in Positions(t, c)}
  BY ONLY <1>5, <1>6, <1>7
<1> QED  BY <1>1, <1>8

\* The words, one after the other.
Placed(c, words, k) ==
    /\ Start(c, words, k) \in Nat \ {0} /\ Start(c, words, 1) = 1
    /\ Len(words[k]) \in Nat
    /\ Len(First(Parted(c, words), k)) = Start(c, words, k) + Len(words[k]) - 1
    /\ Start(c, words, k + 1) = Start(c, words, k) + Len(words[k]) + 1

\* The next word begins where the one before it and its delimiter end.
LEMMA Starts ==
    ASSUME NEW c \in Nat, NEW words \in Seq(Strings(Nat)), NEW k \in 1..Len(words)
    PROVE  Placed(c, words, k)
<1>1. PICK n \in Nat : n = Len(words) /\ k \in 1..n /\ k - 1 \in 0..n /\ k + 1 # 1
  OBVIOUS
<1>2. PICK seqs \in Seq(Strings(Nat)) :
         /\ seqs = Parted(c, words) /\ n = Len(seqs)
         /\ \A i \in 1..n : seqs[i] = (IF i = 1 THEN <<>> ELSE <<c>>) \o words[i]
  <2>1. /\ Parted(c, words) \in Seq(Strings(Nat)) /\ Len(Parted(c, words)) = Len(words)
        /\ \A i \in 1..Len(words) :
              Parted(c, words)[i] = (IF i = 1 THEN <<>> ELSE <<c>>) \o words[i]
    BY PartedType
  <2> QED  BY ONLY <2>1, <1>1
<1>3. PICK a \in Strings(Nat), w \in Strings(Nat) : a = First(seqs, k - 1) /\ w = words[k]
  <2>1. First(seqs, k - 1) \in Strings(Nat)
    BY <1>1, <1>2, FirstSteps
  <2>2. words[k] \in Strings(Nat)
    BY ElementOf
  <2> QED  BY <2>1, <2>2
<1>4. PICK d \in Strings(Nat) : d = (IF k = 1 THEN <<>> ELSE <<c>>) /\ Len(d) = IF k = 1 THEN 0 ELSE 1
  <2>1. <<c>> \in Strings(Nat) /\ <<>> \in Strings(Nat) /\ Len(<<c>>) = 1 /\ Len(<<>>) = 0
    BY Tuples, Joins
  <2> QED  BY <2>1
<1>5. First(seqs, k) = a \o (d \o w)
  <2>1. First(seqs, k) = First(seqs, k - 1) \o seqs[k]
    BY <1>1, <1>2, FirstSteps
  <2>2. seqs[k] = d \o w
    BY ONLY <1>1, <1>3, <1>4, <1>2
  <2> QED  BY ONLY <2>1, <2>2, <1>3
<1>6. PICK e \in Strings(Nat) : e = d \o w
  BY Joins
<1>7. Joined(d, w) /\ Joined(a, e)
  BY Joining
<1>8. /\ Len(a) \in Nat /\ Len(w) \in Nat
      /\ Len(First(seqs, k)) = Len(a) + (Len(d) + Len(w))
  BY ONLY <1>5, <1>6, <1>7 DEF Joined
<1>9. Start(c, words, k) = Len(a) + (IF k = 1 THEN 1 ELSE 2)
  BY ONLY <1>3, <1>2 DEF Start
<1>10. Start(c, words, k + 1) = Len(First(seqs, k)) + 2
  <2>1. (k + 1) - 1 = k
    OBVIOUS
  <2> QED  BY ONLY <2>1, <1>1, <1>2 DEF Start
<1>11. Start(c, words, 1) = 1
  <2>1. First(seqs, 0) = <<>>
    BY FirstSteps
  <2>2. Len(<<>>) = 0 /\ 1 - 1 = 0
    OBVIOUS
  <2>3. First(seqs, 1 - 1) = <<>>
    BY ONLY <2>1, <2>2
  <2> QED  BY ONLY <2>2, <2>3, <1>2 DEF Start
<1>12. /\ Start(c, words, k) \in Nat \ {0} /\ Len(words[k]) \in Nat
       /\ Len(First(seqs, k)) = Start(c, words, k) + Len(words[k]) - 1
       /\ Start(c, words, k + 1) = Start(c, words, k) + Len(words[k]) + 1
  <2>1. PICK x \in Nat, y \in Nat, z \in 0..1 :
           x = Len(a) /\ y = Len(words[k]) /\ z = Len(d) /\ (z = 0 <=> k = 1)
    BY <1>3, <1>4, <1>8
  <2>2. Start(c, words, k) = x + z + 1 /\ Len(First(seqs, k)) = x + (z + y)
    <3>1. CASE k = 1
      BY <3>1, <2>1, <1>3, <1>8, <1>9
    <3>2. CASE k # 1
      <4>1. z = 1
        BY <3>2, <2>1
      <4>2. Start(c, words, k) = Len(a) + 2
        BY ONLY <1>9, <3>2
      <4>3. Len(First(seqs, k)) = Len(a) + (Len(d) + Len(words[k]))
        BY ONLY <1>3, <1>8
      <4>4. x + 2 = x + 1 + 1
        OBVIOUS
      <4> QED  BY ONLY <4>1, <4>2, <4>3, <4>4, <2>1
    <3> QED  BY <3>1, <3>2
  <2>3. x + z + 1 \in Nat \ {0} /\ x + (z + y) = (x + z + 1) + y - 1
        /\ (x + (z + y)) + 2 = (x + z + 1) + y + 1
    OBVIOUS
  <2> QED  BY ONLY <2>1, <2>2, <2>3, <1>10, y \in Nat
<1> QED  BY ONLY <1>11, <1>2, <1>12 DEF Placed

\* Words begin one behind the other.
LEMMA StartsGrow ==
    ASSUME NEW c \in Nat, NEW words \in Seq(Strings(Nat)),
           NEW j \in 1..Len(words), NEW k \in 1..Len(words), j < k
    PROVE  Start(c, words, j) + Len(words[j]) + 1 <= Start(c, words, k)
<1>1. PICK n \in Nat : n = Len(words) /\ j \in 1..n /\ k \in 1..n
  OBVIOUS
<1>2. ASSUME NEW i \in 1..n
      PROVE  /\ Start(c, words, i) \in Nat /\ Len(words[i]) \in Nat
             /\ Start(c, words, i + 1) = Start(c, words, i) + Len(words[i]) + 1
  <2>1. Placed(c, words, i)
    BY <1>1, Starts
  <2> QED  BY <2>1 DEF Placed
<1> DEFINE E == {i \in 0..n : i <= j \/ Start(c, words, j) + Len(words[j]) + 1 <= Start(c, words, i)}
<1>3. 0 \in E
  BY <1>1
<1>4. ASSUME NEW i \in 0..n, i \in E, i < n PROVE i + 1 \in E
  <2>1. CASE i < j
    BY <2>1, <1>1, <1>4
  <2>2. CASE i = j
    <3>1. Start(c, words, i + 1) = Start(c, words, i) + Len(words[i]) + 1 /\ i + 1 \in 0..n
      BY <2>2, <1>1, <1>2, <1>4
    <3>2. Start(c, words, j) + Len(words[j]) + 1 <= Start(c, words, j) + Len(words[j]) + 1
      BY <1>1, <1>2
    <3> QED  BY <2>2, <3>1, <3>2
  <2>3. CASE i > j
    <3>1. i \in 1..n /\ i + 1 \in 0..n
      BY <2>3, <1>1, <1>4
    <3>2. /\ Start(c, words, i + 1) = Start(c, words, i) + Len(words[i]) + 1
          /\ Start(c, words, i) \in Nat /\ Len(words[i]) \in Nat
          /\ Start(c, words, j) \in Nat /\ Len(words[j]) \in Nat
      BY <3>1, <1>1, <1>2
    <3>3. Start(c, words, j) + Len(words[j]) + 1 <= Start(c, words, i)
      BY <2>3, <1>1, <1>4
    <3>4. Start(c, words, j) + Len(words[j]) + 1 <= Start(c, words, i + 1)
      <4>1. PICK x \in Nat, y \in Nat : x = Start(c, words, i) /\ y = Len(words[i])
        BY ONLY <3>2
      <4>2. PICK z \in Nat : z = Start(c, words, j) + Len(words[j]) + 1
        BY ONLY <3>2
      <4>3. z <= x /\ Start(c, words, i + 1) = x + y + 1
        BY ONLY <3>2, <3>3, <4>1, <4>2
      <4>4. z <= x + y + 1
        BY ONLY <4>3, x \in Nat, y \in Nat, z \in Nat
      <4> QED  BY ONLY <4>2, <4>3, <4>4
    <3> QED  BY <3>1, <3>4
  <2> QED  BY <2>1, <2>2, <2>3, <1>1
<1> HIDE DEF E
<1>5. 0..n \subseteq E
  BY <1>3, <1>4, UpTo
<1>6. k \in E
  BY <1>1, <1>5
<1> QED  BY <1>1, <1>6 DEF E

\* The delimiters stand right before the words but the first.
LEMMA SignPlaces ==
    ASSUME NEW c \in Nat, NEW words \in Seq(Strings(Nat)), \A i \in 1..Len(words) : Free(words[i], {c})
    PROVE  Positions(FlattenSeq(Parted(c, words)), c) = {Start(c, words, k) - 1 : k \in 2..Len(words)}
<1>1. PICK n \in Nat : n = Len(words) /\ n \in 0..n
  OBVIOUS
<1>2. PICK seqs \in Seq(Strings(Nat)) :
         /\ seqs = Parted(c, words) /\ n = Len(seqs)
         /\ \A i \in 1..n : seqs[i] = (IF i = 1 THEN <<>> ELSE <<c>>) \o words[i]
  <2>1. /\ Parted(c, words) \in Seq(Strings(Nat)) /\ Len(Parted(c, words)) = Len(words)
        /\ \A i \in 1..Len(words) :
              Parted(c, words)[i] = (IF i = 1 THEN <<>> ELSE <<c>>) \o words[i]
    BY PartedType
  <2> QED  BY ONLY <2>1, <1>1
<1>3. /\ First(seqs, 0) = <<>> /\ First(seqs, n) = FlattenSeq(seqs)
      /\ \A i \in 0..n : First(seqs, i) \in Strings(Nat)
      /\ \A i \in 1..n : First(seqs, i) = First(seqs, i - 1) \o seqs[i]
  BY <1>1, <1>2, FirstSteps
<1> DEFINE E == {i \in 0..n : Positions(First(seqs, i), c) = {Start(c, words, k) - 1 : k \in 2..i}}
<1>4. 0 \in E
  <2>1. Positions(<<>>, c) = {}
    BY DEF Positions
  <2>2. {Start(c, words, k) - 1 : k \in 2..0} = {}
    OBVIOUS
  <2> QED  BY <1>1, <1>3, <2>1, <2>2
<1>5. ASSUME NEW i \in 0..n, i \in E, i < n PROVE i + 1 \in E
  <2>1. PICK j \in 1..n : j = i + 1 /\ j - 1 = i /\ j \in 0..n
    BY <1>5
  <2>2. PICK a \in Strings(Nat), w \in Strings(Nat) : a = First(seqs, i) /\ w = words[j] /\ Free(w, {c})
    <3>1. words[j] \in Strings(Nat)
      BY <1>1, ElementOf
    <3> QED  BY <1>1, <1>3, <3>1
  <2>3. Positions(w, c) = {}
    BY <2>2, NoDelimiter
  <2>4. CASE j = 1
    <3>1. seqs[j] = <<>> \o w
      BY ONLY <1>2, <2>1, <2>2, <2>4
    <3>2. <<>> \o w = w
      BY Joins
    <3>3. First(seqs, j) = <<>> \o w
      <4>1. i = 0
        BY <2>1, <2>4
      <4>2. First(seqs, j) = First(seqs, i) \o seqs[j]
        BY <1>3, <2>1
      <4> QED  BY ONLY <1>3, <3>1, <3>2, <4>1, <4>2
    <3>4. Positions(First(seqs, j), c) = {}
      BY ONLY <2>3, <3>2, <3>3
    <3>5. {Start(c, words, k) - 1 : k \in 2..j} = {}
      BY <2>4
    <3> QED  BY <2>1, <3>4, <3>5
  <2>5. CASE j # 1
    <3>1. PICK d \in Strings(Nat) : d = <<c>> /\ Positions(d, c) = {1} /\ Len(d) = 1
      <4>1. <<c>> \in Strings(Nat) /\ Positions(<<c>>, c) = {1} /\ Len(<<c>>) = 1
        BY Tuples DEF Positions
      <4> QED  BY <4>1
    <3>2. seqs[j] = d \o w
      BY ONLY <1>2, <2>1, <2>2, <2>5, <3>1
    <3>3. Positions(d \o w, c) = Positions(d, c) \cup {Len(d) + l : l \in Positions(w, c)}
      BY JoinPositions
    <3>4. Positions(d \o w, c) = {1}
      BY ONLY <2>3, <3>1, <3>3
    <3>5. PICK e \in Strings(Nat) : e = d \o w
      BY Joins
    <3>6. Positions(a \o e, c) = Positions(a, c) \cup {Len(a) + l : l \in Positions(e, c)}
      BY JoinPositions
    <3>7. First(seqs, j) = a \o e
      BY <1>3, <2>1, <2>2, <3>2, <3>5
    <3>8. Positions(First(seqs, j), c) = Positions(a, c) \cup {Len(a) + 1}
      BY ONLY <3>4, <3>5, <3>6, <3>7
    <3>9. Len(a) + 1 = Start(c, words, j) - 1
      <4>1. Start(c, words, j) = Len(a) + 2
        BY <1>2, <2>1, <2>2, <2>5 DEF Start
      <4>2. Len(a) \in Nat
        BY Joins
      <4> QED  BY <4>1, <4>2
    <3>10. Positions(a, c) = {Start(c, words, k) - 1 : k \in 2..i}
      BY <1>5, <2>2
    <3>11. 2..j = 2..i \cup {j}
      BY <2>1, <2>5
    <3>12. {Start(c, words, k) - 1 : k \in 2..j} = {Start(c, words, k) - 1 : k \in 2..i} \cup {Start(c, words, j) - 1}
      BY ONLY <3>11
    <3>13. Positions(First(seqs, j), c) = {Start(c, words, k) - 1 : k \in 2..j}
      BY ONLY <3>8, <3>9, <3>10, <3>12
    <3> QED  BY <2>1, <3>13
  <2> QED  BY <2>4, <2>5
<1> HIDE DEF E
<1>6. n \in E
  BY <1>1, <1>4, <1>5, UpTo
<1> QED  BY <1>1, <1>2, <1>3, <1>6 DEF E

\* Cut out of the text, they are the words again.
LEMMA WordFound ==
    ASSUME NEW c \in Nat, NEW words \in Seq(Strings(Nat)), NEW k \in 1..Len(words)
    PROVE  /\ FlattenSeq(Parted(c, words)) \in Strings(Nat)
           /\ Start(c, words, k) + Len(words[k]) - 1 <= Len(FlattenSeq(Parted(c, words)))
           /\ k = Len(words) => Start(c, words, k) + Len(words[k]) - 1 = Len(FlattenSeq(Parted(c, words)))
           /\ SubSeq(FlattenSeq(Parted(c, words)), Start(c, words, k), Start(c, words, k) + Len(words[k]) - 1)
                = words[k]
<1>1. PICK n \in Nat : n = Len(words) /\ k \in 1..n /\ k - 1 \in 0..n /\ k \in 0..n /\ n \in 0..n
  OBVIOUS
<1>2. PICK seqs \in Seq(Strings(Nat)) :
         /\ seqs = Parted(c, words) /\ n = Len(seqs)
         /\ \A i \in 1..n : seqs[i] = (IF i = 1 THEN <<>> ELSE <<c>>) \o words[i]
  <2>1. /\ Parted(c, words) \in Seq(Strings(Nat)) /\ Len(Parted(c, words)) = Len(words)
        /\ \A i \in 1..Len(words) :
              Parted(c, words)[i] = (IF i = 1 THEN <<>> ELSE <<c>>) \o words[i]
    BY PartedType
  <2> QED  BY ONLY <2>1, <1>1
<1>3. PICK a \in Strings(Nat), w \in Strings(Nat), b \in Strings(Nat) :
         a = First(seqs, k - 1) /\ w = words[k] /\ b = Rest(seqs, k)
  <2>1. First(seqs, k - 1) \in Strings(Nat)
    BY <1>1, <1>2, FirstSteps
  <2>2. words[k] \in Strings(Nat)
    BY ElementOf
  <2>3. Rest(seqs, k) \in Strings(Nat)
    BY <1>1, <1>2, RestSteps
  <2> QED  BY <2>1, <2>2, <2>3
<1>4. PICK d \in Strings(Nat) : d = (IF k = 1 THEN <<>> ELSE <<c>>) /\ Len(d) = IF k = 1 THEN 0 ELSE 1
  <2>1. <<c>> \in Strings(Nat) /\ <<>> \in Strings(Nat) /\ Len(<<c>>) = 1 /\ Len(<<>>) = 0
    BY Tuples, Joins
  <2> QED  BY <2>1
<1>5. PICK ad \in Strings(Nat), dw \in Strings(Nat), wb \in Strings(Nat) : ad = a \o d /\ dw = d \o w /\ wb = w \o b
  BY Joins
<1>6. PICK text \in Strings(Nat) : text = FlattenSeq(seqs)
  BY <1>1, <1>2, FirstSteps
<1>7. text = ad \o (w \o b)
  <2>1. FlattenSeq(seqs) = First(seqs, k - 1) \o Rest(seqs, k - 1)
    BY <1>1, <1>2, FirstAndRest
  <2>2. Rest(seqs, k - 1) = seqs[k] \o Rest(seqs, k)
    BY <1>1, <1>2, RestSteps
  <2>3. seqs[k] = d \o w
    BY ONLY <1>1, <1>2, <1>3, <1>4
  <2>4. Grouped(d, w, b) /\ Grouped(a, d, wb)
    BY Grouping
  <2>5. text = a \o (dw \o b)
    BY ONLY <1>3, <1>5, <1>6, <2>1, <2>2, <2>3
  <2>6. dw \o b = d \o wb
    BY ONLY <1>5, <2>4 DEF Grouped
  <2>7. text = a \o (d \o wb)
    BY ONLY <2>5, <2>6
  <2> QED  BY ONLY <2>4, <2>7, <1>5 DEF Grouped
<1>8. Joined(a, d) /\ Joined(w, b) /\ Joined(ad, wb)
  BY Joining
<1>9. /\ Len(a) \in Nat /\ Len(w) \in Nat /\ Len(b) \in Nat /\ Len(ad) = Len(a) + Len(d)
      /\ Len(text) = Len(ad) + (Len(w) + Len(b))
  BY ONLY <1>5, <1>7, <1>8 DEF Joined
<1>10. Start(c, words, k) = Len(ad) + 1
  <2>1. Start(c, words, k) = Len(a) + (IF k = 1 THEN 1 ELSE 2)
    BY <1>2, <1>3 DEF Start
  <2> QED  BY <2>1, <1>4, <1>9
<1>11. (Len(ad) + 1) + Len(w) - 1 = Len(ad) + Len(w) /\ Len(ad) + Len(w) <= Len(text)
  BY <1>4, <1>9
<1>12. SubSeq(text, Len(ad) + 1, Len(ad) + Len(w)) = w
  <2>1. SubSeq(ad \o (w \o b), Len(ad) + 1, Len(ad) + Len(w)) = w
    BY Middle
  <2> QED  BY ONLY <1>7, <2>1
<1>13. ASSUME k = Len(words) PROVE Len(ad) + Len(w) = Len(text)
  <2>1. b = <<>>
    BY <1>1, <1>2, <1>3, <1>13, RestSteps
  <2>2. Len(b) = 0
    BY <2>1
  <2> QED  BY <2>2, <1>4, <1>9
<1>14. /\ text \in Strings(Nat)
       /\ Start(c, words, k) + Len(words[k]) - 1 <= Len(text)
       /\ (k = Len(words) => Start(c, words, k) + Len(words[k]) - 1 = Len(text))
       /\ SubSeq(text, Start(c, words, k), Start(c, words, k) + Len(words[k]) - 1) = words[k]
  <2>1. text \in Strings(Nat)
    OBVIOUS
  <2> QED  BY ONLY <2>1, <1>3, <1>10, <1>11, <1>12, <1>13
<1> QED  BY ONLY <1>2, <1>6, <1>14

Texts(ps) == [i \in DOMAIN ps |-> ParamText(ps[i])]
\* What is behind the question mark.
Body(ps) == FlattenSeq(Parted(Ampersand, Texts(ps)))

\* The parameters as they are written, without their signs.
LEMMA TextsType ==
    ASSUME NEW ps \in Seq(ParamFields), \A i \in DOMAIN ps : IsParam(ps[i])
    PROVE  /\ Texts(ps) \in Seq(Strings(Nat)) /\ Len(Texts(ps)) = Len(ps)
           /\ \A i \in 1..Len(ps) : Texts(ps)[i] = ParamText(ps[i]) /\ Free(Texts(ps)[i], {Ampersand})
<1>1. PICK n \in Nat : n = Len(ps) /\ DOMAIN ps = 1..n /\ \A i \in 1..n : ps[i] \in ParamFields /\ IsParam(ps[i])
  OBVIOUS
<1> DEFINE text(i) == ParamText(ps[i])
           P == [i \in 1..n |-> text(i)]
<1>2. ASSUME NEW i \in 1..n PROVE text(i) \in Strings(Nat) /\ Free(text(i), {Ampersand})
  <2>1. text(i) \in Strings(Nat) /\ Free(text(i), {Ampersand, Blank})
    BY <1>1, ParamParts
  <2> QED  BY <2>1 DEF Free
<1>3. Texts(ps) = P
  BY ONLY <1>1 DEF Texts, P, text
<1> HIDE DEF text
<1>4. P \in Seq(Strings(Nat)) /\ Len(P) = n /\ \A i \in 1..n : P[i] = text(i)
  BY <1>2
<1> HIDE DEF P
<1>5. \A i \in 1..n : Free(P[i], {Ampersand})
  BY ONLY <1>2, <1>4
<1> QED  BY ONLY <1>1, <1>3, <1>4, <1>5 DEF text

\* A query is its question mark and its body.
LEMMA QueryBody ==
    ASSUME NEW ps \in Seq(ParamFields), \A i \in DOMAIN ps : IsParam(ps[i]), ps # <<>>
    PROVE  Body(ps) \in Strings(Nat) /\ Query(ps) = <<QuestionMark>> \o Body(ps)
<1>1. PICK n \in Nat : n = Len(ps) /\ n \in 1..n /\ 1 \in 1..n /\ 1 \in 0..n /\ 0 \in 0..n /\ 1 - 1 = 0
  OBVIOUS
<1>2. PICK u \in Seq(Strings(Nat)) :
         /\ u = Pieces(ps) /\ Len(u) = n /\ Query(ps) = FlattenSeq(u)
         /\ \A i \in 1..n : u[i] = (IF i = 1 THEN <<QuestionMark>> ELSE <<Ampersand>>) \o ParamText(ps[i])
  BY <1>1, PieceTexts
<1>3. PICK words \in Seq(Strings(Nat)) : words = Texts(ps) /\ Len(words) = n /\ \A i \in 1..n : words[i] = ParamText(ps[i])
  BY <1>1, TextsType
<1>4. PICK v \in Seq(Strings(Nat)) :
         /\ v = Parted(Ampersand, words) /\ Len(v) = n
         /\ \A i \in 1..n : v[i] = (IF i = 1 THEN <<>> ELSE <<Ampersand>>) \o words[i]
  <2>1. Ampersand \in Nat
    BY DEF Ampersand
  <2>2. /\ Parted(Ampersand, words) \in Seq(Strings(Nat)) /\ Len(Parted(Ampersand, words)) = Len(words)
        /\ \A i \in 1..Len(words) :
              Parted(Ampersand, words)[i] = (IF i = 1 THEN <<>> ELSE <<Ampersand>>) \o words[i]
    BY <2>1, PartedType
  <2> QED  BY ONLY <2>2, <1>3
<1>5. PICK w \in Strings(Nat), q \in Strings(Nat) : w = words[1] /\ q = <<QuestionMark>>
  <2>1. words[1] \in Strings(Nat)
    BY <1>1, <1>3, ElementOf
  <2>2. <<QuestionMark>> \in Strings(Nat)
    BY Tuples DEF QuestionMark
  <2> QED  BY <2>1, <2>2
<1>6. u[1] = q \o w /\ v[1] = w
  <2>1. v[1] = <<>> \o w /\ u[1] = q \o w
    BY ONLY <1>1, <1>2, <1>3, <1>4, <1>5
  <2>2. <<>> \o w = w
    BY Joins
  <2> QED  BY ONLY <2>1, <2>2
<1>7. Rest(u, 1) = Rest(v, 1)
  <2> DEFINE s == SubSeq(u, 1 + 1, n)
             t == SubSeq(v, 1 + 1, n)
  <2>1. s \in Seq(Strings(Nat)) /\ Len(s) = n - 1 /\ \A k \in 1..(n - 1) : s[k] = u[1 + k]
    BY <1>1, <1>2, FromOn
  <2>2. t \in Seq(Strings(Nat)) /\ Len(t) = n - 1 /\ \A k \in 1..(n - 1) : t[k] = v[1 + k]
    BY <1>1, <1>4, FromOn
  <2>3. ASSUME NEW k \in 1..(n - 1) PROVE s[k] = t[k]
    <3>1. PICK i \in 1..n : i = 1 + k /\ i # 1
      BY <1>1
    <3>2. u[i] = v[i]
      <4>1. \A l \in 1..n : u[l] = (IF l = 1 THEN <<QuestionMark>> ELSE <<Ampersand>>) \o ParamText(ps[l])
        BY ONLY <1>2
      <4>2. \A l \in 1..n : v[l] = (IF l = 1 THEN <<>> ELSE <<Ampersand>>) \o words[l]
        BY ONLY <1>4
      <4>3. u[i] = <<Ampersand>> \o ParamText(ps[i])
        BY ONLY <3>1, <4>1, i \in 1..n
      <4>4. v[i] = <<Ampersand>> \o words[i]
        BY ONLY <3>1, <4>2, i \in 1..n
      <4>5. words[i] = ParamText(ps[i])
        BY ONLY <1>3, i \in 1..n
      <4> QED  BY ONLY <4>3, <4>4, <4>5
    <3> QED  BY ONLY <3>1, <3>2, <2>1, <2>2, k \in 1..(n - 1)
  <2> HIDE DEF s, t
  <2>4. s = t
    <3>1. s \in Strings(Strings(Nat)) /\ t \in Strings(Strings(Nat)) /\ Len(s) = Len(t)
      BY <2>1, <2>2 DEF Strings
    <3>2. \A k \in 1..Len(s) : s[k] = t[k]
      BY <2>1, <2>3
    <3> QED  BY <3>1, <3>2, SameString
  <2> QED  BY ONLY <1>2, <1>4, <2>4 DEF Rest, s, t
<1>8. PICK b \in Strings(Nat) : b = Rest(v, 1)
  BY <1>1, <1>4, RestSteps
<1>9. FlattenSeq(u) = u[1] \o Rest(u, 1) /\ FlattenSeq(v) = v[1] \o Rest(v, 1) /\ FlattenSeq(v) \in Strings(Nat)
  <2>1. Rest(u, 0) = u[1] \o Rest(u, 1) /\ Rest(u, 0) = FlattenSeq(u)
    BY <1>1, <1>2, RestSteps
  <2>2. Rest(v, 0) = v[1] \o Rest(v, 1) /\ Rest(v, 0) = FlattenSeq(v) /\ Rest(v, 0) \in Strings(Nat)
    BY <1>1, <1>4, RestSteps
  <2> QED  BY ONLY <2>1, <2>2
<1>10. Grouped(q, w, b)
  BY Grouping
<1>11. Query(ps) = q \o FlattenSeq(v)
  BY ONLY <1>2, <1>6, <1>7, <1>8, <1>9, <1>10 DEF Grouped
<1>12. Body(ps) = FlattenSeq(v)
  BY ONLY <1>3, <1>4 DEF Body
<1> QED  BY ONLY <1>5, <1>9, <1>11, <1>12

\* The target is split where the client put the question mark.
LEMMA SplitRead ==
    ASSUME NEW r \in Requests
    PROVE  SplitTarget(Target(r)) =
             IF r.params = <<>> THEN [path |-> EncodedPath(r.path), hasQuery |-> FALSE, query |-> <<>>]
             ELSE [path |-> EncodedPath(r.path), hasQuery |-> TRUE, query |-> Body(r.params)]
<1>1. PICK e \in Strings(Nat) : e = EncodedPath(r.path) /\ Free(e, {QuestionMark})
  BY TargetText
<1>2. r.params \in Seq(ParamFields) /\ \A i \in DOMAIN r.params : IsParam(r.params[i])
  BY RequestParts
<1>3. CASE r.params = <<>>
  <2>1. Query(r.params) = <<>>
    BY <1>2, <1>3, QueryText
  <2>2. e \o <<>> = e
    BY Joins
  <2>3. Target(r) = e
    BY ONLY <1>1, <2>1, <2>2 DEF Target
  <2>4. Positions(e, QuestionMark) = {}
    BY <1>1, NoDelimiter
  <2> QED  BY ONLY <1>1, <1>3, <2>3, <2>4 DEF SplitTarget
<1>4. CASE r.params # <<>>
  <2>1. PICK b \in Strings(Nat) : b = Body(r.params) /\ Query(r.params) = <<QuestionMark>> \o b
    BY <1>2, <1>4, QueryBody
  <2>2. Target(r) = e \o (<<QuestionMark>> \o b)
    BY ONLY <1>1, <2>1 DEF Target
  <2>3. Delimited(e \o (<<QuestionMark>> \o b), QuestionMark, e, b)
    <3>1. QuestionMark \in Nat
      BY DEF QuestionMark
    <3> QED  BY <1>1, <3>1, AtDelimiter
  <2>4. Delimited(Target(r), QuestionMark, e, b)
    BY ONLY <2>2, <2>3
  <2> QED  BY ONLY <1>1, <1>4, <2>1, <2>4 DEF SplitTarget, Delimited
<1> QED  BY <1>3, <1>4

\* Every parameter is cut out of the query as it was written.
CutOut(text, c, p, word) ==
    SubSeq(text, p, Min({Len(text)} \cup {i - 1 : i \in {j \in Positions(text, c) : j >= p}})) = word

\* From where a word begins to the next delimiter, the word is cut out.
LEMMA ParamFound ==
    ASSUME NEW c \in Nat, NEW words \in Seq(Strings(Nat)), \A i \in 1..Len(words) : Free(words[i], {c}),
           NEW k \in 1..Len(words)
    PROVE  CutOut(FlattenSeq(Parted(c, words)), c, Start(c, words, k), words[k])
<1>1. PICK text : text = FlattenSeq(Parted(c, words))
  OBVIOUS
<1>2. PICK n \in Nat : n = Len(words) /\ k \in 1..n
  OBVIOUS
<1>3. \A i \in 1..n : Placed(c, words, i)
  BY <1>2, Starts
<1>4. PICK p \in Nat, y \in Nat : p = Start(c, words, k) /\ y = Len(words[k])
  BY <1>2, <1>3 DEF Placed
<1>5. /\ text \in Strings(Nat) /\ p + y - 1 <= Len(text)
      /\ (k = n => p + y - 1 = Len(text))
      /\ SubSeq(text, p, p + y - 1) = words[k]
  BY <1>1, <1>2, <1>4, WordFound
<1>6. Positions(text, c) = {Start(c, words, i) - 1 : i \in 2..n}
  BY <1>1, <1>2, SignPlaces
<1> DEFINE M == {Len(text)} \cup {i - 1 : i \in {j \in Positions(text, c) : j >= p}}
<1>7. Len(text) \in Nat
  BY <1>5, Joins
<1>8. ASSUME NEW i \in 2..n PROVE Start(c, words, i) \in Nat
  BY <1>3 DEF Placed
<1>9. M \in SUBSET Int
  BY <1>6, <1>7, <1>8
<1>10. p + y - 1 \in M
  <2>1. CASE k = n
    BY <2>1, <1>5
  <2>2. CASE k # n
    <3>1. k + 1 \in 2..n
      BY <1>2, <2>2
    <3>2. Start(c, words, k + 1) = p + y + 1
      BY <1>2, <1>3, <1>4 DEF Placed
    <3>3. p + y \in Positions(text, c)
      <4>1. (p + y + 1) - 1 = p + y
        OBVIOUS
      <4> QED  BY ONLY <3>1, <3>2, <4>1, <1>6
    <3>4. p + y >= p
      OBVIOUS
    <3> QED  BY ONLY <3>3, <3>4 DEF M
  <2> QED  BY <2>1, <2>2
<1>11. ASSUME NEW m \in M PROVE p + y - 1 <= m
  <2>1. CASE m = Len(text)
    BY <2>1, <1>5
  <2>2. ASSUME NEW i \in Positions(text, c), i >= p, m = i - 1 PROVE p + y - 1 <= m
    <3>1. PICK l \in 2..n : i = Start(c, words, l) - 1
      BY <1>6
    <3>2. l \in 1..n /\ Start(c, words, l) \in Nat /\ Placed(c, words, l)
      BY <1>2, <1>3, <1>8
    <3>3. CASE l < k
      <4>1. Start(c, words, l) + Len(words[l]) + 1 <= Start(c, words, k) /\ Len(words[l]) \in Nat
        BY <1>2, <3>2, <3>3, StartsGrow DEF Placed
      <4>2. FALSE
        <5>1. PICK u \in Nat, v \in Nat : u = Start(c, words, l) /\ v = Len(words[l])
          BY ONLY <3>2, <4>1
        <5>2. u + v + 1 <= p /\ u - 1 >= p
          BY ONLY <5>1, <4>1, <3>1, <2>2, <1>4
        <5> QED  BY ONLY <5>2, u \in Nat, v \in Nat, p \in Nat
      <4> QED  BY <4>2
    <3>4. CASE l = k
      <4>1. FALSE
        BY <3>4, <3>1, <2>2, <1>4
      <4> QED  BY <4>1
    <3>5. CASE l > k
      <4>1. p + y + 1 <= Start(c, words, l)
        BY <1>2, <1>4, <3>2, <3>5, StartsGrow
      <4> QED  BY <4>1, <3>1, <3>2, <2>2
    <3> QED  BY <3>2, <3>3, <3>4, <3>5
  <2> QED  BY <2>1, <2>2
<1> HIDE DEF M
<1>12. Min(M) = p + y - 1
  BY <1>9, <1>10, <1>11, MinIs
<1>13. SubSeq(text, p, Min(M)) = words[k]
  BY ONLY <1>5, <1>12
<1> QED  BY ONLY <1>1, <1>4, <1>13 DEF M, CutOut

\* What handle sees of the parameters of a request.
LEMMA QueryRead ==
    ASSUME NEW ps \in Seq(ParamFields), \A i \in DOMAIN ps : IsParam(ps[i]), ps # <<>>
    PROVE  /\ DOMAIN ParseQuery(Body(ps), BufSize) = {ps[i].name : i \in DOMAIN ps}
           /\ \A i \in DOMAIN ps :
                (\A j \in i + 1 .. Len(ps) : ps[j].name # ps[i].name) =>
                   ParseQuery(Body(ps), BufSize)[ps[i].name]
                     = SubSeq(ps[i].value, 1, Min({BufSize - 1, Len(ps[i].value)}))
<1>1. PICK n \in Nat : n = Len(ps) /\ DOMAIN ps = 1..n /\ n > 0
  OBVIOUS
<1>2. ASSUME NEW i \in 1..n
      PROVE  /\ ParamName(ParamText(ps[i])) = ps[i].name
             /\ ParamValue(ParamText(ps[i]), BufSize)
                  = SubSeq(ps[i].value, 1, Min({BufSize - 1, Len(ps[i].value)}))
  <2>1. ps[i] \in ParamFields /\ IsParam(ps[i])
    BY <1>1, ElementOf
  <2> QED  BY <2>1, ParamRead
<1>3. PICK words \in Seq(Strings(Nat)) :
         /\ words = Texts(ps) /\ Len(words) = n
         /\ \A i \in 1..n : words[i] = ParamText(ps[i])
         /\ \A i \in 1..n : Free(words[i], {Ampersand})
  BY <1>1, TextsType
<1>4. PICK c \in Nat : c = Ampersand
  BY DEF Ampersand
<1>5. PICK text : text = Body(ps) /\ text = FlattenSeq(Parted(c, words))
  BY <1>3, <1>4 DEF Body
<1> DEFINE starts == {1} \cup {i + 1 : i \in Positions(text, c)}
           end(p) == Min({Len(text)} \cup {i - 1 : i \in {j \in Positions(text, c) : j >= p}})
           param(p) == SubSeq(text, p, end(p))
           at(k) == Start(c, words, k)
<1>6. ParseQuery(text, BufSize) =
        [name \in {ParamName(param(p)) : p \in starts} |->
            ParamValue(param(Max({p \in starts : ParamName(param(p)) = name})), BufSize)]
  BY ONLY <1>4 DEF ParseQuery, starts, end, param
<1>7. ASSUME NEW k \in 1..n
      PROVE  /\ at(k) \in Nat /\ at(1) = 1
             /\ param(at(k)) = ParamText(ps[k])
             /\ \A j \in 1..n : j < k => at(j) < at(k)
  <2>1. Placed(c, words, k)
    BY <1>3, Starts
  <2>2. param(at(k)) = words[k]
    <3>1. CutOut(FlattenSeq(Parted(c, words)), c, Start(c, words, k), words[k])
      BY <1>3, <1>4, ParamFound
    <3> QED  BY ONLY <3>1, <1>5 DEF CutOut, param, end, at
  <2>3. ASSUME NEW j \in 1..n, j < k PROVE at(j) < at(k)
    <3>1. at(j) + Len(words[j]) + 1 <= at(k)
      BY <1>3, <2>3, StartsGrow
    <3>2. Placed(c, words, j)
      BY <1>3, Starts
    <3>3. at(j) \in Nat /\ at(k) \in Nat /\ Len(words[j]) \in Nat
      BY ONLY <2>1, <3>2 DEF Placed, at
    <3> HIDE DEF at
    <3> QED  BY ONLY <3>1, <3>3
  <2> HIDE DEF param
  <2> QED  BY <2>1, <2>2, <2>3, <1>3 DEF Placed
<1>8. starts = {at(k) : k \in 1..n}
  <2>1. Positions(text, c) = {at(k) - 1 : k \in 2..n}
    BY <1>3, <1>4, <1>5, SignPlaces
  <2>2. ASSUME NEW k \in 1..n PROVE at(k) \in starts
    <3>1. CASE k = 1
      BY <3>1, <1>7
    <3>2. CASE k # 1
      <4>1. k \in 2..n /\ (at(k) - 1) + 1 = at(k)
        <5>1. at(k) \in Nat
          BY <1>7
        <5> HIDE DEF at
        <5> QED  BY <3>2, <5>1
      <4> QED  BY ONLY <2>1, <4>1
    <3> QED  BY <3>1, <3>2
  <2>3. ASSUME NEW p \in starts PROVE \E k \in 1..n : p = at(k)
    <3>1. CASE p = 1
      <4>1. 1 \in 1..n
        BY <1>1
      <4>2. at(1) = 1
        BY <1>7, <4>1
      <4> QED  BY <3>1, <4>1, <4>2
    <3>2. ASSUME NEW i \in Positions(text, c), p = i + 1 PROVE \E k \in 1..n : p = at(k)
      <4>1. PICK k \in 2..n : i = at(k) - 1
        BY ONLY <2>1, i \in Positions(text, c)
      <4>2. k \in 1..n /\ at(k) \in Nat
        <5>1. k \in 1..n
          OBVIOUS
        <5> HIDE DEF at
        <5> QED  BY ONLY <1>7, <5>1
      <4>3. p = at(k)
        <5> HIDE DEF at
        <5> QED  BY <3>2, <4>1, <4>2
      <4> QED  BY <4>2, <4>3
    <3> QED  BY <3>1, <3>2
  <2> HIDE DEF starts, at
  <2> QED  BY <2>2, <2>3
<1> HIDE DEF starts, end, param, at
<1>9. ASSUME NEW k \in 1..n
      PROVE  /\ ParamName(param(at(k))) = ps[k].name
             /\ ParamValue(param(at(k)), BufSize) = SubSeq(ps[k].value, 1, Min({BufSize - 1, Len(ps[k].value)}))
  BY ONLY <1>2, <1>7, k \in 1..n
<1>10. {ParamName(param(p)) : p \in starts} = {ps[k].name : k \in 1..n}
  BY ONLY <1>8, <1>9
<1>11. DOMAIN ParseQuery(text, BufSize) = {ps[i].name : i \in 1..n}
  BY ONLY <1>6, <1>10
<1>12. ASSUME NEW i \in 1..n, \A j \in i + 1 .. n : ps[j].name # ps[i].name
       PROVE  ParseQuery(text, BufSize)[ps[i].name]
                = SubSeq(ps[i].value, 1, Min({BufSize - 1, Len(ps[i].value)}))
  <2> DEFINE named == {p \in starts : ParamName(param(p)) = ps[i].name}
  <2>1. named \in SUBSET Int
    BY <1>7, <1>8
  <2>2. at(i) \in named
    BY <1>8, <1>9
  <2>3. ASSUME NEW p \in named PROVE p <= at(i)
    <3>1. PICK k \in 1..n : p = at(k)
      BY <1>8
    <3>2. ps[k].name = ps[i].name
      BY <1>9, <3>1
    <3>3. k \notin i + 1 .. n
      BY <1>12, <3>2
    <3>4. k = i \/ k < i
      BY <3>3
    <3>5. at(k) \in Nat /\ at(i) \in Nat /\ (k < i => at(k) < at(i))
      BY <1>7
    <3> QED  BY <3>1, <3>4, <3>5
  <2> HIDE DEF named
  <2>4. Max(named) = at(i)
    BY <2>1, <2>2, <2>3, MaxIs
  <2>5. ps[i].name \in {ParamName(param(p)) : p \in starts}
    BY ONLY <1>10, i \in 1..n
  <2>6. ParseQuery(text, BufSize)[ps[i].name] = ParamValue(param(Max(named)), BufSize)
    BY ONLY <1>6, <2>5 DEF named
  <2> QED  BY ONLY <1>9, <2>4, <2>6, i \in 1..n
<1> QED  BY ONLY <1>1, <1>5, <1>11, <1>12

\* handle sees the parameters the client meant and no others, each with the value the
\* client meant, as much of it as fits (Util.cpp 204-227, 269-317): whatever bytes it
\* is made of, whichever of them are escaped, however many parameters there are.
THEOREM QueryReadBackHolds == HeaderSpec => []QueryReadBack
<1>1. HeaderIsRead => QueryReadBack
  <2> SUFFICES ASSUME HeaderIsRead, Handed, pc # "parsed"
               PROVE  /\ DOMAIN queryParam = {sent.params[i].name : i \in DOMAIN sent.params}
                      /\ \A i \in DOMAIN sent.params :
                           (\A j \in i + 1 .. Len(sent.params) : sent.params[j].name # sent.params[i].name) =>
                             queryParam[sent.params[i].name] =
                               SubSeq(sent.params[i].value, 1,
                                      Min({BufSize - 1, Len(sent.params[i].value)}))
    BY DEF QueryReadBack
  <2>1. PICK r \in Requests : r = sent /\ ri = Read(r)
    BY DEF HeaderIsRead
  <2>2. queryParam = IF ri.hasQuery THEN ParseQuery(ri.query, BufSize) ELSE NotParsed
    BY DEF HeaderIsRead
  <2>3. PICK ps \in Seq(ParamFields) : ps = r.params /\ \A i \in DOMAIN ps : IsParam(ps[i])
    BY RequestParts
  <2>4. /\ ri.hasQuery = SplitTarget(Target(r)).hasQuery
        /\ ri.query = SplitTarget(Target(r)).query
    BY ONLY <2>1 DEF Read, ParseTarget
  <2>5. SplitTarget(Target(r)) =
          IF ps = <<>> THEN [path |-> EncodedPath(r.path), hasQuery |-> FALSE, query |-> <<>>]
          ELSE [path |-> EncodedPath(r.path), hasQuery |-> TRUE, query |-> Body(ps)]
    BY <2>3, SplitRead
  <2>6. CASE ps = <<>>
    <3>1. queryParam = NotParsed
      BY ONLY <2>2, <2>4, <2>5, <2>6
    <3>2. DOMAIN queryParam = {} /\ DOMAIN ps = {}
      BY <3>1, <2>6 DEF NotParsed
    <3> QED  BY ONLY <2>1, <2>3, <3>2
  <2>7. CASE ps # <<>>
    <3>1. queryParam = ParseQuery(Body(ps), BufSize)
      BY ONLY <2>2, <2>4, <2>5, <2>7
    <3>2. /\ DOMAIN ParseQuery(Body(ps), BufSize) = {ps[i].name : i \in DOMAIN ps}
          /\ \A i \in DOMAIN ps :
               (\A j \in i + 1 .. Len(ps) : ps[j].name # ps[i].name) =>
                  ParseQuery(Body(ps), BufSize)[ps[i].name]
                    = SubSeq(ps[i].value, 1, Min({BufSize - 1, Len(ps[i].value)}))
      BY <2>3, <2>7, QueryRead
    <3>3. sent.params = ps
      BY ONLY <2>1, <2>3
    <3> QED  BY ONLY <3>1, <3>2, <3>3
  <2> QED  BY ONLY <2>6, <2>7
<1> QED  BY <1>1, HeaderIsReadHolds, PTL

-----------------------------------------------------------------------------
(* Paths *)

\* A path is decoded as the client means it.
LEMMA PathDecoded ==
    ASSUME NEW path \in Seq(Byte)
    PROVE  MgUrlDecode(EncodedPath(path)) = path
<1>1. PICK n \in Nat : n = Len(path) /\ DOMAIN path = 1..n
  OBVIOUS
<1>2. Byte \subseteq Nat
  BY DEF Byte
<1>3. \A i \in 1..n : path[i] \in Byte /\ path[i] \in Nat
  BY <1>1, <1>2, ElementOf
<1>4. path \in Seq(Nat)
  BY <1>2, WiderSeq
<1> DEFINE codes == [i \in 1..n |-> PathCode(path[i])]
<1>5. \A i \in 1..n : PathCode(path[i]) \in Strings(Nat)
  BY <1>3, PathCodes
<1>6. codes \in Seq(Strings(Nat)) /\ Len(codes) = n /\ \A i \in 1..n : codes[i] = PathCode(path[i])
  BY <1>5
<1>7. EncodedPath(path) = FlattenSeq(codes)
  BY ONLY <1>1 DEF EncodedPath, PathCode, codes
<1> HIDE DEF codes
<1>8. ASSUME NEW i \in 1..Len(path) PROVE Spelled(codes[i], path[i], FALSE)
  <2>1. Spelled(PathCode(path[i]), path[i], FALSE)
    BY <1>1, <1>3, PathSpelled
  <2>2. codes[i] = PathCode(path[i])
    BY <1>1, <1>6
  <2> QED  BY ONLY <2>1, <2>2
<1>9. Decoded(FlattenSeq(codes), FALSE) = path
  BY <1>1, <1>4, <1>6, <1>8, DecodedBack
<1> QED  BY ONLY <1>7, <1>9 DEF MgUrlDecode

\* The equations of the loop that skips what follows a slash.
SkipsAt(h, s, i) ==
    h[i] = IF IsSlash(s, i) THEN h[i + 1]
           ELSE IF IsDot(s, i) /\ IsSlash(s, i + 1) THEN h[i + 2]
           ELSE IF IsDot(s, i) /\ IsDot(s, i + 1) /\ i + 1 = Len(s) THEN i + 2
           ELSE IF IsDot(s, i) /\ IsDot(s, i + 1) /\ IsSlash(s, i + 2) THEN h[i + 3]
           ELSE i

\* AfterSlash is given by these equations.
LEMMA AfterSteps ==
    ASSUME NEW s \in Seq(Nat)
    PROVE  \E h : /\ \A i \in 1..(Len(s) + 1) : SkipsAt(h, s, i)
                  /\ \A start : AfterSlash(s, start) = h[start]
<1>1. PICK n \in Nat : n = Len(s) /\ DOMAIN s = 1..n /\ n + 1 \in 1..(n + 1)
  OBVIOUS
<1> DEFINE A(i) == IsSlash(s, i)
           B(i) == IsDot(s, i) /\ IsSlash(s, i + 1)
           C(i) == IsDot(s, i) /\ IsDot(s, i + 1) /\ i + 1 = Len(s)
           D(i) == IsDot(s, i) /\ IsDot(s, i + 1) /\ IsSlash(s, i + 2)
           Def(f) == f = [i \in 1..Len(s) + 1 |->
                            IF IsSlash(s, i) THEN f[i + 1]
                            ELSE IF IsDot(s, i) /\ IsSlash(s, i + 1) THEN f[i + 2]
                            ELSE IF IsDot(s, i) /\ IsDot(s, i + 1) /\ i + 1 = Len(s) THEN i + 2
                            ELSE IF IsDot(s, i) /\ IsDot(s, i + 1) /\ IsSlash(s, i + 2) THEN f[i + 3]
                            ELSE i]
           nextAt(i) == IF A(i) THEN i + 1 ELSE IF B(i) THEN i + 2 ELSE IF C(i) THEN n + 1
                        ELSE IF D(i) THEN i + 3 ELSE n + 1
           stepAt(i, x) == IF A(i) THEN x ELSE IF B(i) THEN x ELSE IF C(i) THEN i + 2
                           ELSE IF D(i) THEN x ELSE i
           next == [i \in 1..n |-> nextAt(i)]
           Step == [i \in 1..n |-> [x \in 1..(n + 1) |-> stepAt(i, x)]]
           h == CHOOSE f : Def(f)
<1>2. ASSUME NEW i \in 1..n
      PROVE  /\ A(i) => i + 1 \in 1..(n + 1)
             /\ B(i) => i + 2 \in 1..(n + 1)
             /\ C(i) => i + 2 \in 1..(n + 1)
             /\ D(i) => i + 3 \in 1..(n + 1)
  BY <1>1 DEF IsSlash, IsDot
<1>3. ~A(n + 1) /\ ~B(n + 1) /\ ~C(n + 1) /\ ~D(n + 1)
  BY <1>1 DEF IsSlash, IsDot
<1> HIDE DEF A, B, C, D
<1>4. ASSUME NEW i \in 1..n
      PROVE  /\ nextAt(i) \in 1..(n + 1) /\ i < nextAt(i)
             /\ \A x \in 1..(n + 1) : stepAt(i, x) \in 1..(n + 1)
  BY <1>2
<1>5. next \in [1..n -> 1..(n + 1)] /\ \A i \in 1..n : i < next[i]
  <2> HIDE DEF nextAt
  <2> QED  BY <1>4
<1>6. Step \in Steps(n, 1..(n + 1))
  <2> HIDE DEF stepAt
  <2> QED  BY <1>4 DEF Steps
<1>7. PICK g : Backwards(g, n, 1..(n + 1), n + 1, next, Step)
  <2> HIDE DEF next, Step
  <2> QED  BY <1>1, <1>5, <1>6, BackwardRecursion
<1>8. g \in [1..(n + 1) -> 1..(n + 1)] /\ g[n + 1] = n + 1
  BY <1>7 DEF Backwards
<1>9. ASSUME NEW i \in 1..n PROVE g[i] = stepAt(i, g[nextAt(i)])
  <2> HIDE DEF stepAt, nextAt
  <2>1. g[i] = Step[i][g[next[i]]]
    BY <1>7 DEF Backwards
  <2>2. next[i] = nextAt(i) /\ g[nextAt(i)] \in 1..(n + 1)
    BY <1>4, <1>8
  <2> QED  BY <2>1, <2>2
<1> HIDE DEF next, Step
<1> DEFINE value(f, i) == IF A(i) THEN f[i + 1] ELSE IF B(i) THEN f[i + 2] ELSE IF C(i) THEN i + 2
                          ELSE IF D(i) THEN f[i + 3] ELSE i
<1>10. ASSUME NEW i \in 1..(n + 1) PROVE g[i] = value(g, i)
  <2>1. CASE i = n + 1
    BY <2>1, <1>3, <1>8
  <2>2. CASE i \in 1..n
    <3>1. g[i] = stepAt(i, g[nextAt(i)])
      BY ONLY <2>2, <1>9
    <3>2. CASE A(i)
      BY ONLY <3>1, <3>2 DEF stepAt, nextAt, value
    <3>3. CASE ~A(i) /\ B(i)
      BY ONLY <3>1, <3>3 DEF stepAt, nextAt, value
    <3>4. CASE ~A(i) /\ ~B(i) /\ C(i)
      BY ONLY <3>1, <3>4 DEF stepAt, nextAt, value
    <3>5. CASE ~A(i) /\ ~B(i) /\ ~C(i) /\ D(i)
      BY ONLY <3>1, <3>5 DEF stepAt, nextAt, value
    <3>6. CASE ~A(i) /\ ~B(i) /\ ~C(i) /\ ~D(i)
      BY ONLY <3>1, <3>6 DEF stepAt, nextAt, value
    <3> QED  BY <3>2, <3>3, <3>4, <3>5, <3>6
  <2> QED  BY <2>1, <2>2
<1>11. \A f : Def(f) <=> f = [i \in 1..(n + 1) |-> value(f, i)]
  BY ONLY <1>1 DEF Def, value, A, B, C, D
<1> HIDE DEF Def, value
<1>12. Def(g)
  <2>1. g = [i \in 1..(n + 1) |-> value(g, i)]
    BY <1>8, <1>10
  <2> QED  BY ONLY <2>1, <1>11
<1>13. Def(h)
  BY <1>12
<1>14. \A start : AfterSlash(s, start) = h[start]
  BY DEF AfterSlash, Def
<1> HIDE DEF h
<1>15. ASSUME NEW i \in 1..(n + 1) PROVE SkipsAt(h, s, i)
  <2>1. h = [j \in 1..(n + 1) |-> value(h, j)]
    BY ONLY <1>11, <1>13
  <2>2. h[i] = value(h, i)
    BY ONLY <2>1, i \in 1..(n + 1)
  <2> QED  BY ONLY <2>2 DEF SkipsAt, value, A, B, C, D
<1> QED  BY <1>1, <1>14, <1>15

\* The loop never goes back.
LEMMA AfterIsAhead ==
    ASSUME NEW s \in Seq(Nat), NEW h, \A i \in 1..(Len(s) + 1) : SkipsAt(h, s, i)
    PROVE  \A i \in 1..(Len(s) + 1) : h[i] \in i..(Len(s) + 1)
<1>1. PICK n \in Nat : n = Len(s) /\ DOMAIN s = 1..n
  OBVIOUS
<1> DEFINE E == {j \in 0..n : \A i \in (j + 1)..(n + 1) : h[i] \in i..(n + 1)}
<1>2. n \in E
  <2>1. SkipsAt(h, s, n + 1)
    BY <1>1
  <2>2. ~IsSlash(s, n + 1) /\ ~IsDot(s, n + 1)
    BY <1>1 DEF IsSlash, IsDot
  <2>3. h[n + 1] = n + 1
    BY ONLY <2>1, <2>2 DEF SkipsAt
  <2> QED  BY <2>3
<1>3. ASSUME NEW j \in 1..n, j \in E PROVE j - 1 \in E
  <2>1. \A i \in (j + 1)..(n + 1) : h[i] \in i..(n + 1)
    BY <1>3
  <2>2. h[j] \in j..(n + 1)
    <3>1. SkipsAt(h, s, j)
      BY <1>1
    <3>2. CASE IsSlash(s, j)
      <4>1. h[j] = h[j + 1] /\ j + 1 \in (j + 1)..(n + 1)
        BY <3>1, <3>2 DEF SkipsAt
      <4> QED  BY <4>1, <2>1
    <3>3. CASE ~IsSlash(s, j) /\ IsDot(s, j) /\ IsSlash(s, j + 1)
      <4>1. h[j] = h[j + 2]
        BY ONLY <3>1, <3>3 DEF SkipsAt
      <4>2. j + 2 \in (j + 1)..(n + 1)
        BY <3>3, <1>1 DEF IsSlash
      <4> QED  BY <4>1, <4>2, <2>1
    <3>4. CASE /\ ~IsSlash(s, j) /\ ~(IsDot(s, j) /\ IsSlash(s, j + 1))
               /\ IsDot(s, j) /\ IsDot(s, j + 1) /\ j + 1 = Len(s)
      <4>1. h[j] = j + 2
        BY ONLY <3>1, <3>4 DEF SkipsAt
      <4> QED  BY <4>1, <3>4, <1>1
    <3>5. CASE /\ ~IsSlash(s, j) /\ ~(IsDot(s, j) /\ IsSlash(s, j + 1))
               /\ ~(IsDot(s, j) /\ IsDot(s, j + 1) /\ j + 1 = Len(s))
               /\ IsDot(s, j) /\ IsDot(s, j + 1) /\ IsSlash(s, j + 2)
      <4>1. h[j] = h[j + 3]
        BY ONLY <3>1, <3>5 DEF SkipsAt
      <4>2. j + 3 \in (j + 1)..(n + 1)
        BY <3>5, <1>1 DEF IsSlash
      <4> QED  BY <4>1, <4>2, <2>1
    <3>6. CASE /\ ~IsSlash(s, j) /\ ~(IsDot(s, j) /\ IsSlash(s, j + 1))
               /\ ~(IsDot(s, j) /\ IsDot(s, j + 1) /\ j + 1 = Len(s))
               /\ ~(IsDot(s, j) /\ IsDot(s, j + 1) /\ IsSlash(s, j + 2))
      <4>1. h[j] = j
        BY ONLY <3>1, <3>6 DEF SkipsAt
      <4> QED  BY <4>1
    <3> QED  BY <3>2, <3>3, <3>4, <3>5, <3>6
  <2>3. \A i \in ((j - 1) + 1)..(n + 1) : h[i] \in i..(n + 1)
    <3>1. ASSUME NEW i \in ((j - 1) + 1)..(n + 1) PROVE h[i] \in i..(n + 1)
      <4>1. i = j \/ i \in (j + 1)..(n + 1)
        OBVIOUS
      <4> QED  BY <4>1, <2>1, <2>2
    <3> QED  BY <3>1
  <2> QED  BY <2>3
<1> HIDE DEF E
<1>4. 0..n \subseteq E
  BY <1>2, <1>3, DownFrom
<1>5. 0 \in E
  BY <1>1, <1>4
<1> QED  BY <1>1, <1>5 DEF E

\* The equations of the loop that keeps what is not skipped.
KeepsAt(k, h, s, i) == k[i] = <<s[i]>> \o k[IF IsSlash(s, i) THEN h[i + 1] ELSE i + 1]

\* remove_double_dots_and_double_slashes is given by these equations.
LEMMA KeptSteps ==
    ASSUME NEW s \in Seq(Nat), s # <<>>, NEW h, \A i \in 1..(Len(s) + 1) : SkipsAt(h, s, i),
           \A start : AfterSlash(s, start) = h[start]
    PROVE  \E k : /\ k[Len(s) + 1] = <<>> /\ RemoveDoubleDotsAndDoubleSlashes(s) = k[1]
                  /\ \A i \in 1..Len(s) : KeepsAt(k, h, s, i) /\ k[i] \in Strings(Nat)
<1>1. PICK n \in Nat : n = Len(s) /\ DOMAIN s = 1..n /\ n + 1 \in 1..(n + 1) /\ n > 0 /\ \A i \in 1..n : s[i] \in Nat
  OBVIOUS
<1>2. \A i \in 1..(n + 1) : h[i] \in i..(n + 1)
  BY <1>1, AfterIsAhead
<1> DEFINE Def(f) == f = [i \in 1..Len(s) + 1 |->
                            IF i > Len(s) THEN <<>>
                            ELSE <<s[i]>> \o f[IF IsSlash(s, i) THEN AfterSlash(s, i + 1) ELSE i + 1]]
           nextAt(i) == IF IsSlash(s, i) THEN h[i + 1] ELSE i + 1
           next == [i \in 1..n |-> nextAt(i)]
           Step == [i \in 1..n |-> [x \in Strings(Nat) |-> <<s[i]>> \o x]]
           k == CHOOSE f : Def(f)
<1>3. ASSUME NEW i \in 1..n PROVE nextAt(i) \in 1..(n + 1) /\ i < nextAt(i)
  <2>1. i + 1 \in 1..(n + 1)
    OBVIOUS
  <2>2. h[i + 1] \in (i + 1)..(n + 1)
    BY <1>2, <2>1
  <2> QED  BY <2>1, <2>2
<1>4. next \in [1..n -> 1..(n + 1)] /\ \A i \in 1..n : i < next[i]
  <2> HIDE DEF nextAt
  <2> QED  BY <1>3
<1>5. Step \in Steps(n, Strings(Nat))
  <2>1. ASSUME NEW i \in 1..n PROVE [x \in Strings(Nat) |-> <<s[i]>> \o x] \in [Strings(Nat) -> Strings(Nat)]
    <3>1. <<s[i]>> \in Strings(Nat)
      BY <1>1, Tuples
    <3> QED  BY <3>1, Joins
  <2> QED  BY <2>1 DEF Steps
<1>6. PICK g : Backwards(g, n, Strings(Nat), <<>>, next, Step)
  <2>1. <<>> \in Strings(Nat)
    BY Joins
  <2> HIDE DEF next, Step
  <2> QED  BY <1>1, <1>4, <1>5, <2>1, BackwardRecursion
<1>7. g \in [1..(n + 1) -> Strings(Nat)] /\ g[n + 1] = <<>>
  BY <1>6 DEF Backwards
<1>8. ASSUME NEW i \in 1..n PROVE g[i] = <<s[i]>> \o g[nextAt(i)]
  <2> HIDE DEF nextAt
  <2>1. g[i] = Step[i][g[next[i]]]
    BY <1>6 DEF Backwards
  <2>2. next[i] = nextAt(i) /\ g[nextAt(i)] \in Strings(Nat)
    BY <1>3, <1>7
  <2> QED  BY <2>1, <2>2
<1> HIDE DEF next, Step
<1> DEFINE value(f, i) == IF i > n THEN <<>> ELSE <<s[i]>> \o f[nextAt(i)]
<1>9. \A f : Def(f) <=> f = [i \in 1..(n + 1) |-> value(f, i)]
  BY ONLY <1>1, \A start : AfterSlash(s, start) = h[start] DEF Def, value, nextAt
<1>10. ASSUME NEW i \in 1..(n + 1) PROVE g[i] = value(g, i)
  <2> HIDE DEF nextAt
  <2>1. CASE i = n + 1
    BY <2>1, <1>7
  <2>2. CASE i \in 1..n
    <3>1. g[i] = <<s[i]>> \o g[nextAt(i)]
      BY ONLY <2>2, <1>8
    <3>2. ~(i > n)
      BY <2>2
    <3> QED  BY ONLY <3>1, <3>2 DEF value
  <2> QED  BY <2>1, <2>2
<1> HIDE DEF nextAt, value, Def
<1>11. Def(g)
  <2>1. g = [i \in 1..(n + 1) |-> value(g, i)]
    BY <1>7, <1>10
  <2> QED  BY ONLY <2>1, <1>9
<1>12. Def(k)
  BY <1>11
<1>13. RemoveDoubleDotsAndDoubleSlashes(s) = k[1]
  BY ONLY DEF RemoveDoubleDotsAndDoubleSlashes, Def, k
<1> HIDE DEF k
<1>14. \A i \in 1..(n + 1) : k[i] = value(k, i)
  <2>1. k = [j \in 1..(n + 1) |-> value(k, j)]
    BY ONLY <1>9, <1>12
  <2> QED  BY ONLY <2>1
<1>15. k[n + 1] = <<>>
  <2>1. k[n + 1] = value(k, n + 1) /\ n + 1 > n
    BY <1>1, <1>14
  <2> QED  BY ONLY <2>1 DEF value
<1>16. ASSUME NEW i \in 1..n PROVE k[i] = <<s[i]>> \o k[nextAt(i)]
  <2>1. k[i] = value(k, i) /\ ~(i > n)
    BY <1>14
  <2> QED  BY ONLY <2>1 DEF value
<1> DEFINE E == {j \in 0..n : \A i \in (j + 1)..(n + 1) : k[i] \in Strings(Nat)}
<1>17. n \in E
  <2>1. k[n + 1] \in Strings(Nat)
    BY <1>15, Joins
  <2> QED  BY <2>1
<1>18. ASSUME NEW j \in 1..n, j \in E PROVE j - 1 \in E
  <2>1. nextAt(j) \in (j + 1)..(n + 1) /\ k[nextAt(j)] \in Strings(Nat)
    BY <1>3, <1>18
  <2>2. <<s[j]>> \in Strings(Nat)
    BY <1>1, Tuples
  <2>3. k[j] \in Strings(Nat)
    <3>1. k[j] = <<s[j]>> \o k[nextAt(j)]
      BY ONLY <1>16, j \in 1..n
    <3>2. PICK a \in Strings(Nat), b \in Strings(Nat) : a = <<s[j]>> /\ b = k[nextAt(j)]
      BY ONLY <2>1, <2>2
    <3>3. a \o b \in Strings(Nat)
      BY Joins
    <3> QED  BY ONLY <3>1, <3>2, <3>3
  <2>4. \A i \in ((j - 1) + 1)..(n + 1) : i = j \/ i \in (j + 1)..(n + 1)
    OBVIOUS
  <2> QED  BY <2>3, <2>4, <1>18
<1> HIDE DEF E
<1>19. 0 \in E
  <2>1. 0..n \subseteq E
    BY <1>17, <1>18, DownFrom
  <2> QED  BY <2>1
<1>20. ASSUME NEW i \in 1..n PROVE KeepsAt(k, h, s, i) /\ k[i] \in Strings(Nat)
  <2>1. KeepsAt(k, h, s, i)
    BY ONLY <1>16, i \in 1..n DEF KeepsAt, nextAt
  <2> QED  BY <2>1, <1>19 DEF E
<1> QED  BY <1>1, <1>13, <1>15, <1>20

-----------------------------------------------------------------------------
(* Segments *)

\* What follows a place of a path, up to the next slash and behind it.
SegmentAt(b, m, s, i) ==
    IF s[i] = Slash THEN b[i] = <<>> /\ m[i] = <<b[i + 1]>> \o m[i + 1]
    ELSE b[i] = <<s[i]>> \o b[i + 1] /\ m[i] = m[i + 1]

Segmented(b, m, s) ==
    /\ b \in [1..(Len(s) + 1) -> Strings(Nat)] /\ m \in [1..(Len(s) + 1) -> Strings(Strings(Nat))]
    /\ b[Len(s) + 1] = <<>> /\ m[Len(s) + 1] = <<>>
    /\ \A i \in 1..Len(s) : SegmentAt(b, m, s, i)

\* Segments is given by these equations.
LEMMA SegmentSteps ==
    ASSUME NEW s \in Seq(Nat)
    PROVE  \E b, m : /\ Segmented(b, m, s)
                     /\ Segments(s).before = b[1] /\ Segments(s).segments = m[1]
<1>1. PICK n \in Nat : n = Len(s) /\ n + 1 \in 1..(n + 1) /\ \A i \in 1..n : s[i] \in Nat
  OBVIOUS
<1> DEFINE Pairs == [before : Strings(Nat), segments : Strings(Strings(Nat))]
           last == [before |-> <<>>, segments |-> <<>>]
           slashed(x) == [before |-> <<>>, segments |-> <<x.before>> \o x.segments]
           longer(c, x) == [before |-> <<c>> \o x.before, segments |-> x.segments]
           stepAt(i, x) == IF s[i] = Slash THEN slashed(x) ELSE longer(s[i], x)
           Def(f) == f = [i \in 1..Len(s) + 1 |->
                            IF i > Len(s) THEN [before |-> <<>>, segments |-> <<>>]
                            ELSE IF s[i] = Slash
                            THEN [before |-> <<>>, segments |-> <<f[i + 1].before>> \o f[i + 1].segments]
                            ELSE [before |-> <<s[i]>> \o f[i + 1].before, segments |-> f[i + 1].segments]]
           value(f, i) == IF i > n THEN last ELSE stepAt(i, f[i + 1])
           next == [i \in 1..n |-> i + 1]
           Step == [i \in 1..n |-> [x \in Pairs |-> stepAt(i, x)]]
           f0 == CHOOSE f : Def(f)
<1>2. \A f : Def(f) <=> f = [i \in 1..(n + 1) |-> value(f, i)]
  BY ONLY <1>1 DEF Def, value, last, stepAt, slashed, longer
<1>3. Segments(s) = f0[1]
  BY DEF Segments, Def
<1>4. last \in Pairs
  <2>1. <<>> \in Strings(Nat) /\ <<>> \in Strings(Strings(Nat))
    BY Joins
  <2> QED  BY <2>1
<1>5. ASSUME NEW i \in 1..n, NEW x \in Pairs PROVE stepAt(i, x) \in Pairs
  <2>1. PICK y \in Strings(Nat), z \in Strings(Strings(Nat)), c \in Nat :
           y = x.before /\ z = x.segments /\ c = s[i]
    BY <1>1
  <2>2. <<y>> \in Strings(Strings(Nat))
    BY DEF Strings
  <2>3. <<y>> \o z \in Strings(Strings(Nat)) /\ <<>> \in Strings(Nat)
    BY <2>2, Joins
  <2>4. <<c>> \o y \in Strings(Nat)
    BY Tuples, Joins
  <2>5. slashed(x) \in Pairs
    BY ONLY <2>1, <2>3 DEF slashed, Pairs
  <2>6. longer(s[i], x) \in Pairs
    BY ONLY <2>1, <2>4 DEF longer, Pairs
  <2> QED  BY ONLY <2>5, <2>6 DEF stepAt
<1> HIDE DEF Pairs, last, stepAt
<1>6. next \in [1..n -> 1..(n + 1)] /\ \A i \in 1..n : i < next[i] /\ next[i] = i + 1
  OBVIOUS
<1>7. Step \in Steps(n, Pairs)
  BY <1>5 DEF Steps
<1>8. PICK g : Backwards(g, n, Pairs, last, next, Step)
  <2> HIDE DEF next, Step
  <2> QED  BY <1>1, <1>4, <1>6, <1>7, BackwardRecursion
<1>9. g \in [1..(n + 1) -> Pairs] /\ g[n + 1] = last
  BY <1>8 DEF Backwards
<1>10. ASSUME NEW i \in 1..n PROVE g[i] = stepAt(i, g[i + 1])
  <2>1. g[i] = Step[i][g[i + 1]]
    BY <1>6, <1>8 DEF Backwards
  <2>2. g[i + 1] \in Pairs
    BY <1>9
  <2> QED  BY <2>1, <2>2
<1> HIDE DEF Def, next, Step
<1>11. Def(g)
  <2>1. ASSUME NEW i \in 1..(n + 1) PROVE g[i] = value(g, i)
    <3>1. CASE i = n + 1
      BY <3>1, <1>9
    <3>2. CASE i \in 1..n
      BY <3>2, <1>10
    <3> QED  BY <3>1, <3>2
  <2> HIDE DEF value
  <2>2. g = [i \in 1..(n + 1) |-> value(g, i)]
    BY <1>9, <2>1
  <2> QED  BY ONLY <2>2, <1>2
<1>12. Def(f0)
  BY <1>11
<1> HIDE DEF f0
<1>13. \A i \in 1..(n + 1) : f0[i] = value(f0, i)
  <2> HIDE DEF value
  <2>1. f0 = [i \in 1..(n + 1) |-> value(f0, i)]
    BY ONLY <1>2, <1>12
  <2> QED  BY ONLY <2>1
<1>14. f0[n + 1] = last /\ \A i \in 1..n : f0[i] = stepAt(i, f0[i + 1])
  <2>1. value(f0, n + 1) = last
    BY ONLY n \in Nat DEF value
  <2>2. \A i \in 1..n : i \in 1..(n + 1) /\ value(f0, i) = stepAt(i, f0[i + 1])
    BY ONLY n \in Nat DEF value
  <2> HIDE DEF value
  <2> QED  BY ONLY <2>1, <2>2, <1>1, <1>13
<1> HIDE DEF value
<1> DEFINE E == {j \in 0..n : \A i \in (j + 1)..(n + 1) : f0[i] \in Pairs}
<1>15. n \in E
  BY <1>14, <1>4
<1>16. ASSUME NEW j \in 1..n, j \in E PROVE j - 1 \in E
  <2>1. f0[j + 1] \in Pairs
    BY <1>16
  <2>2. f0[j] \in Pairs
    BY <2>1, <1>5, <1>14
  <2>3. \A i \in ((j - 1) + 1)..(n + 1) : i = j \/ i \in (j + 1)..(n + 1)
    OBVIOUS
  <2> QED  BY <2>2, <2>3, <1>16
<1> HIDE DEF E
<1>17. \A i \in 1..(n + 1) : f0[i] \in Pairs
  <2>1. 0..n \subseteq E
    BY <1>15, <1>16, DownFrom
  <2>2. 0 \in E
    BY <2>1
  <2> QED  BY <2>2 DEF E
<1> DEFINE b == [i \in 1..(n + 1) |-> f0[i].before]
           m == [i \in 1..(n + 1) |-> f0[i].segments]
<1>18. b \in [1..(n + 1) -> Strings(Nat)] /\ m \in [1..(n + 1) -> Strings(Strings(Nat))]
  BY <1>17 DEF Pairs
<1>19. b[n + 1] = <<>> /\ m[n + 1] = <<>>
  BY <1>1, <1>14 DEF last
<1>20. ASSUME NEW i \in 1..n PROVE SegmentAt(b, m, s, i)
  <2>1. /\ b[i] = f0[i].before /\ m[i] = f0[i].segments
        /\ b[i + 1] = f0[i + 1].before /\ m[i + 1] = f0[i + 1].segments
    OBVIOUS
  <2>2. f0[i] = stepAt(i, f0[i + 1])
    BY <1>14
  <2> HIDE DEF b, m
  <2>3. CASE s[i] = Slash
    <3>1. f0[i] = [before |-> <<>>, segments |-> <<f0[i + 1].before>> \o f0[i + 1].segments]
      BY ONLY <2>2, <2>3 DEF stepAt, slashed
    <3> QED  BY ONLY <2>1, <2>3, <3>1 DEF SegmentAt
  <2>4. CASE s[i] # Slash
    <3>1. f0[i] = [before |-> <<s[i]>> \o f0[i + 1].before, segments |-> f0[i + 1].segments]
      BY ONLY <2>2, <2>4 DEF stepAt, longer
    <3> QED  BY ONLY <2>1, <2>4, <3>1 DEF SegmentAt
  <2> QED  BY <2>3, <2>4
<1>21. Segments(s).before = b[1] /\ Segments(s).segments = m[1]
  BY <1>1, <1>3
<1> HIDE DEF b, m
<1>22. Segmented(b, m, s)
  BY <1>1, <1>18, <1>19, <1>20 DEF Segmented
<1> QED  BY <1>21, <1>22

\* What stays of a list of segments with one more in front.
CleansTo(x, l) ==
    /\ CleanedSegments(<<x>> \o l) = IF l = <<>> THEN Kept(x, TRUE)
                                     ELSE Kept(x, FALSE) \o CleanedSegments(l)
    /\ CleanedSegments(l) \in Strings(Nat)

\* What stays of a segment is a text.
LEMMA KeptText ==
    ASSUME NEW x \in Strings(Nat), NEW isLast \in BOOLEAN
    PROVE  Kept(x, isLast) \in Strings(Nat)
<1>1. <<>> \in Strings(Nat) /\ <<Slash>> \in Strings(Nat)
  BY Joins, Tuples DEF Slash
<1>2. <<Slash>> \o <<>> \in Strings(Nat) /\ <<Slash>> \o x \in Strings(Nat)
  BY <1>1, Joins
<1>3. CASE isLast = TRUE
  BY ONLY <1>2, <1>3 DEF Kept
<1>4. CASE isLast = FALSE
  BY ONLY <1>1, <1>2, <1>4 DEF Kept
<1> QED  BY <1>3, <1>4

\* The definition for all segments.
LEMMA Cleaning ==
    ASSUME NEW x \in Strings(Nat), NEW l \in Strings(Strings(Nat))
    PROVE  CleansTo(x, l)
<1> DEFINE keptOf(k, i) == Kept(k[i], i = Len(k))
           parts(k) == [i \in DOMAIN k |-> keptOf(k, i)]
<1>1. ASSUME NEW k \in Seq(Strings(Nat)) PROVE parts(k) \in Seq(Strings(Nat)) /\ Len(parts(k)) = Len(k)
  <2>1. ASSUME NEW i \in 1..Len(k) PROVE keptOf(k, i) \in Strings(Nat)
    <3>1. k[i] \in Strings(Nat)
      BY ElementOf
    <3>2. (i = Len(k)) \in BOOLEAN
      OBVIOUS
    <3> HIDE DEF parts
    <3>3. Kept(k[i], i = Len(k)) \in Strings(Nat)
      BY ONLY <3>1, <3>2, KeptText
    <3> QED  BY ONLY <3>3 DEF keptOf
  <2> HIDE DEF keptOf
  <2> QED  BY <2>1
<1>2. l \in Seq(Strings(Nat))
  BY DEF Strings
<1>3. PICK u \in Seq(Strings(Nat)), n \in Nat : /\ u = <<x>> \o l /\ n = Len(l) /\ Len(u) = n + 1 /\ u[1] = x
                                     /\ \A i \in 1..n : u[i + 1] = l[i]
  <2>1. <<x>> \in Strings(Strings(Nat)) /\ Len(<<x>>) = 1 /\ <<x>>[1] = x /\ 1 \in 1..1
    BY DEF Strings
  <2>2. Joined(<<x>>, l)
    BY <2>1, Joining
  <2>3. PICK u \in Strings(Strings(Nat)) : u = <<x>> \o l
    BY <2>1, Joins
  <2>4. PICK n \in Nat : n = Len(l)
    BY <1>2
  <2>5. Len(u) = n + 1 /\ u[1] = x /\ \A i \in 1..n : u[i + 1] = l[i]
    BY ONLY <2>1, <2>2, <2>3, <2>4 DEF Joined
  <2>6. u \in Seq(Strings(Nat))
    BY DEF Strings
  <2> QED  BY ONLY <2>3, <2>4, <2>5, <2>6
<1>4. PICK p \in Seq(Strings(Nat)), q \in Seq(Strings(Nat)) : p = parts(u) /\ q = parts(l) /\ Len(p) = n + 1 /\ Len(q) = n
  <2> HIDE DEF parts
  <2> QED  BY <1>1, <1>2, <1>3
<1>5. CleanedSegments(u) = FlattenSeq(p) /\ CleanedSegments(l) = FlattenSeq(q)
  BY ONLY <1>4 DEF CleanedSegments, parts, keptOf
<1> HIDE DEF parts
<1>6. CleanedSegments(l) \in Strings(Nat)
  <2>1. Len(q) \in 0..Len(q)
    BY <1>4
  <2>2. First(q, Len(q)) = FlattenSeq(q) /\ First(q, Len(q)) \in Strings(Nat)
    BY <2>1, FirstSteps
  <2> QED  BY <2>2, <1>5
<1>7. DOMAIN u = 1..(n + 1) /\ DOMAIN l = 1..n
  BY <1>2, <1>3
<1>8. p[1] = keptOf(u, 1) /\ \A i \in 1..n : p[i + 1] = keptOf(u, i + 1) /\ q[i] = keptOf(l, i)
  <2> HIDE DEF keptOf
  <2> QED  BY ONLY <1>4, <1>7, n \in Nat DEF parts
<1> HIDE DEF keptOf
<1>9. CASE l = <<>>
  <2>1. n = 0
    BY <1>3, <1>9
  <2>2. p[1] = Kept(x, TRUE)
    <3>1. (1 = n + 1) = TRUE
      BY <2>1
    <3> QED  BY ONLY <1>3, <1>8, <3>1 DEF keptOf
  <2>3. FlattenSeq(p) = p[1]
    BY <1>4, <2>1, FlattenOne
  <2> QED  BY ONLY <1>3, <1>5, <1>6, <1>9, <2>2, <2>3 DEF CleansTo
<1>10. CASE l # <<>>
  <2>1. n # 0
    BY <1>2, <1>3, <1>10
  <2>2. p[1] = Kept(x, FALSE)
    <3>1. (1 = n + 1) = FALSE
      BY <2>1
    <3> QED  BY ONLY <1>3, <1>8, <3>1 DEF keptOf
  <2>3. ASSUME NEW i \in 1..Len(q) PROVE p[i + 1] = q[i]
    <3>1. i \in 1..n /\ (i + 1 = n + 1) = (i = n)
      BY <1>4
    <3>2. p[i + 1] = Kept(u[i + 1], i + 1 = Len(u)) /\ q[i] = Kept(l[i], i = Len(l))
      BY ONLY <3>1, <1>8 DEF keptOf
    <3> QED  BY ONLY <1>3, <3>1, <3>2
  <2>4. FlattenSeq(p) = p[1] \o FlattenSeq(q)
    BY <1>4, <2>3, FlattenCons
  <2> QED  BY ONLY <1>3, <1>5, <1>6, <1>10, <2>2, <2>4 DEF CleansTo
<1> QED  BY <1>9, <1>10

\* What stays of the path from i on, and what stays of it behind a slash.
CleanFrom(b, m, i) == b[i] \o CleanedSegments(m[i])
CleanBehind(b, m, i) == CleanedSegments(<<b[i]>> \o m[i])

\* How it changes from place to place.
CleanAt(b, m, s, i) ==
    /\ CleanFrom(b, m, i) \in Strings(Nat)
    /\ IF s[i] = Slash
       THEN /\ b[i] = <<>> /\ m[i] # <<>> /\ CleanFrom(b, m, i) = CleanedSegments(m[i])
            /\ CleanFrom(b, m, i) = CleanBehind(b, m, i + 1)
            /\ CleanBehind(b, m, i) = CleanBehind(b, m, i + 1)
       ELSE /\ b[i] = <<s[i]>> \o b[i + 1] /\ b[i] # <<>> /\ m[i] = m[i + 1]
            /\ CleanFrom(b, m, i) = <<s[i]>> \o CleanFrom(b, m, i + 1)
            /\ m[i] = <<>> /\ b[i] = <<Dot, Dot>> => CleanBehind(b, m, i) = <<Slash>>
            /\ m[i] # <<>> /\ b[i] \in Dots => CleanBehind(b, m, i) = CleanedSegments(m[i])
            /\ ~(m[i] = <<>> /\ b[i] = <<Dot, Dot>>) /\ ~(m[i] # <<>> /\ b[i] \in Dots) =>
                  CleanBehind(b, m, i) = <<Slash>> \o CleanFrom(b, m, i)

\* A sequence with one more in front is not empty.
LEMMA OneAhead ==
    ASSUME NEW S, NEW x \in S, NEW y \in Strings(S)
    PROVE  <<x>> \o y # <<>> /\ <<x>> \in Strings(S)
  BY DEF Strings

\* Nothing stays of nothing.
LEMMA NothingBehind ==
    /\ CleanedSegments(<<>>) = <<>>
    /\ \A x \in Strings(Nat) : x \o <<>> = x /\ <<>> \o x = x
<1>1. CleanedSegments(<<>>) = <<>>
  <2>1. [i \in DOMAIN <<>> |-> Kept(<<>>[i], i = Len(<<>>))] = <<>>
    OBVIOUS
  <2> HIDE DEF Kept
  <2>2. CleanedSegments(<<>>) = FlattenSeq(<<>>)
    BY ONLY <2>1 DEF CleanedSegments
  <2>3. FlattenSeq(<<>>) = <<>>
    BY DEF FlattenSeq
  <2> QED  BY <2>2, <2>3
<1> QED  BY <1>1, Joins

\* The definition for all places.
LEMMA CleanSteps ==
    ASSUME NEW s \in Seq(Nat), NEW b, NEW m, Segmented(b, m, s), NEW i \in 1..Len(s)
    PROVE  CleanAt(b, m, s, i)
<1>1. PICK n \in Nat : n = Len(s) /\ i + 1 \in 1..(n + 1) /\ i \in 1..(n + 1) /\ s[i] \in Nat
  OBVIOUS
<1>2. PICK x \in Strings(Nat), y \in Strings(Nat), u \in Strings(Strings(Nat)), v \in Strings(Strings(Nat)) :
         x = b[i] /\ y = b[i + 1] /\ u = m[i] /\ v = m[i + 1]
  BY ONLY <1>1, Segmented(b, m, s) DEF Segmented
<1>3. SegmentAt(b, m, s, i)
  BY <1>1 DEF Segmented
<1>4. CleansTo(x, u) /\ CleansTo(y, v)
  BY Cleaning
<1>5. PICK a \in Strings(Nat), c \in Strings(Nat) : a = CleanedSegments(u) /\ c = CleanedSegments(v)
  BY ONLY <1>4 DEF CleansTo
<1>6. x \o a \in Strings(Nat)
  BY Joins
<1>7. CASE s[i] = Slash
  <2>1. x = <<>> /\ u = <<y>> \o v
    BY ONLY <1>2, <1>3, <1>7 DEF SegmentAt
  <2>2. u # <<>>
    BY ONLY <2>1, <1>2, y \in Strings(Nat), v \in Strings(Strings(Nat)), OneAhead
  <2>3. x \o a = a
    BY ONLY <2>1, a \in Strings(Nat), NothingBehind
  <2>4. Kept(x, FALSE) \o a = a
    <3>1. Kept(x, FALSE) = <<>>
      BY ONLY <2>1 DEF Kept
    <3> QED  BY ONLY <3>1, a \in Strings(Nat), NothingBehind
  <2>5. CleanedSegments(<<x>> \o u) = a
    BY ONLY <1>4, <1>5, <2>2, <2>4 DEF CleansTo
  <2> QED  BY ONLY <1>2, <1>5, <1>6, <1>7, <2>1, <2>2, <2>3, <2>5 DEF CleanAt, CleanFrom, CleanBehind
<1>8. CASE s[i] # Slash
  <2>1. x = <<s[i]>> \o y /\ u = v
    BY ONLY <1>2, <1>3, <1>8 DEF SegmentAt
  <2>2. x # <<>> /\ <<s[i]>> \in Strings(Nat) /\ <<Slash>> \in Strings(Nat)
    <3>1. Slash \in Nat
      BY DEF Slash
    <3> QED  BY ONLY <2>1, <1>1, <3>1, y \in Strings(Nat), OneAhead
  <2>3. x \o a = <<s[i]>> \o (y \o a)
    <3>1. PICK z \in Strings(Nat) : z = <<s[i]>>
      BY <2>2
    <3>2. Grouped(z, y, a)
      BY Grouping
    <3> QED  BY ONLY <2>1, <3>1, <3>2 DEF Grouped
  <2>4. ASSUME u = <<>>, x = <<Dot, Dot>> PROVE CleanedSegments(<<x>> \o u) = <<Slash>>
    <3>1. Kept(x, TRUE) = <<Slash>> \o <<>>
      BY ONLY <2>4 DEF Kept
    <3>2. Kept(x, TRUE) = <<Slash>>
      BY ONLY <3>1, <2>2, NothingBehind
    <3> QED  BY ONLY <3>2, <2>4, <1>4 DEF CleansTo
  <2>5. ASSUME u # <<>>, x \in Dots PROVE CleanedSegments(<<x>> \o u) = a
    <3>1. Kept(x, FALSE) = <<>>
      BY ONLY <2>5 DEF Kept
    <3>2. Kept(x, FALSE) \o a = a
      BY ONLY <3>1, a \in Strings(Nat), NothingBehind
    <3> QED  BY ONLY <3>2, <2>5, <1>4, <1>5 DEF CleansTo
  <2>6. ~(u = <<>> /\ x = <<Dot, Dot>>) /\ ~(u # <<>> /\ x \in Dots) =>
           CleanedSegments(<<x>> \o u) = <<Slash>> \o (x \o a)
    <3>1. CASE u = <<>> /\ x # <<Dot, Dot>>
      <4>1. Kept(x, TRUE) = <<Slash>> \o x
        BY ONLY <3>1 DEF Kept
      <4>2. a = <<>>
        BY ONLY <3>1, <1>5, NothingBehind
      <4>3. x \o a = x
        BY ONLY <4>2, x \in Strings(Nat), NothingBehind
      <4> QED  BY ONLY <1>4, <3>1, <4>1, <4>3 DEF CleansTo
    <3>2. CASE u # <<>> /\ x \notin Dots
      <4>1. Kept(x, FALSE) = <<Slash>> \o x
        BY ONLY <3>2, <2>2 DEF Kept
      <4>2. PICK z \in Strings(Nat) : z = <<Slash>>
        BY <2>2
      <4>3. Grouped(z, x, a)
        BY Grouping
      <4>4. (<<Slash>> \o x) \o a = <<Slash>> \o (x \o a)
        BY ONLY <4>2, <4>3 DEF Grouped
      <4> QED  BY ONLY <1>4, <1>5, <3>2, <4>1, <4>4 DEF CleansTo
    <3> QED  BY ONLY <3>1, <3>2
  <2> QED  BY ONLY <1>2, <1>5, <1>6, <1>8, <2>1, <2>2, <2>3, <2>4, <2>5, <2>6 DEF CleanAt, CleanFrom, CleanBehind
<1> QED  BY <1>7, <1>8

\* What is one or two dots, and what is not.
LEMMA Peeled ==
    ASSUME NEW c \in Nat, NEW x \in Strings(Nat)
    PROVE  /\ <<c>> \o x = <<Dot>> => c = Dot /\ x = <<>>
           /\ <<c>> \o x = <<Dot, Dot>> => c = Dot /\ x = <<Dot>>
           /\ c = Dot /\ x = <<>> => <<c>> \o x = <<Dot>>
           /\ c = Dot /\ x = <<Dot>> => <<c>> \o x = <<Dot, Dot>>
<1>1. PICK y \in Strings(Nat), n \in Nat : y = <<c>> \o x /\ n = Len(x) /\ Len(y) = n + 1 /\ y[1] = c
                                        /\ \A i \in 1..n : y[i + 1] = x[i]
  <2>1. <<c>> \in Strings(Nat) /\ Len(<<c>>) = 1 /\ <<c>>[1] = c /\ 1 \in 1..1
    BY Tuples
  <2>2. Joined(<<c>>, x)
    BY <2>1, Joining
  <2>3. PICK y \in Strings(Nat) : y = <<c>> \o x
    BY <2>1, Joins
  <2>4. PICK n \in Nat : n = Len(x)
    BY <2>2 DEF Joined
  <2>5. Len(y) = n + 1 /\ y[1] = c /\ \A i \in 1..n : y[i + 1] = x[i]
    BY ONLY <2>1, <2>2, <2>3, <2>4 DEF Joined
  <2> QED  BY ONLY <2>3, <2>4, <2>5
<1>2. /\ <<Dot>> \in Strings(Nat) /\ Len(<<Dot>>) = 1 /\ <<Dot>>[1] = Dot
      /\ <<Dot, Dot>> \in Strings(Nat) /\ Len(<<Dot, Dot>>) = 2
      /\ <<Dot, Dot>>[1] = Dot /\ <<Dot, Dot>>[2] = Dot
  BY Tuples DEF Dot
<1>3. PICK one \in Strings(Nat), two \in Strings(Nat) : one = <<Dot>> /\ two = <<Dot, Dot>>
  BY <1>2
<1>4. Len(one) = 1 /\ one[1] = Dot /\ Len(two) = 2 /\ two[1] = Dot /\ two[2] = Dot
  BY ONLY <1>2, <1>3
<1>5. x = <<>> <=> n = 0
  BY <1>1 DEF Strings
<1>6. n = 1 /\ x[1] = Dot => x = one
  <2>1. ASSUME n = 1, x[1] = Dot PROVE x = one
    <3>1. \A i \in 1..Len(x) : x[i] = one[i]
      BY ONLY <1>1, <1>4, <2>1
    <3>2. Len(x) = Len(one)
      BY ONLY <1>1, <1>4, <2>1
    <3> QED  BY ONLY <3>1, <3>2, x \in Strings(Nat), one \in Strings(Nat), SameString
  <2> QED  BY ONLY <2>1
<1>7. ASSUME y = one PROVE c = Dot /\ x = <<>>
  <2>1. Len(y) = 1 /\ y[1] = Dot
    BY ONLY <1>4, <1>7
  <2>2. c = Dot /\ n = 0
    BY ONLY <1>1, <2>1, n \in Nat
  <2> QED  BY ONLY <2>2, <1>5
<1>8. ASSUME y = two PROVE c = Dot /\ x = one
  <2>1. Len(y) = 2 /\ y[1] = Dot /\ y[2] = Dot
    BY ONLY <1>4, <1>8
  <2>2. n = 1 /\ c = Dot /\ 1 \in 1..n /\ 1 + 1 = 2
    BY ONLY <1>1, <2>1, n \in Nat
  <2>3. x[1] = Dot
    BY ONLY <2>1, <2>2, <1>1
  <2> QED  BY ONLY <2>2, <2>3, <1>6
<1>9. ASSUME c = Dot, x = <<>> PROVE y = one
  <2>1. Len(y) = 1 /\ y[1] = Dot
    BY ONLY <1>1, <1>5, <1>9, n \in Nat
  <2>2. Len(y) = Len(one) /\ \A i \in 1..Len(y) : y[i] = one[i]
    BY ONLY <2>1, <1>4
  <2> QED  BY ONLY <2>2, y \in Strings(Nat), one \in Strings(Nat), SameString
<1>10. ASSUME c = Dot, x = one PROVE y = two
  <2>1. n = 1
    BY ONLY <1>1, <1>4, <1>10
  <2>2. y[1] = Dot /\ 1 \in 1..n /\ 1 + 1 = 2
    BY ONLY <1>1, <1>10, <2>1
  <2>3. y[2] = Dot /\ Len(y) = 2
    BY ONLY <1>1, <1>4, <1>10, <2>1, <2>2
  <2>4. Len(y) = Len(two) /\ \A i \in 1..Len(y) : y[i] = two[i]
    BY ONLY <2>2, <2>3, <1>4
  <2> QED  BY ONLY <2>4, y \in Strings(Nat), two \in Strings(Nat), SameString
<1> QED  BY ONLY <1>1, <1>3, <1>7, <1>8, <1>9, <1>10

-----------------------------------------------------------------------------
(* The loop of the server and the segments *)

\* The loop of the server and the segments agree from j on.
Agreed(b, m, s, h, k, j) ==
    \A i \in (j + 1)..(Len(s) + 1) :
        k[i] = CleanFrom(b, m, i) /\ CleanBehind(b, m, i) = <<Slash>> \o k[h[i]]

\* They agree at the end of the path,
LEMMA AgreedAtTheEnd ==
    ASSUME NEW s \in Seq(Nat), NEW b, NEW m, Segmented(b, m, s), NEW h, h[Len(s) + 1] = Len(s) + 1,
           NEW k, k[Len(s) + 1] = <<>>
    PROVE  Agreed(b, m, s, h, k, Len(s))
<1>1. PICK n \in Nat : n = Len(s)
  OBVIOUS
<1>2. b[n + 1] = <<>> /\ m[n + 1] = <<>>
  BY ONLY <1>1, Segmented(b, m, s) DEF Segmented
<1>3. <<>> \in Strings(Nat) /\ <<>> \in Strings(Strings(Nat)) /\ <<Slash>> \in Strings(Nat)
  BY Joins, Tuples DEF Slash
<1>4. CleanFrom(b, m, n + 1) = <<>>
  BY ONLY <1>2, <1>3, NothingBehind DEF CleanFrom
<1>5. CleanBehind(b, m, n + 1) = <<Slash>> \o <<>>
  <2>1. CleansTo(<<>>, <<>>)
    BY <1>3, Cleaning
  <2>2. CleanedSegments(<<<<>>>> \o <<>>) = Kept(<<>>, TRUE)
    BY ONLY <2>1 DEF CleansTo
  <2>3. <<>> # <<Dot, Dot>>
    OBVIOUS
  <2>4. Kept(<<>>, TRUE) = <<Slash>> \o <<>>
    BY ONLY <2>3 DEF Kept
  <2> QED  BY ONLY <1>2, <2>2, <2>4 DEF CleanBehind
<1>6. \A i \in (n + 1)..(n + 1) : i = n + 1
  BY <1>1
<1> QED  BY ONLY <1>1, <1>4, <1>5, <1>6, h[Len(s) + 1] = Len(s) + 1, k[Len(s) + 1] = <<>> DEF Agreed

\* Where a segment is one of the dots.
LEMMA DotsHere ==
    ASSUME NEW s \in Seq(Nat), NEW b, NEW m, Segmented(b, m, s), NEW j \in 1..Len(s), s[j] # Slash
    PROVE  /\ b[j] = <<Dot>> <=> s[j] = Dot /\ b[j + 1] = <<>>
           /\ b[j] = <<Dot, Dot>> <=> s[j] = Dot /\ b[j + 1] = <<Dot>>
<1>1. PICK n \in Nat : n = Len(s) /\ j + 1 \in 1..(n + 1) /\ s[j] \in Nat
  OBVIOUS
<1>2. PICK x \in Strings(Nat) : x = b[j + 1]
  BY ONLY <1>1, Segmented(b, m, s) DEF Segmented
<1>3. CleanAt(b, m, s, j)
  BY CleanSteps
<1>4. b[j] = <<s[j]>> \o x
  BY ONLY <1>2, <1>3, s[j] # Slash DEF CleanAt
<1>5. PICK c \in Nat : c = s[j]
  BY ONLY <1>1
<1>6. /\ <<c>> \o x = <<Dot>> => c = Dot /\ x = <<>>
      /\ <<c>> \o x = <<Dot, Dot>> => c = Dot /\ x = <<Dot>>
      /\ c = Dot /\ x = <<>> => <<c>> \o x = <<Dot>>
      /\ c = Dot /\ x = <<Dot>> => <<c>> \o x = <<Dot, Dot>>
  BY ONLY Peeled, c \in Nat, x \in Strings(Nat)
<1> QED  BY ONLY <1>2, <1>4, <1>5, <1>6

\* Whether the segment at a place is empty.
LEMMA EmptyHere ==
    ASSUME NEW s \in Seq(Nat), NEW b, NEW m, Segmented(b, m, s), NEW j \in 1..(Len(s) + 1)
    PROVE  /\ b[j] = <<>> <=> j = Len(s) + 1 \/ s[j] = Slash
           /\ j # Len(s) + 1 /\ s[j] = Slash => m[j] # <<>>
           /\ j = Len(s) + 1 => m[j] = <<>>
           /\ j # Len(s) + 1 /\ s[j] # Slash => m[j] = m[j + 1]
           /\ j # Len(s) + 1 => j + 1 \in 1..(Len(s) + 1)
<1>1. CASE j = Len(s) + 1
  BY ONLY <1>1, Segmented(b, m, s) DEF Segmented
<1>2. CASE j # Len(s) + 1
  <2>1. j \in 1..Len(s) /\ j + 1 \in 1..(Len(s) + 1)
    BY <1>2
  <2>2. CleanAt(b, m, s, j)
    BY <2>1, CleanSteps
  <2> QED  BY ONLY <1>2, <2>1, <2>2 DEF CleanAt
<1> QED  BY <1>1, <1>2

\* and from one place before each place from which they agree.
LEMMA AgreedBefore ==
    ASSUME NEW s \in Seq(Nat), Free(s, {BackSlash}), NEW b, NEW m, Segmented(b, m, s),
           NEW h, \A i \in 1..(Len(s) + 1) : SkipsAt(h, s, i),
           NEW k, k[Len(s) + 1] = <<>>, \A i \in 1..Len(s) : KeepsAt(k, h, s, i),
           NEW j \in 1..Len(s), Agreed(b, m, s, h, k, j)
    PROVE  Agreed(b, m, s, h, k, j - 1)
<1>1. PICK n \in Nat : n = Len(s) /\ DOMAIN s = 1..n /\ j + 1 \in (j + 1)..(n + 1) /\ j + 1 \in 1..(n + 1)
                    /\ j \in 1..n /\ j \in 1..(n + 1)
  OBVIOUS
<1>2. \A i : IsSlash(s, i) <=> i \in 1..n /\ s[i] = Slash
  BY ONLY <1>1, Free(s, {BackSlash}) DEF IsSlash, Free
<1>3. \A i : IsDot(s, i) <=> i \in 1..n /\ s[i] = Dot
  BY ONLY <1>1 DEF IsDot
<1>4. CleanAt(b, m, s, j)
  BY <1>1, CleanSteps
<1>5. KeepsAt(k, h, s, j) /\ SkipsAt(h, s, j)
  BY <1>1
<1>6. \A i \in (j + 1)..(n + 1) : k[i] = CleanFrom(b, m, i) /\ CleanBehind(b, m, i) = <<Slash>> \o k[h[i]]
  BY ONLY <1>1, Agreed(b, m, s, h, k, j) DEF Agreed
<1>7. ASSUME NEW i \in 1..(n + 1)
      PROVE  /\ b[i] = <<>> <=> i = n + 1 \/ s[i] = Slash
             /\ i # n + 1 /\ s[i] = Slash => m[i] # <<>>
             /\ i = n + 1 => m[i] = <<>>
             /\ i # n + 1 /\ s[i] # Slash => m[i] = m[i + 1]
             /\ i # n + 1 => i + 1 \in 1..(n + 1)
  BY ONLY <1>1, <1>7, i \in 1..(n + 1), s \in Seq(Nat), Segmented(b, m, s), EmptyHere
<1>8. ASSUME NEW i \in 1..n, s[i] # Slash
      PROVE  /\ b[i] = <<Dot>> <=> s[i] = Dot /\ b[i + 1] = <<>>
             /\ b[i] = <<Dot, Dot>> <=> s[i] = Dot /\ b[i + 1] = <<Dot>>
  BY ONLY <1>1, <1>8, i \in 1..n, s \in Seq(Nat), Segmented(b, m, s), DotsHere
<1>9. ASSUME NEW i \in 1..n, s[i] = Slash
      PROVE  m[i] # <<>> /\ CleanedSegments(m[i]) = CleanBehind(b, m, i + 1)
  <2>1. CleanAt(b, m, s, i)
    BY <1>1, CleanSteps
  <2> QED  BY ONLY <2>1, <1>9 DEF CleanAt
<1>10. k[j] = CleanFrom(b, m, j)
  <2>1. CASE s[j] = Slash
    <3>1. k[j] = <<Slash>> \o k[h[j + 1]]
      BY ONLY <1>1, <1>2, <1>5, <2>1 DEF KeepsAt
    <3>2. CleanFrom(b, m, j) = CleanBehind(b, m, j + 1)
      BY ONLY <1>4, <2>1 DEF CleanAt
    <3> QED  BY ONLY <1>1, <1>6, <3>1, <3>2
  <2>2. CASE s[j] # Slash
    <3>1. k[j] = <<s[j]>> \o k[j + 1]
      BY ONLY <1>2, <1>5, <2>2 DEF KeepsAt
    <3>2. CleanFrom(b, m, j) = <<s[j]>> \o CleanFrom(b, m, j + 1)
      BY ONLY <1>4, <2>2 DEF CleanAt
    <3> QED  BY ONLY <1>1, <1>6, <3>1, <3>2
  <2> QED  BY <2>1, <2>2
<1>11. CleanBehind(b, m, j) = <<Slash>> \o k[h[j]]
  <2>1. CASE s[j] = Slash
    <3>1. h[j] = h[j + 1]
      BY ONLY <1>1, <1>2, <1>5, <2>1 DEF SkipsAt
    <3>2. CleanBehind(b, m, j) = CleanBehind(b, m, j + 1)
      BY ONLY <1>4, <2>1 DEF CleanAt
    <3> QED  BY ONLY <1>1, <1>6, <3>1, <3>2
  <2> USE DEF Dots
  <2>2. CASE s[j] # Slash /\ s[j] = Dot /\ j + 1 \in 1..n /\ s[j + 1] = Slash
    <3>1. h[j] = h[j + 2]
      BY ONLY <1>1, <1>2, <1>3, <1>5, <2>2 DEF SkipsAt
    <3>2. PICK i \in 1..n : i = j + 1 /\ i + 1 = j + 2 /\ i \in 1..(n + 1) /\ i + 1 \in (j + 1)..(n + 1)
      BY <1>1, <2>2
    <3>3. b[j] = <<Dot>> /\ m[j] = m[i]
      <4>1. b[i] = <<>>
        BY ONLY <1>7, <2>2, <3>2
      <4>2. m[j] = m[j + 1]
        BY ONLY <1>4, <2>2 DEF CleanAt
      <4> QED  BY ONLY <1>1, <1>8, <2>2, <3>2, <4>1, <4>2
    <3>4. m[i] # <<>> /\ CleanedSegments(m[i]) = CleanBehind(b, m, i + 1)
      BY ONLY <1>9, <2>2, <3>2
    <3>5. CleanBehind(b, m, j) = CleanedSegments(m[j])
      BY ONLY <1>4, <2>2, <3>3, <3>4 DEF CleanAt, Dots
    <3>6. CleanBehind(b, m, i + 1) = <<Slash>> \o k[h[i + 1]]
      BY ONLY <1>6, <3>2
    <3> QED  BY ONLY <3>1, <3>2, <3>3, <3>4, <3>5, <3>6
  <2>3. CASE s[j] # Slash /\ s[j] = Dot /\ j + 1 = n /\ s[j + 1] = Dot
    <3>1. ~IsSlash(s, j) /\ ~IsSlash(s, j + 1) /\ IsDot(s, j) /\ IsDot(s, j + 1) /\ j + 1 = Len(s)
      BY <1>1, <1>2, <1>3, <2>3 DEF Dot, Slash
    <3>2. h[j] = j + 2 /\ j + 2 = n + 1
      BY ONLY <1>1, <1>5, <2>3, <3>1, j \in 1..Len(s) DEF SkipsAt
    <3>3. n \in 1..n /\ n \in 1..(n + 1) /\ n + 1 \in 1..(n + 1) /\ n # n + 1 /\ s[n] # Slash
      BY <1>1, <2>3 DEF Dot, Slash
    <3>4. m[j] = <<>> /\ b[n + 1] = <<>>
      <4>1. m[n + 1] = <<>> /\ b[n + 1] = <<>>
        BY ONLY <1>7, <3>3
      <4>2. m[n] = m[n + 1]
        BY ONLY <1>7, <3>3
      <4>3. m[j] = m[j + 1]
        BY ONLY <1>4, <2>3 DEF CleanAt
      <4> QED  BY ONLY <4>1, <4>2, <4>3, <2>3
    <3>5. b[j] = <<Dot, Dot>>
      <4>1. b[n] = <<Dot>>
        BY ONLY <1>8, <2>3, <3>3, <3>4
      <4> QED  BY ONLY <1>1, <1>8, <2>3, <4>1
    <3>6. CleanBehind(b, m, j) = <<Slash>>
      BY ONLY <1>4, <2>3, <3>4, <3>5 DEF CleanAt
    <3>7. <<Slash>> \in Strings(Nat)
      BY Tuples DEF Slash
    <3>8. <<Slash>> \o <<>> = <<Slash>>
      BY ONLY <3>7, NothingBehind
    <3>9. k[n + 1] = <<>>
      BY <1>1
    <3> QED  BY ONLY <3>2, <3>6, <3>8, <3>9
  <2>4. CASE s[j] # Slash /\ s[j] = Dot /\ j + 2 \in 1..n /\ s[j + 1] = Dot /\ s[j + 2] = Slash
    <3>1. /\ ~IsSlash(s, j) /\ ~IsSlash(s, j + 1) /\ IsDot(s, j) /\ IsDot(s, j + 1) /\ IsSlash(s, j + 2)
          /\ j + 1 # Len(s)
      BY <1>1, <1>2, <1>3, <2>4 DEF Dot, Slash
    <3>2. h[j] = h[j + 3]
      BY ONLY <1>5, <3>1 DEF SkipsAt
    <3>3. PICK l \in 1..n, i \in 1..n :
             /\ l = j + 1 /\ l + 1 = i /\ i = j + 2 /\ i + 1 = j + 3 /\ i \in 1..(n + 1)
             /\ i + 1 \in (j + 1)..(n + 1) /\ l \in 1..(n + 1) /\ l # n + 1 /\ s[l] # Slash
      BY <1>1, <2>4 DEF Dot, Slash
    <3>4. m[j] = m[i] /\ b[j] = <<Dot, Dot>>
      <4>1. b[i] = <<>>
        BY ONLY <1>7, <2>4, <3>3
      <4>2. b[l] = <<Dot>>
        BY ONLY <1>8, <2>4, <3>3, <4>1
      <4>3. m[l] = m[l + 1]
        BY ONLY <1>7, <3>3
      <4>4. m[j] = m[j + 1]
        BY ONLY <1>4, <2>4 DEF CleanAt
      <4>5. b[j] = <<Dot, Dot>>
        BY ONLY <1>1, <1>8, <2>4, <3>3, <4>2
      <4> QED  BY ONLY <3>3, <4>3, <4>4, <4>5
    <3>5. m[i] # <<>> /\ CleanedSegments(m[i]) = CleanBehind(b, m, i + 1)
      BY ONLY <1>9, <2>4, <3>3
    <3>6. CleanBehind(b, m, j) = CleanedSegments(m[j])
      BY ONLY <1>4, <2>4, <3>4, <3>5 DEF CleanAt, Dots
    <3>7. CleanBehind(b, m, i + 1) = <<Slash>> \o k[h[i + 1]]
      BY ONLY <1>6, <3>3
    <3> QED  BY ONLY <3>2, <3>3, <3>4, <3>5, <3>6, <3>7
  <2>5. CASE /\ s[j] # Slash
             /\ ~(s[j] = Dot /\ j + 1 \in 1..n /\ s[j + 1] = Slash)
             /\ ~(s[j] = Dot /\ j + 1 = n /\ s[j + 1] = Dot)
             /\ ~(s[j] = Dot /\ j + 2 \in 1..n /\ s[j + 1] = Dot /\ s[j + 2] = Slash)
    <3>1. h[j] = j
      <4>1. ~IsSlash(s, j) /\ ~(IsDot(s, j) /\ IsSlash(s, j + 1))
        BY ONLY <1>1, <1>2, <1>3, <2>5
      <4>2. ~(IsDot(s, j) /\ IsDot(s, j + 1) /\ j + 1 = Len(s))
        BY ONLY <1>1, <1>3, <2>5
      <4>3. ~(IsDot(s, j) /\ IsDot(s, j + 1) /\ IsSlash(s, j + 2))
        BY ONLY <1>1, <1>2, <1>3, <2>5
      <4> QED  BY ONLY <1>5, <4>1, <4>2, <4>3 DEF SkipsAt
    <3>2. ~(m[j] # <<>> /\ b[j] = <<Dot>>)
      <4>1. SUFFICES ASSUME m[j] # <<>>, b[j] = <<Dot>> PROVE FALSE
        OBVIOUS
      <4>2. s[j] = Dot /\ b[j + 1] = <<>>
        BY ONLY <1>1, <1>8, <2>5, <4>1
      <4>3. m[j] = m[j + 1]
        BY ONLY <1>4, <2>5 DEF CleanAt
      <4>4. j + 1 # n + 1 /\ s[j + 1] = Slash
        BY ONLY <1>1, <1>7, <4>1, <4>2, <4>3
      <4>5. j + 1 \in 1..n
        BY <1>1, <4>4
      <4> QED  BY ONLY <2>5, <4>2, <4>4, <4>5
    <3>3. b[j] # <<Dot, Dot>>
      <4>1. SUFFICES ASSUME b[j] = <<Dot, Dot>> PROVE FALSE
        OBVIOUS
      <4>2. s[j] = Dot /\ b[j + 1] = <<Dot>>
        BY ONLY <1>1, <1>8, <2>5, <4>1
      <4>3. <<Dot>> # <<>>
        OBVIOUS
      <4>4. j + 1 # n + 1 /\ s[j + 1] # Slash
        BY ONLY <1>1, <1>7, <4>2, <4>3
      <4>5. PICK l \in 1..n : l = j + 1 /\ l + 1 = j + 2 /\ l + 1 \in 1..(n + 1)
        BY <1>1, <4>4
      <4>6. s[l] = Dot /\ b[l + 1] = <<>>
        BY ONLY <1>8, <4>2, <4>4, <4>5
      <4>7. l + 1 = n + 1 \/ s[l + 1] = Slash
        BY ONLY <1>7, <4>5, <4>6
      <4>8. l = n \/ l + 1 \in 1..n
        BY <1>1, <4>5
      <4>9. CASE l = n
        BY ONLY <2>5, <4>2, <4>5, <4>6, <4>9
      <4>10. CASE l # n
        <5>1. l + 1 # n + 1
          BY <4>10, <1>1
        <5> QED  BY ONLY <2>5, <4>2, <4>5, <4>6, <4>7, <4>8, <4>10, <5>1
      <4> QED  BY <4>9, <4>10
    <3>4. CleanBehind(b, m, j) = <<Slash>> \o CleanFrom(b, m, j)
      BY ONLY <1>4, <2>5, <3>2, <3>3 DEF CleanAt, Dots
    <3> QED  BY ONLY <1>10, <3>1, <3>4
  <2> QED  BY ONLY <2>1, <2>2, <2>3, <2>4, <2>5
<1>12. ASSUME NEW i \in ((j - 1) + 1)..(n + 1)
       PROVE  k[i] = CleanFrom(b, m, i) /\ CleanBehind(b, m, i) = <<Slash>> \o k[h[i]]
  <2>1. i = j \/ i \in (j + 1)..(n + 1)
    BY <1>1
  <2> QED  BY ONLY <2>1, <1>6, <1>10, <1>11
<1> QED  BY ONLY <1>1, <1>12 DEF Agreed

-----------------------------------------------------------------------------
(* The path of a request *)

\* The path the handlers see is made of the one the client means.
LEMMA UriIs ==
    ASSUME NEW r \in Requests
    PROVE  ParseTarget(Target(r)).uri = Normalized(r.path)
<1>1. PICK ps \in Seq(ParamFields) : ps = r.params /\ \A i \in DOMAIN ps : IsParam(ps[i])
  BY RequestParts
<1>2. SplitTarget(Target(r)).path = EncodedPath(r.path)
  <2>1. SplitTarget(Target(r)) =
          IF ps = <<>> THEN [path |-> EncodedPath(r.path), hasQuery |-> FALSE, query |-> <<>>]
          ELSE [path |-> EncodedPath(r.path), hasQuery |-> TRUE, query |-> Body(ps)]
    BY <1>1, SplitRead
  <2> QED  BY ONLY <2>1
<1>3. r.path \in Seq(Byte)
  BY WellFormed
<1>4. MgUrlDecode(EncodedPath(r.path)) = r.path
  BY <1>3, PathDecoded
<1> QED  BY ONLY <1>2, <1>4 DEF ParseTarget

\* The first byte of a path stays.
LEMMA FirstStays ==
    ASSUME NEW s \in Seq(Nat), s # <<>>
    PROVE  StartsWith(RemoveDoubleDotsAndDoubleSlashes(s), s[1])
<1>1. PICK n \in Nat : n = Len(s) /\ 1 \in 1..n /\ s[1] \in Nat
  OBVIOUS
<1>2. PICK h : /\ \A i \in 1..(Len(s) + 1) : SkipsAt(h, s, i)
               /\ \A start : AfterSlash(s, start) = h[start]
  BY AfterSteps
<1>3. PICK k : /\ k[Len(s) + 1] = <<>> /\ RemoveDoubleDotsAndDoubleSlashes(s) = k[1]
               /\ \A i \in 1..Len(s) : KeepsAt(k, h, s, i) /\ k[i] \in Strings(Nat)
  BY <1>2, KeptSteps
<1>4. \A i \in 1..(n + 1) : h[i] \in i..(n + 1)
  BY <1>1, <1>2, AfterIsAhead
<1>5. KeepsAt(k, h, s, 1)
  BY <1>1, <1>3
<1>6. PICK i \in 1..(n + 1) : k[1] = <<s[1]>> \o k[i]
  <2>1. 1 + 1 \in 1..(n + 1) /\ h[1 + 1] \in 1..(n + 1)
    BY <1>1, <1>4
  <2> QED  BY ONLY <1>5, <2>1 DEF KeepsAt
<1>7. PICK y \in Strings(Nat) : y = k[i]
  <2>1. <<>> \in Strings(Nat)
    BY Joins
  <2>2. i = n + 1 \/ i \in 1..n
    BY <1>1
  <2> QED  BY ONLY <1>1, <1>3, <2>1, <2>2
<1>8. k[1] # <<>> /\ k[1][1] = s[1]
  <2>1. <<s[1]>> \in Strings(Nat) /\ Len(<<s[1]>>) = 1 /\ <<s[1]>>[1] = s[1] /\ 1 \in 1..1
    BY <1>1, Tuples
  <2>2. Joined(<<s[1]>>, y)
    BY <2>1, Joining
  <2>3. (<<s[1]>> \o y)[1] = s[1]
    BY ONLY <2>1, <2>2 DEF Joined
  <2>4. <<s[1]>> \o y # <<>>
    BY <1>1, OneAhead
  <2> QED  BY ONLY <1>6, <1>7, <2>3, <2>4
<1> QED  BY ONLY <1>3, <1>8 DEF StartsWith

\* What the server's loop leaves of a path that begins with a slash is what stays
\* of its segments.
LEMMA PathCleaned ==
    ASSUME NEW s \in Seq(Nat), s # <<>>, Free(s, {BackSlash}), s[1] = Slash
    PROVE  RemoveDoubleDotsAndDoubleSlashes(s) = Cleaned(s)
<1>1. PICK n \in Nat : n = Len(s) /\ 1 \in 1..n /\ n + 1 \in 1..(n + 1) /\ 1 \in 1..(n + 1)
  OBVIOUS
<1>2. PICK h : /\ \A i \in 1..(Len(s) + 1) : SkipsAt(h, s, i)
               /\ \A start : AfterSlash(s, start) = h[start]
  BY AfterSteps
<1>3. PICK k : /\ k[Len(s) + 1] = <<>> /\ RemoveDoubleDotsAndDoubleSlashes(s) = k[1]
               /\ \A i \in 1..Len(s) : KeepsAt(k, h, s, i) /\ k[i] \in Strings(Nat)
  BY <1>2, KeptSteps
<1>4. PICK b, m : /\ Segmented(b, m, s)
                  /\ Segments(s).before = b[1] /\ Segments(s).segments = m[1]
  BY SegmentSteps
<1>5. h[n + 1] = n + 1
  <2>1. SkipsAt(h, s, n + 1)
    BY <1>1, <1>2
  <2>2. ~IsSlash(s, n + 1) /\ ~IsDot(s, n + 1)
    BY <1>1 DEF IsSlash, IsDot
  <2> QED  BY ONLY <2>1, <2>2 DEF SkipsAt
<1> DEFINE E == {j \in 0..n : Agreed(b, m, s, h, k, j)}
<1>6. n \in E
  <2>1. Agreed(b, m, s, h, k, Len(s))
    BY ONLY <1>1, <1>3, <1>4, <1>5, s \in Seq(Nat), AgreedAtTheEnd
  <2> QED  BY <1>1, <2>1
<1>7. ASSUME NEW j \in 1..n, j \in E PROVE j - 1 \in E
  <2>1. Agreed(b, m, s, h, k, j) /\ j \in 1..Len(s)
    BY <1>1, <1>7
  <2>2. Agreed(b, m, s, h, k, j - 1)
    BY ONLY <2>1, <1>2, <1>3, <1>4, s \in Seq(Nat), Free(s, {BackSlash}), AgreedBefore
  <2> QED  BY <2>2
<1> HIDE DEF E
<1>8. 0 \in E
  <2>1. 0..n \subseteq E
    BY <1>6, <1>7, DownFrom
  <2> QED  BY <2>1
<1>9. Agreed(b, m, s, h, k, 0) /\ 1 \in (0 + 1)..(Len(s) + 1)
  BY <1>1, <1>8 DEF E
<1>10. k[1] = CleanFrom(b, m, 1)
  BY ONLY <1>9 DEF Agreed
<1> QED  BY ONLY <1>3, <1>4, <1>10 DEF Cleaned, CleanFrom

\* A star stays as it is.
LEMMA StarCleaned == Cleaned(<<Star>>) = <<Star>>
<1>1. PICK s \in Seq(Nat) : s = <<Star>> /\ Len(s) = 1 /\ s[1] = Star
  <2>1. Star \in Nat
    BY DEF Star
  <2>2. <<Star>> \in Strings(Nat) /\ Len(<<Star>>) = 1 /\ <<Star>>[1] = Star
    BY ONLY <2>1, Tuples
  <2> QED  BY ONLY <2>2 DEF Strings
<1>2. PICK b, m : /\ Segmented(b, m, s)
                  /\ Segments(s).before = b[1] /\ Segments(s).segments = m[1]
  BY SegmentSteps
<1>3. Star # Slash /\ Star \in Nat /\ 1 \in 1..1 /\ 1 + 1 = 2
  BY DEF Star, Slash
<1>4. b[2] = <<>> /\ m[2] = <<>> /\ SegmentAt(b, m, s, 1)
  BY ONLY <1>1, <1>2, <1>3 DEF Segmented
<1>5. b[1] = <<Star>> \o <<>> /\ m[1] = <<>>
  BY ONLY <1>1, <1>3, <1>4 DEF SegmentAt
<1>6. <<Star>> \in Strings(Nat)
  BY <1>3, Tuples
<1>7. b[1] = <<Star>>
  BY ONLY <1>5, <1>6, NothingBehind
<1>8. b[1] \o CleanedSegments(m[1]) = <<Star>>
  BY ONLY <1>5, <1>6, <1>7, NothingBehind
<1> QED  BY ONLY <1>1, <1>2, <1>8 DEF Cleaned

\* Only these paths reach the handlers.
LEMMA ValidPaths ==
    ASSUME NEW s \in Seq(Nat), s # <<>>, IsValidUri(Normalized(s))
    PROVE  \/ s[1] = Slash /\ Normalized(s) = RemoveDoubleDotsAndDoubleSlashes(s)
           \/ s = <<Star>> /\ Normalized(s) = s
<1>1. StartsWith(RemoveDoubleDotsAndDoubleSlashes(s), s[1])
  BY FirstStays
<1>2. StartsWith(s, Slash) <=> s[1] = Slash
  BY ONLY s # <<>> DEF StartsWith
<1>3. StartsWith(s, Dot) <=> s[1] = Dot
  BY ONLY s # <<>> DEF StartsWith
<1>4. CASE s[1] = Slash
  BY ONLY <1>2, <1>4 DEF Normalized
<1>5. CASE s[1] = Dot
  <2>1. IsValidUri(RemoveDoubleDotsAndDoubleSlashes(s))
    BY ONLY <1>3, <1>5, IsValidUri(Normalized(s)) DEF Normalized
  <2>2. RemoveDoubleDotsAndDoubleSlashes(s)[1] = Dot
    BY ONLY <1>1, <1>5 DEF StartsWith
  <2>3. <<Star>>[1] = Star /\ Dot # Star /\ Dot # Slash
    BY DEF Dot, Star, Slash
  <2> QED  BY ONLY <2>1, <2>2, <2>3 DEF IsValidUri, StartsWith
<1>6. CASE s[1] # Slash /\ s[1] # Dot
  <2>1. Normalized(s) = s
    BY ONLY <1>2, <1>3, <1>6 DEF Normalized
  <2> QED  BY ONLY <1>2, <1>6, <2>1, IsValidUri(Normalized(s)) DEF IsValidUri
<1> QED  BY <1>4, <1>5, <1>6

\* No request that the server has no reason to call bad is answered with a 400.
NoneRefused == sent \in Requests /\ (pc = "400" => ~Proper(sent))

\* try_parse accepts a proper request, and its path still begins with a slash.
LEMMA ProperAccepted ==
    ASSUME NEW r \in Requests, Proper(r)
    PROVE  ~IsBadRequest(TryParse(Message(r)))
<1>1. PICK s \in Seq(Nat) : s = r.path /\ s # <<>>
  BY RequestParts
<1>2. r.method \in {Get, Post, Put} /\ Printable(r) /\ s[1] = Slash
  BY ONLY <1>1, Proper(r) DEF Proper, StartsWith
<1>3. TryParse(Message(r)) = Read(r)
  BY <1>2, TryParsed
<1>4. Read(r).uri = Normalized(s)
  <2>1. ParseTarget(Target(r)).uri = Normalized(r.path)
    BY UriIs
  <2> QED  BY ONLY <1>1, <2>1 DEF Read
<1>5. StartsWith(Normalized(s), Slash)
  <2>1. StartsWith(RemoveDoubleDotsAndDoubleSlashes(s), s[1])
    BY <1>1, FirstStays
  <2> QED  BY ONLY <1>1, <1>2, <2>1 DEF Normalized, StartsWith
<1>6. Read(r).accepted
  BY ONLY DEF Read
<1> QED  BY ONLY <1>3, <1>4, <1>5, <1>6 DEF IsBadRequest, IsValidUri

\* A 400 answers no GET or POST of a path from the root that is written without
\* control characters: the scan for the end of the header and the parser take
\* nothing a client may write in it for something else, whatever bytes are in its path
\* and in the values of its parameters (mongoose.c 1786-1895, on_recv_data).
THEOREM NoneRefusedHolds == HeaderSpec => []NoneRefused
<1>1. HeaderInit => NoneRefused
  BY DEF HeaderInit, NoneRefused
<1>2. NoneRefused /\ [HeaderNext]_headerVars => NoneRefused'
  <2> SUFFICES ASSUME NoneRefused, [HeaderNext]_headerVars PROVE NoneRefused'
    OBVIOUS
  <2>1. sent \in Requests /\ (pc = "400" => ~Proper(sent))
    BY DEF NoneRefused
  <2>2. CASE RefuseRequest
    <3>1. ~Proper(sent)
      <4>1. IsBadRequest(Parsed)
        BY ONLY <2>2 DEF RefuseRequest
      <4> QED  BY <4>1, <2>1, ProperAccepted DEF Parsed
    <3>2. sent' = sent
      BY ONLY <2>2 DEF RefuseRequest
    <3> QED  BY ONLY <2>1, <3>1, <3>2 DEF NoneRefused
  <2>3. CASE HandOver \/ RefuseVersion \/ RequestHandler
    <3>1. sent' = sent /\ pc' # "400"
      BY <2>3 DEF HandOver, RefuseVersion, RequestHandler
    <3> QED  BY ONLY <2>1, <3>1 DEF NoneRefused
  <2>4. CASE UNCHANGED headerVars
    <3>1. sent' = sent /\ pc' = pc
      BY ONLY <2>4 DEF headerVars
    <3> QED  BY ONLY <2>1, <3>1 DEF NoneRefused
  <2> QED  BY <2>2, <2>3, <2>4 DEF HeaderNext
<1> QED  BY <1>1, <1>2, PTL DEF HeaderSpec

\* The handlers see the method and the path the client meant, whatever was escaped in
\* it, without its empty and dotted segments (mongoose.c 2480-2580); no proper request
\* is answered with a 400, and one with a control character in it, which the scan for
\* the end of the header refuses (mongoose.c 1786-1804), never comes to them.
THEOREM PathReadBackHolds == HeaderSpec => []PathReadBack
<1>1. HeaderIsRead /\ NoneRefused => PathReadBack
  <2> SUFFICES ASSUME HeaderIsRead, NoneRefused PROVE PathReadBack
    OBVIOUS
  <2>1. pc = "400" => ~Proper(sent)
    BY DEF NoneRefused
  <2>2. ASSUME Handed
        PROVE  /\ Printable(sent) /\ ri.method = sent.method
               /\ Free(sent.path, {BackSlash}) => ri.uri = Cleaned(sent.path)
    <3>1. PICK r \in Requests : r = sent /\ ri = Read(r) /\ IsValidUri(ri.uri) /\ Printable(sent)
      BY <2>2 DEF HeaderIsRead
    <3>2. PICK s \in Seq(Nat) : s = r.path /\ s # <<>>
      BY RequestParts
    <3>3. ri.uri = Normalized(s) /\ ri.method = r.method
      <4>1. ParseTarget(Target(r)).uri = Normalized(r.path)
        BY UriIs
      <4> QED  BY ONLY <3>1, <3>2, <4>1 DEF Read
    <3>4. ASSUME Free(s, {BackSlash}) PROVE Normalized(s) = Cleaned(s)
      <4>1. \/ s[1] = Slash /\ Normalized(s) = RemoveDoubleDotsAndDoubleSlashes(s)
            \/ s = <<Star>> /\ Normalized(s) = s
        BY <3>1, <3>2, <3>3, ValidPaths
      <4>2. CASE s[1] = Slash /\ Normalized(s) = RemoveDoubleDotsAndDoubleSlashes(s)
        BY <3>2, <3>4, <4>2, PathCleaned
      <4>3. CASE s = <<Star>> /\ Normalized(s) = s
        BY ONLY <4>3, StarCleaned
      <4> QED  BY <4>1, <4>2, <4>3
    <3> QED  BY ONLY <3>1, <3>2, <3>3, <3>4
  <2> QED  BY ONLY <2>1, <2>2 DEF PathReadBack
<1> QED  BY <1>1, HeaderIsReadHolds, NoneRefusedHolds, PTL

-----------------------------------------------------------------------------
(* The location in a text, and its way to the box *)

\* A set of numbers with a bound has a greatest one.
LEMMA GreatestOf ==
    ASSUME NEW n \in Nat, NEW S \in SUBSET (0..n), S # {}
    PROVE  Max(S) \in S /\ \A x \in S : x <= Max(S)
<1> DEFINE T == {k \in Nat : k <= n /\ n - k \in S}
<1>1. T \in SUBSET Nat /\ T # {}
  <2>1. PICK x \in S : x \in 0..n
    OBVIOUS
  <2>2. n - x \in T
    BY <2>1
  <2> QED  BY <2>2
<1>2. \A x \in S : x \in Nat /\ x <= n /\ n - x \in T
  OBVIOUS
<1>3. \A k \in T : n - k \in S /\ k \in Nat /\ k <= n
  OBVIOUS
<1> HIDE DEF T
<1>4. PICK k \in T : \A l \in T : k <= l
  BY <1>1, LeastOf
<1>5. n - k \in S /\ \A x \in S : x <= n - k
  BY <1>2, <1>3, <1>4
<1>6. S \in SUBSET Int
  OBVIOUS
<1>7. Max(S) = n - k
  BY <1>5, <1>6, MaxIs
<1> QED  BY <1>5, <1>7

\* The entry that may stand before the location does not announce one.
LEMMA EntryText ==
    ASSUME NEW ahead \in BOOLEAN
    PROVE  Entry(ahead) \in Strings(Nat) /\ \A i \in 1..Len(Entry(ahead)) : Entry(ahead)[i] # 1000
<1>1. CASE ahead
  <2>1. Entry(ahead) = <<1004>> \o <<LineFeed>> /\ LineFeed \in Nat /\ LineFeed # 1000
    BY <1>1 DEF Entry, OtherEntry, LineFeed
  <2>2. PICK x \in Strings(Nat) : x = <<1004>> /\ Len(x) = 1 /\ x[1] = 1004
    <3>1. 1004 \in Nat /\ <<1004>> \in Strings(Nat) /\ Len(<<1004>>) = 1 /\ <<1004>>[1] = 1004
      BY Tuples
    <3> QED  BY ONLY <3>1
  <2>3. PICK y \in Strings(Nat) : y = <<LineFeed>> /\ Len(y) = 1 /\ y[1] = LineFeed
    <3>1. <<LineFeed>> \in Strings(Nat) /\ Len(<<LineFeed>>) = 1 /\ <<LineFeed>>[1] = LineFeed
      BY <2>1, Tuples
    <3> QED  BY ONLY <3>1
  <2>4. x \o y \in Strings(Nat) /\ Joined(x, y)
    BY Joins, Joining
  <2>5. Len(x \o y) = 2 /\ (x \o y)[1] = x[1] /\ (x \o y)[2] = y[1]
    <3>1. 1 \in 1..1 /\ 1 + 1 = 2
      OBVIOUS
    <3> QED  BY ONLY <3>1, <2>2, <2>3, <2>4 DEF Joined
  <2>6. \A i \in 1..2 : i = 1 \/ i = 2
    OBVIOUS
  <2>7. \A i \in 1..Len(x \o y) : (x \o y)[i] # 1000
    BY ONLY <2>1, <2>2, <2>3, <2>5, <2>6
  <2>8. Entry(ahead) = x \o y
    BY ONLY <2>1, <2>2, <2>3
  <2> QED  BY ONLY <2>4, <2>7, <2>8
<1>2. CASE ~ahead
  <2>1. Entry(ahead) = <<>> /\ <<>> \in Strings(Nat) /\ Len(<<>>) = 0
    BY <1>2 DEF Entry, Strings
  <2> QED  BY <2>1
<1> QED  BY ONLY <1>1, <1>2, ahead \in BOOLEAN

\* Where the parts of a text body stand: the location behind a places and the unit
\* that announces it, the line end behind that.
TextParts(data, a, url) ==
    /\ data \in Strings(Nat) /\ a \in Nat /\ Len(url) \in Nat
    /\ Len(data) = a + Len(url) + 4
    /\ \A i \in 1..a : data[i] # 1000
    /\ data[a + 1] = 1000
    /\ \A i \in 1..Len(url) : data[a + 1 + i] = url[i]
    /\ data[a + Len(url) + 2] = Return

\* What clients write has its parts there.
LEMMA TextPlaces ==
    ASSUME NEW url \in Strings(Nat), NEW ahead \in BOOLEAN
    PROVE  \E a \in Nat : TextParts(TextContent(url, ahead), a, url)
<1>1. PICK e \in Strings(Nat) : e = Entry(ahead) /\ \A i \in 1..Len(e) : e[i] # 1000
  <2>1. Entry(ahead) \in Strings(Nat) /\ \A i \in 1..Len(Entry(ahead)) : Entry(ahead)[i] # 1000
    BY EntryText
  <2> DEFINE z == Entry(ahead)
  <2>2. z \in Strings(Nat) /\ z = Entry(ahead) /\ \A i \in 1..Len(z) : z[i] # 1000
    BY ONLY <2>1 DEF z
  <2> HIDE DEF z
  <2> QED  BY ONLY <2>2
<1>2. PICK c \in Strings(Nat) : c = ContentLocation /\ Len(c) = 1 /\ c[1] = 1000
  <2>1. <<1000>> \in Strings(Nat) /\ Len(<<1000>>) = 1 /\ <<1000>>[1] = 1000
    <3>1. 1000 \in Nat
      OBVIOUS
    <3> QED  BY ONLY <3>1, Tuples
  <2> QED  BY ONLY <2>1 DEF ContentLocation
<1>3. PICK l \in Strings(Nat) : l = <<Return, LineFeed>> /\ Len(l) = 2 /\ l[1] = Return
  <2>1. Return \in Nat /\ LineFeed \in Nat
    BY DEF Return, LineFeed
  <2>2. /\ <<Return, LineFeed>> \in Strings(Nat) /\ Len(<<Return, LineFeed>>) = 2
        /\ <<Return, LineFeed>>[1] = Return
    BY ONLY <2>1, Tuples
  <2> QED  BY ONLY <2>2
<1>4. PICK o \in Strings(Nat) : o = OtherEntry /\ Len(o) = 1
  <2>1. <<1004>> \in Strings(Nat) /\ Len(<<1004>>) = 1
    <3>1. 1004 \in Nat
      OBVIOUS
    <3> QED  BY ONLY <3>1, Tuples
  <2> QED  BY ONLY <2>1 DEF OtherEntry
<1>5. PICK s \in Strings(Nat) : s = e \o c /\ Joined(e, c)
  BY Joins, Joining
<1>6. PICK t \in Strings(Nat) : t = s \o url /\ Joined(s, url)
  BY Joins, Joining
<1>7. PICK u \in Strings(Nat) : u = t \o l /\ Joined(t, l)
  BY Joins, Joining
<1>8. PICK v \in Strings(Nat) : v = u \o o /\ Joined(u, o)
  BY Joins, Joining
<1>9. TextContent(url, ahead) = v
  BY ONLY <1>1, <1>2, <1>3, <1>4, <1>5, <1>6, <1>7, <1>8 DEF TextContent
<1>10. /\ Len(e) \in Nat /\ Len(url) \in Nat /\ Len(s) = Len(e) + 1
       /\ Len(t) = Len(s) + Len(url) /\ Len(u) = Len(t) + 2 /\ Len(v) = Len(u) + 1
  BY ONLY <1>2, <1>3, <1>4, <1>5, <1>6, <1>7, <1>8 DEF Joined
<1>11. \A i \in 1..Len(u) : v[i] = u[i]
  BY ONLY <1>8 DEF Joined
<1>12. \A i \in 1..Len(t) : u[i] = t[i]
  BY ONLY <1>7 DEF Joined
<1>13. \A i \in 1..Len(s) : t[i] = s[i]
  BY ONLY <1>6 DEF Joined
<1>14. \A i \in 1..Len(t) : v[i] = t[i]
  BY ONLY <1>10, <1>11, <1>12
<1>15. \A i \in 1..Len(s) : v[i] = s[i]
  BY ONLY <1>10, <1>13, <1>14
<1>16. ASSUME NEW i \in 1..Len(e) PROVE v[i] # 1000
  <2>1. i \in 1..Len(s)
    BY ONLY <1>10, i \in 1..Len(e)
  <2>2. s[i] = e[i]
    BY ONLY <1>5, i \in 1..Len(e) DEF Joined
  <2> QED  BY ONLY <2>1, <2>2, <1>1, <1>15, i \in 1..Len(e)
<1>17. v[Len(e) + 1] = 1000
  <2>1. Len(e) + 1 \in 1..Len(s) /\ 1 \in 1..Len(c)
    BY ONLY <1>2, <1>10
  <2>2. s[Len(e) + 1] = c[1]
    BY ONLY <1>5, <2>1 DEF Joined
  <2> QED  BY ONLY <2>1, <2>2, <1>2, <1>15
<1>18. ASSUME NEW i \in 1..Len(url) PROVE v[Len(e) + 1 + i] = url[i]
  <2>1. Len(s) + i \in 1..Len(t) /\ Len(s) + i = Len(e) + 1 + i
    BY ONLY <1>10, i \in 1..Len(url)
  <2>2. t[Len(s) + i] = url[i]
    BY ONLY <1>6, i \in 1..Len(url) DEF Joined
  <2> QED  BY ONLY <2>1, <2>2, <1>14
<1>19. v[Len(e) + Len(url) + 2] = Return
  <2>1. Len(t) + 1 \in 1..Len(u) /\ 1 \in 1..Len(l) /\ Len(t) + 1 = Len(e) + Len(url) + 2
    BY ONLY <1>3, <1>10
  <2>2. u[Len(t) + 1] = l[1]
    BY ONLY <1>7, <2>1 DEF Joined
  <2> QED  BY ONLY <2>1, <2>2, <1>3, <1>11
<1>20. Len(v) = Len(e) + Len(url) + 4
  BY ONLY <1>10
<1>21. TextParts(v, Len(e), url)
  BY <1>10, <1>16, <1>17, <1>18, <1>19, <1>20 DEF TextParts
<1> QED  BY <1>9, <1>10, <1>21

\* The finder takes the URL, without the white space around it, wherever it stands.
LEMMA LocationFound ==
    ASSUME NEW url \in Seq(Nat), Free(url, {Return, LineFeed}), NEW ahead \in BOOLEAN
    PROVE  GetLocationFromText(TextContent(url, ahead)) = Found(Trim(url))
<1>1. url \in Strings(Nat)
  BY DEF Strings
<1>2. PICK data \in Strings(Nat), a \in Nat, n \in Nat :
        data = TextContent(url, ahead) /\ n = Len(url) /\ TextParts(data, a, url)
  <2>1. PICK a \in Nat : TextParts(TextContent(url, ahead), a, url)
    BY <1>1, TextPlaces
  <2>2. TextContent(url, ahead) \in Strings(Nat) /\ Len(url) \in Nat
    BY ONLY <2>1 DEF TextParts
  <2> QED  BY ONLY <2>1, <2>2
<1>3. /\ Len(data) = a + n + 4 /\ data[a + 1] = 1000 /\ data[a + n + 2] = Return
      /\ \A i \in 1..a : data[i] # 1000
      /\ \A i \in 1..n : data[a + 1 + i] = url[i]
  BY <1>2 DEF TextParts
<1>4. DOMAIN data = 1..Len(data) /\ DOMAIN url = 1..n
  BY <1>1, <1>2 DEF Strings
<1>5. ASSUME NEW i \in 1..Len(data) PROVE SubSeq(data, i, i) = <<data[i]>>
  <2>1. PICK j \in Nat, k \in Nat : k = i /\ j + 1 = k /\ j <= k /\ k <= Len(data) /\ k - j = 1 /\ j + 1 \in 1..Len(data)
    <3>1. i - 1 \in Nat /\ i \in Nat /\ (i - 1) + 1 = i /\ i - 1 <= i /\ i <= Len(data) /\ i - (i - 1) = 1
      BY <1>3
    <3> QED  BY <3>1
  <2>2. Excerpt(Nat, data, j, k)
    BY ONLY <2>1, Excerpts, j \in Nat, k \in Nat, data \in Strings(Nat)
  <2>3. PICK c \in Strings(Nat) : c = SubSeq(data, j + 1, k) /\ Len(c) = 1 /\ \A x \in 1..1 : c[x] = data[j + x]
    BY ONLY <2>1, <2>2 DEF Excerpt
  <2>4. c[1] = data[i] /\ c[1] \in Nat
    <3>1. c[1] = data[j + 1]
      BY <2>3
    <3>2. c[1] \in Nat
      BY <2>3 DEF Strings
    <3> QED  BY ONLY <3>1, <3>2, <2>1
  <2>5. PICK d \in Strings(Nat) : d = <<data[i]>> /\ Len(d) = 1 /\ d[1] = data[i]
    <3>1. /\ <<data[i]>> \in Strings(Nat) /\ Len(<<data[i]>>) = 1 /\ <<data[i]>>[1] = data[i]
      BY ONLY <2>4, Tuples
    <3> QED  BY ONLY <3>1
  <2>6. Len(c) = Len(d) /\ \A x \in 1..Len(c) : c[x] = d[x]
    <3>1. \A x \in 1..1 : x = 1
      OBVIOUS
    <3> QED  BY ONLY <3>1, <2>3, <2>4, <2>5
  <2>7. c = d
    BY <2>6, SameString
  <2> QED  BY ONLY <2>1, <2>3, <2>5, <2>7
<1>6. /\ Occurrences(ContentLocation, data, 1) \in SUBSET Int
      /\ a + 1 \in Occurrences(ContentLocation, data, 1)
      /\ \A i \in Occurrences(ContentLocation, data, 1) : a + 1 <= i
  <2> DEFINE C == {i \in 1..Len(data) : data[i] = 1000}
  <2>1. Occurrences(ContentLocation, data, 1) = {i \in 1..Len(data) : SubSeq(data, i, i) = <<1000>>}
    <3>1. ContentLocation = <<1000>> /\ Len(<<1000>>) = 1
      BY DEF ContentLocation
    <3>2. 1..Len(data) - 1 + 1 = 1..Len(data) /\ \A i \in 1..Len(data) : i + 1 - 1 = i
      BY <1>3
    <3> QED  BY ONLY <3>1, <3>2 DEF Occurrences
  <2>2. \A x : <<x>> = <<1000>> <=> x = 1000
    OBVIOUS
  <2>3. Occurrences(ContentLocation, data, 1) = C
    BY ONLY <2>1, <2>2, <1>5 DEF C
  <2>4. C \in SUBSET Int /\ a + 1 \in C /\ \A i \in C : a + 1 <= i
    BY ONLY <1>2, <1>3, a \in Nat, n \in Nat DEF C
  <2> QED  BY ONLY <2>3, <2>4
<1>7. Min(Occurrences(ContentLocation, data, 1)) = a + 1
  BY ONLY <1>6, MinIs
<1> DEFINE E == {Len(data)} \cup {i - 1 : i \in {j \in a + 2..Len(data) : data[j] \in {Return, LineFeed}}}
<1>8. E \in SUBSET Int /\ a + n + 1 \in E /\ \A i \in E : a + n + 1 <= i
  <2> DEFINE L == {j \in a + 2..Len(data) : data[j] \in {Return, LineFeed}}
  <2>1. a + n + 2 \in L /\ (a + n + 2) - 1 = a + n + 1
    BY <1>3
  <2>2. ASSUME NEW j \in L PROVE j \in Int /\ a + n + 1 <= j - 1
    <3>1. j \in Int /\ a + 2 <= j /\ data[j] \in {Return, LineFeed}
      OBVIOUS
    <3>2. CASE j <= a + n + 1
      <4>1. PICK i \in 1..n : j = a + 1 + i
        <5>1. j - (a + 1) \in 1..n /\ j = a + 1 + (j - (a + 1))
          BY <3>1, <3>2
        <5> QED  BY <5>1
      <4>2. data[j] = url[i]
        BY <4>1, <1>3
      <4> QED  BY <3>1, <4>2, <1>4 DEF Free
    <3>3. CASE ~(j <= a + n + 1)
      BY <3>1, <3>3
    <3> QED  BY <3>2, <3>3
  <2>3. E = {Len(data)} \cup {i - 1 : i \in L}
    OBVIOUS
  <2>4. Len(data) \in Int /\ a + n + 1 <= Len(data)
    BY <1>3
  <2> HIDE DEF E, L
  <2> QED  BY <2>1, <2>2, <2>3, <2>4
<1>9. LineAt(data, a + 2) = SubSeq(data, a + 2, a + n + 1)
  <2>1. Min(E) = a + n + 1
    <3> HIDE DEF E
    <3> QED  BY <1>8, MinIs
  <2> QED  BY <2>1 DEF LineAt
<1>10. SubSeq(data, a + 2, a + n + 1) = url
  <2>1. a + 1 \in Nat /\ a + n + 1 \in Nat /\ a + 1 <= a + n + 1 /\ a + n + 1 <= Len(data)
        /\ (a + 1) + 1 = a + 2 /\ (a + n + 1) - (a + 1) = n
    BY <1>3
  <2> DEFINE l == SubSeq(data, a + 2, a + n + 1)
  <2>2. l \in Strings(Nat) /\ Len(l) = n /\ \A i \in 1..n : l[i] = data[a + 1 + i]
    <3>1. PICK p \in Nat, q \in Nat : p = a + 1 /\ q = a + n + 1 /\ p <= q /\ q <= Len(data) /\ p + 1 = a + 2 /\ q - p = n
      BY ONLY <2>1
    <3>2. Excerpt(Nat, data, p, q)
      BY ONLY <3>1, Excerpts, p \in Nat, q \in Nat, data \in Strings(Nat)
    <3> QED  BY ONLY <3>1, <3>2 DEF Excerpt, l
  <2> HIDE DEF l
  <2>3. Len(l) = Len(url) /\ \A i \in 1..Len(l) : l[i] = url[i]
    BY <2>2, <1>2, <1>3
  <2>4. l = url
    BY <2>2, <2>3, <1>1, SameString
  <2> QED  BY <2>4 DEF l
<1>11. Occurs(ContentLocation, data, 1)
  BY <1>6 DEF Occurs
<1>12. (a + 1) + 1 = a + 2
  OBVIOUS
<1> QED  BY ONLY <1>2, <1>7, <1>9, <1>10, <1>11, <1>12 DEF GetLocationFromText

\* What the ink of a text is between.
LEMMA InkPlaces ==
    ASSUME NEW url \in Seq(Nat), Ink(url) # {}
    PROVE  \E f \in Nat, l \in Nat :
              /\ f = Min(Ink(url)) /\ l = Max(Ink(url))
              /\ f \in Ink(url) /\ l \in Ink(url)
              /\ \A i \in Ink(url) : f <= i /\ i <= l
              /\ 1 <= f /\ f <= l /\ l <= Len(url)
<1>1. PICK n \in Nat : n = Len(url) /\ DOMAIN url = 1..n
  OBVIOUS
<1>2. Ink(url) \subseteq 1..n
  BY <1>1 DEF Ink
<1>3. Ink(url) \in SUBSET Nat /\ Ink(url) \in SUBSET (0..n)
  BY <1>2
<1>4. Min(Ink(url)) \in Ink(url) /\ \A i \in Ink(url) : Min(Ink(url)) <= i
  BY <1>3, LeastOf
<1>5. Max(Ink(url)) \in Ink(url) /\ \A i \in Ink(url) : i <= Max(Ink(url))
  BY <1>3, GreatestOf
<1> QED  BY <1>1, <1>2, <1>3, <1>4, <1>5

\* Without other white space, trim takes the blanks.
LEMMA Trimmed ==
    ASSUME NEW url \in Seq(Nat), Free(url, {Tab, Return, LineFeed}), Ink(url) # {}
    PROVE  Trim(url) = SubSeq(url, Min(Ink(url)), Max(Ink(url)))
<1>1. {i \in DOMAIN url : url[i] \notin WhiteSpace} = Ink(url)
  BY DEF Ink, WhiteSpace, Free
<1> QED  BY <1>1 DEF Trim

\* What play takes of a location is its last word.
LEMMA LastWordIsFinal ==
    ASSUME NEW url \in Seq(Nat), Free(url, {Tab, Return, LineFeed}), Ink(url) # {}
    PROVE  LastWord(Trim(url)) = FinalWord(url)
<1>1. PICK f \in Nat, l \in Nat :
        /\ f = Min(Ink(url)) /\ l = Max(Ink(url))
        /\ f \in Ink(url) /\ l \in Ink(url)
        /\ \A i \in Ink(url) : f <= i /\ i <= l
        /\ 1 <= f /\ f <= l /\ l <= Len(url)
  BY InkPlaces
<1>2. PICK n \in Nat : n = Len(url) /\ DOMAIN url = 1..n
  OBVIOUS
<1>3. url \in Strings(Nat)
  BY DEF Strings
<1>4. PICK p \in Nat, m \in Nat : f = p + 1 /\ l = p + m /\ l - p = m /\ p <= l /\ 1 <= m /\ p + m <= n
  <2>1. /\ f - 1 \in Nat /\ l - (f - 1) \in Nat /\ f = (f - 1) + 1 /\ l = (f - 1) + (l - (f - 1))
        /\ f - 1 <= l /\ 1 <= l - (f - 1) /\ l <= n
    <3>1. 1 <= f /\ f <= l /\ l <= n
      BY ONLY <1>1, <1>2
    <3> QED  BY ONLY <3>1, f \in Nat, l \in Nat, n \in Nat
  <2> QED  BY ONLY <2>1
<1>5. PICK t \in Strings(Nat) : t = SubSeq(url, f, l) /\ Len(t) = m /\ \A i \in 1..m : t[i] = url[p + i]
  <2>1. Excerpt(Nat, url, p, l)
    BY ONLY <1>1, <1>3, <1>4, Excerpts, p \in Nat, l \in Nat
  <2> QED  BY ONLY <2>1, <1>4 DEF Excerpt
<1>6. DOMAIN t = 1..m
  BY <1>5 DEF Strings
<1>7. Trim(url) = t
  BY <1>1, <1>5, Trimmed
<1> DEFINE F == {i \in 1..l : i..l \subseteq Ink(url)}
<1>8. FinalWord(url) = SubSeq(url, Min(F), l)
  BY ONLY <1>1 DEF FinalWord, F
<1>9. \A i \in 1..m : p + i \in 1..n
  BY <1>4
<1>10. Positions(t, Blank) = {i \in 1..m : p + i \notin Ink(url)}
  BY ONLY <1>2, <1>5, <1>6, <1>9 DEF Positions, Ink
<1>11. F \in SUBSET Int /\ \A i \in F : i \in Int /\ i \in Ink(url) /\ i <= l
  BY <1>1
<1>12. \A i \in p + 1..l : i - p \in 1..m /\ p + (i - p) = i
  BY <1>4
\* The blanks before place k of the text are all the blanks, and place k is one.
<1>13. ASSUME NEW k \in Nat, k < m, k > 0 => k \in Positions(t, Blank),
              \A i \in Positions(t, Blank) : i <= k
       PROVE  Min(F) = p + k + 1
  <2>1. ASSUME NEW i \in p + k + 1..l PROVE i \in Ink(url)
    <3>1. i - p \in 1..m /\ p + (i - p) = i /\ ~(i - p <= k)
      BY <1>4, <1>13
    <3> QED  BY ONLY <3>1, <1>10, <1>13
  <2>2. p + k + 1 \in 1..l
    BY <1>4, <1>13
  <2>3. p + k + 1 \in F
    BY ONLY <2>1, <2>2 DEF F
  <2>4. ASSUME NEW i \in F PROVE p + k + 1 <= i
    <3>1. i \in Int /\ i..l \subseteq Ink(url) /\ i \in Ink(url) /\ p + 1 <= i
      BY <1>1, <1>4, <1>11
    <3>2. CASE k = 0
      BY ONLY <3>1, <3>2, k \in Nat, p \in Nat
    <3>3. CASE k > 0 /\ i <= p + k
      <4>1. p + k \in i..l
        BY ONLY <3>1, <3>3, <1>4, <1>13, k \in Nat, p \in Nat, m \in Nat, l \in Nat
      <4>2. p + k \notin Ink(url)
        BY ONLY <1>10, <1>13, <3>3
      <4> QED  BY ONLY <3>1, <4>1, <4>2
    <3> QED  BY ONLY <3>1, <3>2, <3>3, k \in Nat, p \in Nat
  <2> HIDE DEF F
  <2> QED  BY ONLY <1>11, <2>3, <2>4, MinIs
<1> HIDE DEF F
<1>14. CASE Positions(t, Blank) = {}
  <2>1. LastWord(t) = t
    BY ONLY <1>14 DEF LastWord
  <2>2. Min(F) = p + 0 + 1
    <3>1. 0 \in Nat /\ 0 < m /\ ~(0 > 0)
      BY <1>4
    <3> QED  BY ONLY <3>1, <1>13, <1>14
  <2>3. p + 0 + 1 = f
    BY <1>4
  <2> QED  BY ONLY <1>5, <1>7, <1>8, <2>1, <2>2, <2>3
<1>15. CASE Positions(t, Blank) # {}
  <2>1. Positions(t, Blank) \in SUBSET (0..m)
    BY <1>10
  <2>2. PICK k \in Positions(t, Blank) : k = Max(Positions(t, Blank)) /\ \A i \in Positions(t, Blank) : i <= k
    BY ONLY <2>1, <1>15, GreatestOf, m \in Nat
  <2>3. k \in 1..m /\ p + k \notin Ink(url)
    BY ONLY <1>10, <2>2
  <2>4. k # m
    BY ONLY <1>1, <1>4, <2>3
  <2>5. k \in Nat /\ k < m /\ m <= Len(t) /\ k <= m
    BY <1>5, <2>3, <2>4
  <2>6. LastWord(t) = SubSeq(t, k + 1, m)
    BY ONLY <1>5, <1>15, <2>2, <2>4 DEF LastWord
  <2>7. Min(F) = p + k + 1
    BY ONLY <1>13, <2>2, <2>5
  <2>8. PICK q \in Nat : q = p + k /\ q <= l /\ l - q = m - k /\ \A i \in Int : p + (k + i) = q + i
    <3>1. p + k \in Nat /\ p + k <= l /\ l - (p + k) = m - k /\ \A i \in Int : p + (k + i) = (p + k) + i
      BY ONLY <1>4, <2>5, p \in Nat, m \in Nat, l \in Nat
    <3> QED  BY ONLY <3>1
  <2>9. PICK x \in Strings(Nat) : x = SubSeq(t, k + 1, m) /\ Len(x) = m - k /\ \A i \in 1..(m - k) : x[i] = t[k + i]
    <3>1. Excerpt(Nat, t, k, m)
      BY ONLY <2>5, Excerpts, t \in Strings(Nat), m \in Nat
    <3> QED  BY ONLY <3>1 DEF Excerpt
  <2>10. PICK y \in Strings(Nat) : y = SubSeq(url, q + 1, l) /\ Len(y) = m - k /\ \A i \in 1..(m - k) : y[i] = url[q + i]
    <3>1. Excerpt(Nat, url, q, l)
      BY ONLY <1>1, <1>3, <2>8, Excerpts, q \in Nat, l \in Nat
    <3> QED  BY ONLY <3>1, <2>8 DEF Excerpt
  <2>11. \A i \in 1..(m - k) : i \in Int /\ k + i \in 1..m
    BY ONLY <2>5, m \in Nat
  <2>12. Len(x) = Len(y) /\ \A i \in 1..Len(x) : x[i] = y[i]
    <3>1. ASSUME NEW i \in 1..(m - k) PROVE x[i] = y[i]
      <4>1. x[i] = t[k + i] /\ y[i] = url[q + i]
        BY ONLY <2>9, <2>10, i \in 1..(m - k)
      <4>2. k + i \in 1..m /\ p + (k + i) = q + i
        BY ONLY <2>8, <2>11, i \in 1..(m - k)
      <4>3. t[k + i] = url[p + (k + i)]
        BY ONLY <1>5, <4>2
      <4> QED  BY ONLY <4>1, <4>2, <4>3
    <3> QED  BY ONLY <3>1, <2>9, <2>10
  <2>13. x = y
    BY ONLY <2>12, SameString, x \in Strings(Nat), y \in Strings(Nat)
  <2> QED  BY ONLY <1>7, <1>8, <2>6, <2>7, <2>8, <2>9, <2>10, <2>13
<1> QED  BY ONLY <1>14, <1>15

\* The box reads the URL as it was, whichever of its bytes had to be escaped.
LEMMA UrlDecodedBack ==
    ASSUME NEW url \in Seq(Byte)
    PROVE  Decoded(Encoded(url), FALSE) = url
<1>1. PICK n \in Nat : n = Len(url) /\ DOMAIN url = 1..n
  OBVIOUS
<1>2. Byte \subseteq Nat
  BY DEF Byte
<1>3. \A i \in 1..n : url[i] \in Byte /\ url[i] \in Nat
  BY <1>1, <1>2, ElementOf
<1>4. url \in Seq(Nat)
  BY <1>2, WiderSeq
<1> DEFINE code(c) == IF c \in Unreserved THEN <<c>> ELSE <<Percent>> \o <<HexDigit(c \div 16), HexDigit(c % 16)>>
           codes == [i \in 1..n |-> code(url[i])]
<1>5. \A c \in Byte : code(c) \in Strings(Nat) /\ Spelled(code(c), c, FALSE)
  BY ByteSpelled
<1>6. Encoded(url) = FlattenSeq(codes)
  BY ONLY <1>1 DEF Encoded, UrlEncode, codes
<1> HIDE DEF code
<1>7. codes \in Seq(Strings(Nat)) /\ Len(codes) = n /\ \A i \in 1..n : codes[i] = code(url[i])
  <2>1. \A i \in 1..n : code(url[i]) \in Strings(Nat)
    BY <1>3, <1>5
  <2> QED  BY <2>1
<1> HIDE DEF codes
<1>8. ASSUME NEW i \in 1..Len(url) PROVE Spelled(codes[i], url[i], FALSE)
  <2>1. Spelled(code(url[i]), url[i], FALSE)
    BY <1>1, <1>3, <1>5
  <2>2. codes[i] = code(url[i])
    BY <1>1, <1>7
  <2> QED  BY ONLY <2>1, <2>2
<1>9. Decoded(FlattenSeq(codes), FALSE) = url
  BY <1>1, <1>4, <1>7, <1>8, DecodedBack
<1> QED  BY ONLY <1>6, <1>9

\* What the box is asked to play is the last word of the URL in a text, byte by byte
\* and whatever entry stands before it: getLocationAndPostionFromText, play and
\* connectHandler take nothing from it but the blanks around it (AirPlay.cpp 470-501,
\* TitanRemote.cpp 103-109, 169-171, Util.cpp 178-227).
THEOREM TextUrlArrives ==
    ASSUME NEW url \in Seq(Byte), Free(url, {Tab, Return, LineFeed}), Ink(url) # {},
           NEW ahead \in BOOLEAN
    PROVE  /\ GetLocationFromText(TextContent(url, ahead)).found
           /\ LET location == GetLocationFromText(TextContent(url, ahead)).location
              IN  Decoded(Encoded(LastWord(location)), FALSE) = FinalWord(url)
<1>1. Byte \subseteq Nat
  BY DEF Byte
<1>2. url \in Seq(Nat)
  BY <1>1, WiderSeq
<1>3. Free(url, {Return, LineFeed})
  BY DEF Free
<1>4. GetLocationFromText(TextContent(url, ahead)) = Found(Trim(url))
  BY <1>2, <1>3, LocationFound
<1>5. LastWord(Trim(url)) = FinalWord(url)
  BY <1>2, LastWordIsFinal
<1>6. FinalWord(url) \in Seq(Byte)
  <2>1. PICK l \in Nat : l = Max(Ink(url)) /\ l \in Ink(url) /\ 1 <= l /\ l <= Len(url)
    <3>1. \E f \in Nat, l \in Nat :
              /\ f = Min(Ink(url)) /\ l = Max(Ink(url))
              /\ f \in Ink(url) /\ l \in Ink(url)
              /\ \A i \in Ink(url) : f <= i /\ i <= l
              /\ 1 <= f /\ f <= l /\ l <= Len(url)
      BY <1>2, InkPlaces
    <3> QED  BY <3>1
  <2> DEFINE F == {i \in 1..l : i..l \subseteq Ink(url)}
  <2>2. l \in F /\ F \in SUBSET Nat
    BY <2>1
  <2>3. \A i \in F : i \in Nat /\ 1 <= i /\ i <= l
    BY <2>1
  <2>4. FinalWord(url) = SubSeq(url, Min(F), l)
    BY ONLY <2>1 DEF FinalWord, F
  <2> HIDE DEF F
  <2>5. Min(F) \in F
    BY <2>2, LeastOf
  <2>6. PICK k \in Nat : k = Min(F) /\ 1 <= k /\ k <= l
    BY <2>3, <2>5
  <2>7. SubSeq(url, k, l) \in Seq(Byte)
    BY <2>1, <2>6
  <2> QED  BY ONLY <2>4, <2>6, <2>7
<1>7. Decoded(Encoded(FinalWord(url)), FALSE) = FinalWord(url)
  BY <1>6, UrlDecodedBack
<1>8. Found(Trim(url)).found /\ Found(Trim(url)).location = Trim(url)
  BY DEF Found
<1> QED  BY ONLY <1>4, <1>5, <1>7, <1>8

-----------------------------------------------------------------------------
(* The pace of the requests to the box *)

\* Ticks since the beginning of its second.
Offset(t) == t - Seconds(t) * Second

\* The n-th request of a second comes at least n - 1 sleeps into it, and the
\* member holds the second of the last request.
Paced ==
    burst > 0 => /\ lastRequestTime = Seconds(started)
                 /\ (burst - 1) * Sleep <= Offset(started)

\* Before the first request the second of the member, 0, is over.
Fresh == burst = 0 => started = 0

PacingInv == TypeOK /\ Paced /\ Fresh /\ started <= now /\ now >= Second

\* What the division by the length of a second returns.
LEMMA SecondsOf ==
    ASSUME NEW t \in Nat
    PROVE  /\ Seconds(t) \in Nat
           /\ Offset(t) \in Nat
           /\ Offset(t) < Second
BY PacingConstants, Z3 DEF Seconds, Offset

\* Later ticks of the same second are further into it.
LEMMA OffsetsGrow ==
    ASSUME NEW t \in Nat, NEW u \in Nat, Seconds(t) = Seconds(u)
    PROVE  Offset(u) - Offset(t) = u - t
BY PacingConstants, SecondsOf DEF Offset

\* A request at tick t, a sleep after the last one when both are in the same
\* second, keeps the invariant.
LEMMA MadeKeeps ==
    ASSUME PacingInv, NEW t \in Nat, t >= now, Made(t),
           Seconds(t) = Seconds(started) => t >= started + Sleep
    PROVE  PacingInv'
<1>1. Seconds(t) \in Nat /\ Offset(t) \in Nat
  BY SecondsOf
<1>2. TypeOK' /\ started' <= now' /\ now' >= Second /\ Fresh'
  BY <1>1, PacingConstants DEF PacingInv, TypeOK, Made, Fresh
<1>3. Paced'
  <2>1. started' = t /\ lastRequestTime' = Seconds(started')
    BY DEF Made
  <2>2. CASE Seconds(t) # Seconds(started)
    <3>1. burst' - 1 = 0
      BY <2>2 DEF Made
    <3> QED
      BY <1>1, <2>1, <3>1, PacingConstants DEF Paced, Offset
  <2>3. CASE Seconds(t) = Seconds(started)
    <3>1. burst' = burst + 1 /\ burst \in Nat /\ started \in Nat
      BY <2>3 DEF Made, PacingInv, TypeOK
    <3>2. Offset(t) - Offset(started) >= Sleep
      BY <2>3, <3>1, OffsetsGrow, PacingConstants
    <3>3. burst > 0
      <4>1. Seconds(t) # 0
        <5>1. Offset(t) < Second /\ t >= Second
          BY SecondsOf, PacingConstants DEF PacingInv, TypeOK
        <5> QED
          BY <5>1, PacingConstants DEF Offset
      <4>2. Seconds(0) = 0
        BY PacingConstants, Z3 DEF Seconds
      <4> QED
        BY <2>3, <3>1, <4>1, <4>2 DEF PacingInv, Fresh
    <3>4. (burst - 1) * Sleep <= Offset(started) /\ Offset(started) \in Nat
      BY <3>1, <3>3, SecondsOf DEF PacingInv, Paced
    <3>5. burst * Sleep = (burst - 1) * Sleep + Sleep
      BY <3>1, PacingConstants
    <3>6. (burst' - 1) * Sleep <= Offset(started')
      <4>1. (burst - 1) * Sleep \in Int /\ burst * Sleep \in Int
        BY <3>1, PacingConstants
      <4>2. burst * Sleep <= Offset(t)
        BY <1>1, <3>2, <3>4, <3>5, <4>1, PacingConstants
      <4>3. burst' - 1 = burst
        BY <3>1
      <4> QED
        BY <2>1, <4>2, <4>3
    <3> QED
      BY <2>1, <3>6 DEF Paced
  <2> QED
    BY <2>2, <2>3
<1> QED
  BY <1>2, <1>3 DEF PacingInv

\* The invariant holds initially.
LEMMA PacingInit == Init => PacingInv
BY PacingConstants DEF Init, PacingInv, TypeOK, Paced, Fresh

\* Every step keeps the invariant.
LEMMA PacingNext == PacingInv /\ [Next]_vars => PacingInv'
<1> SUFFICES ASSUME PacingInv, [Next]_vars PROVE PacingInv'
  OBVIOUS
<1>1. CASE UNCHANGED vars
  BY <1>1 DEF vars, PacingInv, TypeOK, Paced, Fresh, Offset
<1>2. ASSUME NEW ticks \in Nat, Wait(ticks) PROVE PacingInv'
  BY <1>2, PacingConstants DEF Wait, PacingInv, TypeOK, Paced, Fresh, Offset
<1>3. ASSUME NEW ticks \in Nat, MakeRequest(ticks) PROVE PacingInv'
  <2>1. CASE Seconds(now) = lastRequestTime /\ Made(now + Sleep + ticks)
    <3>1. now + Sleep + ticks \in Nat /\ now + Sleep + ticks >= now
      BY PacingConstants DEF PacingInv, TypeOK
    <3>2. now + Sleep + ticks >= started + Sleep
      BY PacingConstants DEF PacingInv, TypeOK
    <3> QED
      BY <2>1, <3>1, <3>2, MadeKeeps
  <2>2. CASE Seconds(now) # lastRequestTime /\ Made(now)
    <3>1. Seconds(now) # Seconds(started)
      <4>1. CASE burst > 0
        BY <2>2, <4>1 DEF PacingInv, Paced
      <4>2. CASE burst = 0
        <5>1. Seconds(started) = 0
          BY <4>2, PacingConstants, Z3 DEF PacingInv, Fresh, Seconds
        <5>2. Seconds(now) # 0
          BY SecondsOf, PacingConstants DEF PacingInv, TypeOK, Offset
        <5> QED
          BY <5>1, <5>2
      <4> QED
        BY <4>1, <4>2 DEF PacingInv, TypeOK
    <3> QED
      BY <2>2, <3>1, MadeKeeps DEF PacingInv, TypeOK
  <2> QED
    BY <1>3, <2>1, <2>2 DEF MakeRequest
<1> QED
  BY <1>1, <1>2, <1>3 DEF Next

\* The box never gets more requests in a second than sleeps fit into it, however
\* long the clock runs.
THEOREM RequestsPaced == Spec => []BurstBounded
<1>1. PacingInv => BurstBounded
  <2> SUFFICES ASSUME PacingInv, burst > 0 PROVE (burst - 1) * Sleep < Second
    BY DEF BurstBounded
  <2>1. (burst - 1) * Sleep <= Offset(started)
    BY DEF PacingInv, Paced
  <2>2. Offset(started) \in Nat /\ Offset(started) < Second
    BY SecondsOf DEF PacingInv, TypeOK
  <2>3. (burst - 1) * Sleep \in Int
    BY PacingConstants DEF PacingInv, TypeOK
  <2> QED
    BY <2>1, <2>2, <2>3, PacingConstants
<1> QED
  BY <1>1, PacingInit, PacingNext, PTL DEF Spec
=============================================================================
