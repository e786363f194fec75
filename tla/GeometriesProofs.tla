-------------------------- MODULE GeometriesProofs --------------------------
(***************************************************************************)
(* Proofs about areas: what the box of a geometry covers, and that the     *)
(* text of a geometry reads back as the geometry.                          *)
(*                                                                         *)
(* Texts, rings and filters are recursive data.  The library's induction   *)
(* rules take an operator, which the provers cannot instantiate; here      *)
(* induction is over sets of numbers (Induction), proved from WFMin, and a *)
(* recursive function is reasoned about from the equation it satisfies.    *)
(***************************************************************************)
EXTENDS Geometries, WellFoundedInduction, SequenceTheorems, TLAPS

-----------------------------------------------------------------------------
(* Induction. *)

\* A set that holds 0 and the successor of each number in it holds them all.
LEMMA Induction ==
  ASSUME NEW S, 0 \in S, \A n \in Nat : n \in S => n + 1 \in S
  PROVE  Nat \subseteq S
<1> DEFINE T == Nat \ S
<1>1. ASSUME T # {} PROVE FALSE
  <2>1. \E x \in T : \A y \in T : ~ (<<y, x>> \in OpToRel(<, Nat))
    <3> HIDE DEF T
    <3>1. T \subseteq Nat BY DEF T
    <3> QED BY <3>1, <1>1, NatLessThanWellFounded, WFMin
  <2>2. PICK x \in T : \A y \in T : ~ (<<y, x>> \in OpToRel(<, Nat)) BY <2>1
  <2>3. \A y \in T : ~ (y < x) BY <2>2 DEF OpToRel
  <2>4. x \in Nat /\ x # 0 /\ x \notin S OBVIOUS
  <2>5. x - 1 \in Nat /\ x - 1 < x /\ (x - 1) + 1 = x BY <2>4
  <2>6. x - 1 \in S BY <2>3, <2>5
  <2> QED BY <2>4, <2>5, <2>6
<1> QED BY <1>1

\* A function built step by step, and that there is one.
Stepped(f, n, init, step) == /\ f[0] = init
                             /\ \A i \in 1 .. n : f[i] = step[<<i, f[i - 1]>>]

LEMMA StepByStep ==
  ASSUME NEW St, NEW init \in St, NEW step \in [Nat \X St -> St], NEW m \in Nat
  PROVE  \E f \in [0 .. m -> St] : Stepped(f, m, init, step)
<1> DEFINE S == {n \in Nat : \E f \in [0 .. n -> St] : Stepped(f, n, init, step)}
<1>1. 0 \in S
  <2> DEFINE f == [i \in 0 .. 0 |-> init]
  <2>1. f \in [0 .. 0 -> St] /\ f[0] = init OBVIOUS
  <2>2. 1 .. 0 = {} OBVIOUS
  <2> HIDE DEF f
  <2>3. Stepped(f, 0, init, step) BY <2>1, <2>2 DEF Stepped
  <2> QED BY <2>1, <2>3
<1>2. ASSUME NEW n \in Nat, n \in S PROVE n + 1 \in S
  <2>1. PICK f \in [0 .. n -> St] : Stepped(f, n, init, step) BY <1>2
  <2> DEFINE g == [i \in 0 .. n + 1 |-> IF i = n + 1 THEN step[<<n + 1, f[n]>>] ELSE f[i]]
  <2>2. g \in [0 .. n + 1 -> St] OBVIOUS
  <2>3. g[0] = init BY <2>1 DEF Stepped
  <2>4. ASSUME NEW i \in 1 .. n + 1 PROVE g[i] = step[<<i, g[i - 1]>>]
     <3>1. CASE i = n + 1
       <4>1. g[i] = step[<<n + 1, f[n]>>] BY <3>1
       <4>2. i - 1 = n /\ n \in 0 .. n + 1 /\ n # n + 1 BY <3>1
       <4>3. g[n] = f[n] BY <4>2
       <4> HIDE DEF g
       <4> QED BY <4>1, <4>2, <4>3, <3>1
     <3>2. CASE i # n + 1 BY <3>2, <2>1 DEF Stepped
     <3> QED BY <3>1, <3>2
  <2> HIDE DEF g
  <2>5. Stepped(g, n + 1, init, step) BY <2>3, <2>4 DEF Stepped
  <2> QED BY <2>2, <2>5
<1>3. Nat \subseteq S
  <2> HIDE DEF S
  <2> QED BY <1>1, <1>2, Induction
<1> QED BY <1>3

-----------------------------------------------------------------------------
(* Sequences of sequences. *)

\* FlattenSeq is the last of the concatenations of the first sequences.
Joined(F, ss) == /\ F[0] = <<>>
                 /\ \A i \in 1 .. Len(ss) : F[i] = F[i - 1] \o ss[i]
                 /\ FlattenSeq(ss) = F[Len(ss)]

LEMMA FlattenJoined ==
  ASSUME NEW T, NEW ss \in Seq(Seq(T))
  PROVE  \E F \in [0 .. Len(ss) -> Seq(T)] : Joined(F, ss)
<1> DEFINE step == [p \in Nat \X Seq(T) |->
                      IF p[1] \in 1 .. Len(ss) THEN p[2] \o ss[p[1]] ELSE <<>>]
           init == <<>>
           G(f) == [i \in 1 .. Len(ss) |-> IF i = 1 THEN ss[i] ELSE f[i - 1] \o ss[i]]
<1>0. ASSUME NEW p \in Nat \X Seq(T)
      PROVE  (IF p[1] \in 1 .. Len(ss) THEN p[2] \o ss[p[1]] ELSE <<>>) \in Seq(T)
  <2>1. CASE p[1] \in 1 .. Len(ss)
    <3>1. p[2] \in Seq(T) /\ ss[p[1]] \in Seq(T) BY <2>1
    <3> QED BY <3>1, <2>1
  <2>2. <<>> \in Seq(T) OBVIOUS
  <2> QED BY <2>1, <2>2
<1>1. step \in [Nat \X Seq(T) -> Seq(T)] BY <1>0
<1>2. init \in Seq(T) OBVIOUS
<1>3. Len(ss) \in Nat OBVIOUS
<1>4. PICK F \in [0 .. Len(ss) -> Seq(T)] : Stepped(F, Len(ss), init, step)
  <2> HIDE DEF step, init
  <2> QED BY <1>1, <1>2, <1>3, StepByStep
<1>5. \A i \in 1 .. Len(ss) : F[i] = F[i - 1] \o ss[i]
  <2> SUFFICES ASSUME NEW i \in 1 .. Len(ss) PROVE F[i] = F[i - 1] \o ss[i] OBVIOUS
  <2>1. F[i - 1] \in Seq(T) /\ i \in Nat BY SMTT(30)
  <2>2. step[<<i, F[i - 1]>>] = F[i - 1] \o ss[i] BY <2>1
  <2> HIDE DEF step
  <2> QED BY <1>4, <2>2 DEF Stepped
<1>6. F[0] = <<>> BY <1>4 DEF Stepped
<1> HIDE DEF step
<1>7. CASE Len(ss) = 0
  <2>1. FlattenSeq(ss) = ss BY <1>7 DEF FlattenSeq
  <2>2. ss = <<>> BY <1>7
  <2> QED BY <2>1, <2>2, <1>7, <1>5, <1>6 DEF Joined
<1>8. CASE Len(ss) # 0
  <2> DEFINE h == [i \in 1 .. Len(ss) |-> F[i]]
             k == CHOOSE g : g = G(g)
  <2>1. F[1] = ss[1]
    <3>1. 1 \in 1 .. Len(ss) /\ 1 - 1 = 0 BY <1>8
    <3>2. F[1] = F[1 - 1] \o ss[1] BY <1>5, <3>1
    <3>3. ss[1] \in Seq(T) BY <3>1
    <3>4. F[1] = <<>> \o ss[1] BY <3>1, <3>2, <1>6
    <3> QED BY <3>3, <3>4
  <2>2. h = G(h)
    <3> SUFFICES ASSUME NEW i \in 1 .. Len(ss)
                 PROVE  F[i] = IF i = 1 THEN ss[i] ELSE h[i - 1] \o ss[i]
      OBVIOUS
    <3>1. CASE i = 1 BY <3>1, <2>1
    <3>2. CASE i # 1
      <4>1. i - 1 \in 1 .. Len(ss) BY <3>2
      <4>2. h[i - 1] = F[i - 1] BY <4>1
      <4>3. F[i] = F[i - 1] \o ss[i] BY <1>5
      <4> QED BY <3>2, <4>2, <4>3
    <3> QED BY <3>1, <3>2
  <2>3. k = G(k) BY <2>2
  <2>4. FlattenSeq(ss) = k[Len(ss)] BY <1>8 DEF FlattenSeq
  <2>5. \A i \in 1 .. Len(ss) : k[i] = IF i = 1 THEN ss[i] ELSE k[i - 1] \o ss[i]
    BY <2>3
  <2> HIDE DEF k, h
  <2> DEFINE S == {n \in Nat : n \in 1 .. Len(ss) => k[n] = F[n]}
  <2>6. 0 \in S OBVIOUS
  <2>7. \A n \in Nat : n \in S => n + 1 \in S
    <3> SUFFICES ASSUME NEW n \in Nat, n \in S, n + 1 \in 1 .. Len(ss)
                 PROVE  k[n + 1] = F[n + 1]
      OBVIOUS
    <3>1. CASE n = 0 BY <3>1, <2>5, <2>1
    <3>2. CASE n # 0
      <4>1. n \in 1 .. Len(ss) BY <3>2
      <4>2. k[n] = F[n] BY <4>1
      <4>3. n + 1 # 1 /\ (n + 1) - 1 = n BY <3>2
      <4>4. k[n + 1] = IF n + 1 = 1 THEN ss[n + 1] ELSE k[(n + 1) - 1] \o ss[n + 1] BY <2>5
      <4>5. F[n + 1] = F[(n + 1) - 1] \o ss[n + 1] BY <1>5
      <4> QED BY <4>2, <4>3, <4>4, <4>5
    <3> QED BY <3>1, <3>2
  <2>8. Nat \subseteq S
    <3> HIDE DEF S
    <3> QED BY <2>6, <2>7, Induction
  <2>9. k[Len(ss)] = F[Len(ss)] BY <2>8, <1>8
  <2> QED BY <2>4, <2>9, <1>5, <1>6 DEF Joined
<1> QED BY <1>7, <1>8

LEMMA FlattenIsSeq ==
  ASSUME NEW T, NEW ss \in Seq(Seq(T))
  PROVE  FlattenSeq(ss) \in Seq(T)
<1>1. PICK F \in [0 .. Len(ss) -> Seq(T)] : Joined(F, ss) BY FlattenJoined
<1>2. Len(ss) \in 0 .. Len(ss) OBVIOUS
<1> QED BY <1>1, <1>2 DEF Joined

LEMMA ConcatSet ==
  ASSUME NEW T, NEW u \in Seq(T), NEW v \in Seq(T)
  PROVE  ToSet(u \o v) = ToSet(u) \cup ToSet(v)
<1>1. ASSUME NEW x \in ToSet(u \o v) PROVE x \in ToSet(u) \cup ToSet(v)
  <2>1. PICK i \in 1 .. Len(u) + Len(v) : x = (u \o v)[i] BY <1>1 DEF ToSet
  <2>2. CASE i <= Len(u)
    <3>1. i \in DOMAIN u /\ x = u[i] BY <2>1, <2>2
    <3> QED BY <3>1 DEF ToSet
  <2>3. CASE i > Len(u)
    <3>1. i - Len(u) \in DOMAIN v /\ x = v[i - Len(u)] BY <2>1, <2>3
    <3> QED BY <3>1 DEF ToSet
  <2> QED BY <2>2, <2>3
<1>2. ASSUME NEW x \in ToSet(u) PROVE x \in ToSet(u \o v)
  <2>1. PICK i \in DOMAIN u : x = u[i] BY <1>2 DEF ToSet
  <2>2. i \in DOMAIN (u \o v) /\ x = (u \o v)[i] BY <2>1
  <2> QED BY <2>2 DEF ToSet
<1>3. ASSUME NEW x \in ToSet(v) PROVE x \in ToSet(u \o v)
  <2>1. PICK i \in DOMAIN v : x = v[i] BY <1>3 DEF ToSet
  <2>2. Len(u) + i \in DOMAIN (u \o v) /\ x = (u \o v)[Len(u) + i] BY <2>1
  <2> QED BY <2>2 DEF ToSet
<1> QED BY <1>1, <1>2, <1>3

\* The elements of a sequence of sequences put together are the elements of each.
Elements(ss) == UNION {ToSet(ss[i]) : i \in DOMAIN ss}

LEMMA FlattenElements ==
  ASSUME NEW T, NEW ss \in Seq(Seq(T))
  PROVE  ToSet(FlattenSeq(ss)) = Elements(ss)
<1>1. PICK F \in [0 .. Len(ss) -> Seq(T)] : Joined(F, ss) BY FlattenJoined
<1> DEFINE P(n) == \A x : x \in ToSet(F[n]) <=> \E i \in 1 .. n : x \in ToSet(ss[i])
           S == {n \in Nat : n <= Len(ss) => P(n)}
<1>2. 0 \in S
  <2>1. F[0] = <<>> BY <1>1 DEF Joined
  <2>2. ToSet(F[0]) = {} BY <2>1 DEF ToSet
  <2>3. 1 .. 0 = {} OBVIOUS
  <2> QED BY <2>2, <2>3
<1>3. \A n \in Nat : n \in S => n + 1 \in S
  <2> SUFFICES ASSUME NEW n \in Nat, P(n), n + 1 <= Len(ss) PROVE P(n + 1)
    <3> HIDE DEF P
    <3> QED OBVIOUS
  <2>1. n + 1 \in 1 .. Len(ss) /\ (n + 1) - 1 = n /\ n \in 0 .. Len(ss)
    <3> HIDE DEF P
    <3> QED OBVIOUS
  <2>2. F[n + 1] = F[n] \o ss[n + 1] BY <1>1, <2>1 DEF Joined
  <2>3. F[n] \in Seq(T) /\ ss[n + 1] \in Seq(T)
    <3> HIDE DEF P
    <3>1. F[n] \in Seq(T) BY <2>1
    <3>2. ss[n + 1] \in Seq(T) BY <2>1
    <3> QED BY <3>1, <3>2
  <2>4. ToSet(F[n + 1]) = ToSet(F[n]) \cup ToSet(ss[n + 1]) BY <2>2, <2>3, ConcatSet
  <2>5. 1 .. n + 1 = (1 .. n) \cup {n + 1} BY <2>1
  <2> QED BY <2>4, <2>5
<1>4. Nat \subseteq S
  <2> HIDE DEF S
  <2> QED BY <1>2, <1>3, Induction
<1>5. Len(ss) \in Nat /\ DOMAIN ss = 1 .. Len(ss) OBVIOUS
<1>6. P(Len(ss))
  <2> HIDE DEF P
  <2> QED BY <1>4, <1>5
<1>7. FlattenSeq(ss) = F[Len(ss)] BY <1>1 DEF Joined
<1>8. ASSUME NEW x PROVE x \in ToSet(FlattenSeq(ss)) <=> \E i \in DOMAIN ss : x \in ToSet(ss[i])
  BY <1>5, <1>6, <1>7
<1> QED BY <1>8 DEF Elements

\* Each concatenation begins with the earlier ones.
BeginWith(F, m, N) == \A n \in m .. N : /\ Len(F[m]) <= Len(F[n])
                                      /\ \A j \in 1 .. Len(F[m]) : F[n][j] = F[m][j]

LEMMA JoinedPrefix ==
  ASSUME NEW T, NEW ss \in Seq(Seq(T)), NEW F \in [0 .. Len(ss) -> Seq(T)], Joined(F, ss),
         NEW m \in 0 .. Len(ss)
  PROVE  BeginWith(F, m, Len(ss))
<1> DEFINE P(n) == /\ Len(F[m]) <= Len(F[n])
                   /\ \A j \in 1 .. Len(F[m]) : F[n][j] = F[m][j]
           S == {k \in Nat : m + k <= Len(ss) => P(m + k)}
<1>1. 0 \in S
  <2>1. m + 0 = m /\ F[m] \in Seq(T) OBVIOUS
  <2> QED BY <2>1
<1>2. \A k \in Nat : k \in S => k + 1 \in S
  <2> SUFFICES ASSUME NEW k \in Nat, k \in S, m + (k + 1) <= Len(ss) PROVE P(m + (k + 1))
    OBVIOUS
  <2> DEFINE n == m + k
  <2>1. n + 1 \in 1 .. Len(ss) /\ (n + 1) - 1 = n /\ n \in 0 .. Len(ss) /\ m + (k + 1) = n + 1
    OBVIOUS
  <2>2. F[n + 1] = F[n] \o ss[n + 1] BY <2>1 DEF Joined
  <2>3. F[n] \in Seq(T) /\ ss[n + 1] \in Seq(T) /\ F[m] \in Seq(T)
    <3>1. m \in 0 .. Len(ss) OBVIOUS
    <3>2. F[m] \in Seq(T) BY <3>1
    <3> HIDE DEF n
    <3>3. F[n] \in Seq(T) BY <2>1
    <3>4. ss[n + 1] \in Seq(T) BY <2>1
    <3> QED BY <3>2, <3>3, <3>4
  <2>4. P(n) BY <2>1
  <2>5. Len(F[n + 1]) = Len(F[n]) + Len(ss[n + 1]) BY <2>2, <2>3
  <2> DEFINE u == F[n]
             v == ss[n + 1]
  <2>6. \A j \in 1 .. Len(u) : (u \o v)[j] = u[j]
    <3> HIDE DEF u, v
    <3> SUFFICES ASSUME u \in Seq(T), v \in Seq(T), NEW j \in 1 .. Len(u)
                 PROVE  (u \o v)[j] = u[j]
      BY <2>3 DEF u, v
    <3> QED OBVIOUS
  <2>7. \A j \in 1 .. Len(F[n]) : F[n + 1][j] = F[n][j] BY <2>2, <2>6
  <2> HIDE DEF n, u, v
  <2>8. Len(F[m]) \in Nat /\ Len(F[n]) \in Nat /\ Len(ss[n + 1]) \in Nat BY <2>3, SMTT(30)
  <2>9. Len(F[m]) <= Len(F[n + 1])
    <3>1. Len(F[m]) <= Len(F[n]) BY <2>4
    <3> DEFINE a == Len(F[m])
               b == Len(F[n])
               c == Len(ss[n + 1])
               d == Len(F[n + 1])
    <3>2. a <= b /\ d = b + c /\ a \in Nat /\ b \in Nat /\ c \in Nat BY ONLY <3>1, <2>5, <2>8, Zenon
    <3> HIDE DEF a, b, c, d
    <3>3. a <= d BY ONLY <3>2
    <3> QED BY ONLY <3>3 DEF a, d
  <2>10. \A j \in 1 .. Len(F[m]) : F[n + 1][j] = F[m][j]
    <3> SUFFICES ASSUME NEW j \in 1 .. Len(F[m]) PROVE F[n + 1][j] = F[m][j] OBVIOUS
    <3>1. j \in 1 .. Len(F[n]) BY <2>4, <2>8
    <3> QED BY <3>1, <2>4, <2>7
  <2> QED BY <2>9, <2>10, <2>1
<1>3. Nat \subseteq S
  <2> HIDE DEF S
  <2> QED BY <1>1, <1>2, Induction
<1>4. ASSUME NEW n \in m .. Len(ss) PROVE P(n)
  <2>1. n - m \in Nat /\ m + (n - m) = n /\ n <= Len(ss) BY <1>4
  <2>2. n - m \in S BY <1>3, <2>1
  <2>3. m + (n - m) <= Len(ss) => P(m + (n - m)) BY <2>2
  <2> HIDE DEF P, S
  <2> QED BY <2>1, <2>3
<1> QED BY <1>4 DEF BeginWith

LEMMA FlattenOne ==
  ASSUME NEW T, NEW s \in Seq(T)
  PROVE  FlattenSeq(<<s>>) = s
<1>1. <<s>> \in Seq(Seq(T)) OBVIOUS
<1>2. PICK F \in [0 .. Len(<<s>>) -> Seq(T)] : Joined(F, <<s>>) BY <1>1, FlattenJoined
<1>3. Len(<<s>>) = 1 /\ 1 \in 1 .. 1 /\ 1 - 1 = 0 OBVIOUS
<1>4. F[1] = F[0] \o s /\ F[0] = <<>> /\ FlattenSeq(<<s>>) = F[1] BY <1>2, <1>3 DEF Joined
<1> QED BY <1>4

-----------------------------------------------------------------------------
(* Boxes. *)

\* The numbers of S are among the first n of some list.
Among(S, n) == \E f : \A s \in S : \E i \in 1 .. n : s = f[i]

\* A set of numbers that can be listed has a lowest and a highest one.
LEMMA HasLowest ==
  ASSUME NEW n \in Nat, NEW R \in SUBSET Int, R # {}, Among(R, n)
  PROVE  (\E m \in R : \A s \in R : m <= s) /\ (\E m \in R : \A s \in R : m >= s)
<1> DEFINE P(S) == (\E m \in S : \A s \in S : m <= s) /\ (\E m \in S : \A s \in S : m >= s)
           D == {k \in Nat : \A S \in SUBSET Int : S # {} /\ Among(S, k) => P(S)}
<1>1. 0 \in D
  <2> SUFFICES ASSUME NEW S \in SUBSET Int, S # {}, Among(S, 0) PROVE FALSE OBVIOUS
  <2>1. 1 .. 0 = {} OBVIOUS
  <2> QED BY <2>1 DEF Among
<1>2. \A k \in Nat : k \in D => k + 1 \in D
  <2> SUFFICES ASSUME NEW k \in Nat, k \in D, NEW S \in SUBSET Int, S # {}, Among(S, k + 1)
               PROVE  P(S)
    <3> HIDE DEF P
    <3> QED OBVIOUS
  <2>1. PICK f : \A s \in S : \E i \in 1 .. k + 1 : s = f[i] BY DEF Among
  <2> DEFINE x == f[k + 1]
             R1 == S \ {x}
  <2>2. Among(R1, k)
    <3>1. \A s \in R1 : \E i \in 1 .. k : s = f[i]
      <4> SUFFICES ASSUME NEW s \in R1 PROVE \E i \in 1 .. k : s = f[i] OBVIOUS
      <4>1. PICK i \in 1 .. k + 1 : s = f[i] BY <2>1
      <4>2. i # k + 1 BY <4>1
      <4> QED BY <4>1, <4>2
    <3> HIDE DEF R1
    <3> QED BY <3>1 DEF Among
  <2>3. CASE R1 = {}
    <3>1. S = {x} BY <2>3
    <3>2. x \in Int BY <3>1
    <3> HIDE DEF x
    <3> QED BY <3>1, <3>2
  <2>4. CASE R1 # {}
    <3>1. P(R1)
      <4> HIDE DEF P
      <4> QED BY <2>2, <2>4
    <3>2. S \subseteq R1 \cup {x} /\ R1 \subseteq S /\ S \subseteq Int OBVIOUS
    <3>3. CASE x \in S
      <4>1. x \in Int BY <3>3
      <4> HIDE DEF x, R1
      <4>2. PICK a \in R1 : \A s \in R1 : a <= s BY <3>1
      <4>3. PICK b \in R1 : \A s \in R1 : b >= s BY <3>1
      <4>4. a \in Int /\ b \in Int BY <3>2
      <4>5. \E m \in S : \A s \in S : m <= s
        <5>1. CASE a <= x BY <5>1, <4>2, <3>2
        <5>2. CASE x <= a BY <5>2, <4>1, <4>2, <4>4, <3>2, <3>3
        <5> QED BY <5>1, <5>2, <4>1, <4>4
      <4>6. \E m \in S : \A s \in S : m >= s
        <5>1. CASE b >= x BY <5>1, <4>3, <3>2
        <5>2. CASE x >= b BY <5>2, <4>1, <4>3, <4>4, <3>2, <3>3
        <5> QED BY <5>1, <5>2, <4>1, <4>4
      <4> QED BY <4>5, <4>6
    <3>4. CASE x \notin S
      <4>1. R1 = S BY <3>4
      <4> QED BY <4>1, <3>1
    <3> QED BY <3>3, <3>4
  <2> QED BY <2>3, <2>4
<1>3. Nat \subseteq D
  <2> HIDE DEF D
  <2> QED BY <1>1, <1>2, Induction
<1>4. P(R)
  <2> HIDE DEF P
  <2> QED BY <1>3
<1> QED BY <1>4

LEMMA Extremes ==
  ASSUME NEW n \in Nat, NEW R \in SUBSET Int, R # {}, Among(R, n)
  PROVE  /\ Lowest(R) \in R /\ \A s \in R : Lowest(R) <= s
         /\ Highest(R) \in R /\ \A s \in R : Highest(R) >= s
<1>1. \E m \in R : \A s \in R : m <= s BY HasLowest
<1>2. \E m \in R : \A s \in R : m >= s BY HasLowest
<1> QED BY <1>1, <1>2 DEF Lowest, Highest

\* The box of positions that can be listed covers each of them, and its four
\* numbers are numbers.
LEMMA BoxCovers ==
  ASSUME NEW P, NEW n \in Nat, NEW f, \A p \in P : \E i \in 1 .. n : p = f[i],
         \A p \in P : Lon(p) \in Int /\ Lat(p) \in Int, P # {}
  PROVE  /\ BoxOf(P) \in Seq(Int) /\ Len(BoxOf(P)) = 4
         /\ \A p \in P : /\ BoxOf(P)[1] <= Lon(p) /\ Lon(p) <= BoxOf(P)[3]
                         /\ BoxOf(P)[2] <= Lat(p) /\ Lat(p) <= BoxOf(P)[4]
<1> DEFINE X == {Lon(p) : p \in P}
           Y == {Lat(p) : p \in P}
           x == [i \in 1 .. n |-> Lon(f[i])]
           y == [i \in 1 .. n |-> Lat(f[i])]
<1>1. X \in SUBSET Int /\ Y \in SUBSET Int /\ X # {} /\ Y # {} OBVIOUS
<1>2. Among(X, n)
  <2>1. \A s \in X : \E i \in 1 .. n : s = x[i] OBVIOUS
  <2> HIDE DEF X, x
  <2> QED BY <2>1 DEF Among
<1>3. Among(Y, n)
  <2>1. \A s \in Y : \E i \in 1 .. n : s = y[i] OBVIOUS
  <2> HIDE DEF Y, y
  <2> QED BY <2>1 DEF Among
<1>4. \A p \in P : Lon(p) \in X /\ Lat(p) \in Y OBVIOUS
<1>5. BoxOf(P) = <<Lowest(X), Lowest(Y), Highest(X), Highest(Y)>> BY DEF BoxOf
<1> HIDE DEF X, Y
<1>6. Lowest(X) \in Int /\ Highest(X) \in Int /\ \A s \in X : Lowest(X) <= s /\ s <= Highest(X)
  BY <1>1, <1>2, Extremes
<1>7. Lowest(Y) \in Int /\ Highest(Y) \in Int /\ \A s \in Y : Lowest(Y) <= s /\ s <= Highest(Y)
  BY <1>1, <1>3, Extremes
<1> QED BY <1>4, <1>5, <1>6, <1>7

-----------------------------------------------------------------------------
(* Texts. *)

Token == {"(", ")", ",", "pair"} \X Int \X Int

\* The parts of a text, each with the comma before it.
Separated(parts) == [i \in DOMAIN parts |-> IF i = 1 THEN parts[i] ELSE <<Comma>> \o parts[i]]
Content(parts) == FlattenSeq(Separated(parts))

LEMMA Tokens ==
  /\ Open \in Token /\ Close \in Token /\ Comma \in Token
  /\ Open # Close /\ Open # Comma /\ Close # Comma
  /\ ~IsPair(Open) /\ ~IsPair(Close) /\ ~IsPair(Comma)
<1>0. 0 \in Int OBVIOUS
<1>1. Open \in Token BY <1>0, Zenon DEF Token, Open
<1>2. Close \in Token BY <1>0, Zenon DEF Token, Close
<1>3. Comma \in Token BY <1>0, Zenon DEF Token, Comma
<1>4. Open # Close BY DEF Open, Close
<1>5. Open # Comma BY DEF Open, Comma
<1>6. Close # Comma BY DEF Close, Comma
<1>7. ~IsPair(Open) BY DEF Open, IsPair
<1>8. ~IsPair(Close) BY DEF Close, IsPair
<1>9. ~IsPair(Comma) BY DEF Comma, IsPair
<1> QED BY <1>1, <1>2, <1>3, <1>4, <1>5, <1>6, <1>7, <1>8, <1>9

Position == {p \in Seq(Int) : Usable(p)}

LEMMA PairToken ==
  ASSUME NEW p \in Position
  PROVE  /\ Pair(p) \in Token /\ IsPair(Pair(p))
         /\ Pair(p) # Open /\ Pair(p) # Close /\ Pair(p) # Comma
         /\ Pair(p)[2] = Lon(p) /\ Pair(p)[3] = Lat(p)
<1>1. Lon(p) \in Int /\ Lat(p) \in Int BY DEF Position, Usable, Lon, Lat
<1> QED BY <1>1 DEF Token, Open, Close, Comma, IsPair, Pair

LEMMA SeparatedIs ==
  ASSUME NEW parts \in Seq(Seq(Token))
  PROVE  /\ Separated(parts) \in Seq(Seq(Token))
         /\ Len(Separated(parts)) = Len(parts)
<1>1. \A i \in DOMAIN parts : (IF i = 1 THEN parts[i] ELSE <<Comma>> \o parts[i]) \in Seq(Token)
  <2> SUFFICES ASSUME NEW i \in DOMAIN parts
               PROVE  (IF i = 1 THEN parts[i] ELSE <<Comma>> \o parts[i]) \in Seq(Token)
    OBVIOUS
  <2>1. parts[i] \in Seq(Token) OBVIOUS
  <2>2. <<Comma>> \in Seq(Token) BY Tokens
  <2>3. <<Comma>> \o parts[i] \in Seq(Token) BY <2>1, <2>2
  <2> QED BY <2>1, <2>3
<1>2. DOMAIN parts = 1 .. Len(parts) /\ Len(parts) \in Nat OBVIOUS
<1>3. Separated(parts) \in [1 .. Len(parts) -> Seq(Token)] BY <1>1, <1>2 DEF Separated
<1> QED BY <1>2, <1>3

\* A list has its content between two parentheses.
LEMMA ListedIs ==
  ASSUME NEW parts \in Seq(Seq(Token))
  PROVE  /\ Content(parts) \in Seq(Token) /\ Listed(parts) \in Seq(Token)
         /\ Len(Listed(parts)) = Len(Content(parts)) + 2
         /\ Listed(parts)[1] = Open /\ Listed(parts)[Len(Listed(parts))] = Close
         /\ \A j \in 1 .. Len(Content(parts)) : Listed(parts)[j + 1] = Content(parts)[j]
         /\ Enclosed(Listed(parts)) /\ Inside(Listed(parts)) = Content(parts)
<1> DEFINE c == Content(parts)
           t == <<Open>> \o c \o <<Close>>
<1>1. c \in Seq(Token) BY SeparatedIs, FlattenIsSeq DEF Content
<1>2. Listed(parts) = t BY DEF Listed, Content, Separated
<1>3. <<Open>> \in Seq(Token) /\ <<Close>> \in Seq(Token) BY Tokens
<1> HIDE DEF c
<1>4. t \in Seq(Token) /\ Len(t) = Len(c) + 2 /\ Len(c) \in Nat BY <1>1, <1>3
<1>5. t[1] = Open /\ t[Len(c) + 2] = Close BY <1>1
<1>6. \A j \in 1 .. Len(c) : t[j + 1] = c[j] BY <1>1
<1> HIDE DEF t
<1>7. Enclosed(t) BY <1>4, <1>5 DEF Enclosed, Last
<1>8. Inside(t) = c
  <2>1. Inside(t) = SubSeq(t, 2, Len(c) + 1) BY <1>4 DEF Inside
  <2>2. SubSeq(t, 2, Len(c) + 1) = [j \in 1 .. Len(c) |-> t[j + 1]]
    <3>1. Len(c) + 1 - 2 + 1 = Len(c) BY <1>4
    <3> QED BY <1>4, <3>1
  <2>3. c = [j \in 1 .. Len(c) |-> c[j]] BY <1>1
  <2> QED BY <2>1, <2>2, <2>3, <1>6
<1> QED BY <1>1, <1>2, <1>4, <1>5, <1>6, <1>7, <1>8 DEF c

\* How a token changes the depth, and the depth after each token of a text.
Deeper(token) == IF token = Open THEN 1 ELSE IF token = Close THEN -1 ELSE 0
Depths(s, depth) == /\ depth \in [0 .. Len(s) -> Nat]
                    /\ depth[0] = 0
                    /\ \A i \in 1 .. Len(s) : depth[i] = depth[i - 1] + Deeper(s[i])

\* A text whose first parenthesis is closed by its last token; and one whose
\* first parenthesis is still the only one open.
Grouped(s) == /\ s \in Seq(Token) /\ Len(s) >= 2
              /\ \E depth : /\ Depths(s, depth) /\ depth[Len(s)] = 0
                            /\ \A i \in 1 .. Len(s) - 1 : depth[i] >= 1
Opened(s) == /\ s \in Seq(Token) /\ Len(s) >= 1
             /\ \E depth : /\ Depths(s, depth) /\ depth[Len(s)] = 1
                           /\ \A i \in 1 .. Len(s) : depth[i] >= 1

LEMMA OpenedByOpen == Opened(<<Open>>)
<1> DEFINE s == <<Open>>
           d == [i \in 0 .. 1 |-> i]
<1>1. s \in Seq(Token) /\ Len(s) = 1 /\ s[1] = Open BY Tokens
<1>2. d \in [0 .. 1 -> Nat] /\ d[0] = 0 /\ d[1] = 1 OBVIOUS
<1> HIDE DEF s, d
<1>3. Depths(s, d) BY <1>1, <1>2 DEF Depths, Deeper
<1>4. Opened(s) BY <1>1, <1>2, <1>3 DEF Opened
<1> QED BY <1>4 DEF s

\* A pair or a comma leaves the parenthesis open.
LEMMA OpenedByToken ==
  ASSUME NEW s, Opened(s), NEW t \in Token, t # Open, t # Close
  PROVE  Opened(s \o <<t>>)
<1>1. PICK d : Depths(s, d) /\ d[Len(s)] = 1 /\ \A i \in 1 .. Len(s) : d[i] >= 1 BY DEF Opened
<1>2. s \in Seq(Token) /\ Len(s) >= 1 /\ Len(s) \in Nat BY DEF Opened
<1> DEFINE u == s \o <<t>>
           n == Len(s)
           e == [i \in 0 .. n + 1 |-> IF i = n + 1 THEN 1 ELSE d[i]]
<1>3. u \in Seq(Token) /\ Len(u) = n + 1 /\ u[n + 1] = t /\ \A i \in 1 .. n : u[i] = s[i] BY <1>2
<1>4. d \in [0 .. n -> Nat] /\ d[0] = 0 /\ \A i \in 1 .. n : d[i] = d[i - 1] + Deeper(s[i])
  BY <1>1 DEF Depths
<1>5. e \in [0 .. n + 1 -> Nat] /\ e[0] = 0 /\ e[n + 1] = 1 /\ \A i \in 0 .. n : e[i] = d[i]
  BY <1>4, <1>2
<1>6. d[n] = 1 /\ n \in Nat /\ n >= 1 /\ \A i \in 1 .. n : d[i] >= 1 BY <1>1, <1>2
<1>9. Deeper(t) = 0 BY DEF Deeper
<1> HIDE DEF e, u, n
<1>7. \A i \in 1 .. n + 1 : e[i] = e[i - 1] + Deeper(u[i])
  <2> SUFFICES ASSUME NEW i \in 1 .. n + 1 PROVE e[i] = e[i - 1] + Deeper(u[i]) OBVIOUS
  <2>1. CASE i = n + 1
    <3>1. i - 1 = n /\ n \in 0 .. n BY <2>1, <1>6
    <3> QED BY <3>1, <2>1, <1>3, <1>5, <1>6, <1>9
  <2>2. CASE i # n + 1
    <3>1. i \in 1 .. n /\ i - 1 \in 0 .. n /\ i \in 0 .. n BY <2>2, <1>6
    <3> QED BY <3>1, <1>3, <1>4, <1>5
  <2> QED BY <2>1, <2>2
<1>8. Depths(u, e) BY <1>3, <1>5, <1>7 DEF Depths
<1>10. \A i \in 1 .. n + 1 : e[i] >= 1
  <2> SUFFICES ASSUME NEW i \in 1 .. n + 1 PROVE e[i] >= 1 OBVIOUS
  <2>1. CASE i = n + 1 BY <2>1, <1>5
  <2>2. CASE i # n + 1
    <3>1. i \in 1 .. n /\ i \in 0 .. n BY <2>2, <1>6
    <3> QED BY <3>1, <1>5, <1>6
  <2> QED BY <2>1, <2>2
<1>11. Opened(u) BY <1>3, <1>5, <1>6, <1>8, <1>10 DEF Opened
<1> QED BY <1>11 DEF u

\* So does a group.
LEMMA OpenedByGroup ==
  ASSUME NEW s, Opened(s), NEW g, Grouped(g)
  PROVE  Opened(s \o g)
<1>1. PICK d : Depths(s, d) /\ d[Len(s)] = 1 /\ \A i \in 1 .. Len(s) : d[i] >= 1 BY DEF Opened
<1>2. PICK c : Depths(g, c) /\ c[Len(g)] = 0 BY DEF Grouped
<1>3. s \in Seq(Token) /\ Len(s) >= 1 /\ Len(s) \in Nat BY DEF Opened
<1>4. g \in Seq(Token) /\ Len(g) >= 2 /\ Len(g) \in Nat BY DEF Grouped
<1> DEFINE u == s \o g
           n == Len(s)
           m == Len(g)
           e == [i \in 0 .. n + m |-> IF i > n THEN c[i - n] + 1 ELSE d[i]]
<1>5. u \in Seq(Token) /\ Len(u) = n + m /\ \A i \in 1 .. n : u[i] = s[i] BY <1>3, <1>4
<1>6. \A i \in 1 .. m : u[n + i] = g[i] BY <1>3, <1>4
<1>7. d \in [0 .. n -> Nat] /\ d[0] = 0 /\ \A i \in 1 .. n : d[i] = d[i - 1] + Deeper(s[i])
  BY <1>1 DEF Depths
<1>8. c \in [0 .. m -> Nat] /\ c[0] = 0 /\ \A i \in 1 .. m : c[i] = c[i - 1] + Deeper(g[i])
  BY <1>2 DEF Depths
<1>9. d[n] = 1 /\ c[m] = 0 /\ n \in Nat /\ n >= 1 /\ m \in Nat /\ m >= 2 /\ \A i \in 1 .. n : d[i] >= 1
  BY <1>1, <1>2, <1>3, <1>4
<1> HIDE DEF u, n, m
<1>10. e \in [0 .. n + m -> Nat]
  <2> SUFFICES ASSUME NEW i \in 0 .. n + m PROVE (IF i > n THEN c[i - n] + 1 ELSE d[i]) \in Nat OBVIOUS
  <2>1. CASE i > n
    <3>1. i - n \in 0 .. m BY <2>1, <1>9
    <3>2. c[i - n] \in Nat BY <3>1, <1>8
    <3> QED BY <2>1, <3>2
  <2>2. CASE ~(i > n)
    <3>1. i \in 0 .. n BY <2>2, <1>9
    <3> QED BY <3>1, <2>2, <1>7
  <2> QED BY <2>1, <2>2
<1>11. \A i \in 0 .. n : e[i] = d[i] BY <1>9
<1>12. \A i \in 0 .. m : e[n + i] = c[i] + 1
  <2> SUFFICES ASSUME NEW i \in 0 .. m PROVE e[n + i] = c[i] + 1 OBVIOUS
  <2>1. CASE i = 0
    <3>1. n + i = n BY <2>1, <1>9
    <3> QED BY <3>1, <2>1, <1>9, <1>8, <1>11
  <2>2. CASE i # 0
    <3>1. n + i > n /\ n + i \in 0 .. n + m /\ (n + i) - n = i BY <2>2, <1>9
    <3> QED BY <3>1
  <2> QED BY <2>1, <2>2
<1> HIDE DEF e
<1>13. \A i \in 1 .. n + m : e[i] = e[i - 1] + Deeper(u[i]) /\ e[i] >= 1
  <2> SUFFICES ASSUME NEW i \in 1 .. n + m PROVE e[i] = e[i - 1] + Deeper(u[i]) /\ e[i] >= 1 OBVIOUS
  <2>1. CASE i <= n
    <3>1. i \in 1 .. n /\ i \in 0 .. n /\ i - 1 \in 0 .. n BY <2>1, <1>9
    <3> QED BY <3>1, <1>5, <1>7, <1>9, <1>11
  <2>2. CASE i > n
    <3>1. PICK k \in 1 .. m : i = n + k
      <4>1. i - n \in 1 .. m /\ i = n + (i - n) BY <2>2, <1>9
      <4> QED BY <4>1
    <3>2. i - 1 = n + (k - 1) /\ k - 1 \in 0 .. m /\ k \in 0 .. m BY <3>1, <1>9
    <3>3. e[i] = c[k] + 1 /\ e[i - 1] = c[k - 1] + 1 /\ u[i] = g[k] BY <3>1, <3>2, <1>6, <1>12
    <3>4. c[k] = c[k - 1] + Deeper(g[k]) BY <1>8
    <3>5. c[k] \in Nat /\ c[k - 1] \in Nat /\ Deeper(g[k]) \in Int BY <3>2, <1>8 DEF Deeper
    <3> QED BY <3>3, <3>4, <3>5
  <2> QED BY <2>1, <2>2, <1>9
<1>14. e[0] = 0 /\ e[n + m] = 1 BY <1>7, <1>9, <1>11, <1>12
<1>15. Depths(u, e) BY <1>5, <1>10, <1>13, <1>14 DEF Depths
<1>16. Opened(u) BY <1>5, <1>9, <1>13, <1>14, <1>15 DEF Opened
<1> QED BY <1>16 DEF u

\* The closing parenthesis makes a group of it.
LEMMA GroupedByClose ==
  ASSUME NEW s, Opened(s)
  PROVE  Grouped(s \o <<Close>>)
<1>1. PICK d : Depths(s, d) /\ d[Len(s)] = 1 /\ \A i \in 1 .. Len(s) : d[i] >= 1 BY DEF Opened
<1>2. s \in Seq(Token) /\ Len(s) >= 1 /\ Len(s) \in Nat BY DEF Opened
<1> DEFINE u == s \o <<Close>>
           n == Len(s)
           e == [i \in 0 .. n + 1 |-> IF i = n + 1 THEN 0 ELSE d[i]]
<1>3. u \in Seq(Token) /\ Len(u) = n + 1 /\ u[n + 1] = Close /\ \A i \in 1 .. n : u[i] = s[i]
  BY <1>2, Tokens
<1>4. d \in [0 .. n -> Nat] /\ d[0] = 0 /\ \A i \in 1 .. n : d[i] = d[i - 1] + Deeper(s[i])
  BY <1>1 DEF Depths
<1>5. e \in [0 .. n + 1 -> Nat] /\ e[0] = 0 /\ e[n + 1] = 0 /\ \A i \in 0 .. n : e[i] = d[i]
  BY <1>4, <1>2
<1>6. d[n] = 1 /\ n \in Nat /\ n >= 1 /\ \A i \in 1 .. n : d[i] >= 1 BY <1>1, <1>2
<1>7. Deeper(Close) = -1 BY Tokens DEF Deeper
<1> HIDE DEF e, u, n
<1>8. \A i \in 1 .. n + 1 : e[i] = e[i - 1] + Deeper(u[i])
  <2> SUFFICES ASSUME NEW i \in 1 .. n + 1 PROVE e[i] = e[i - 1] + Deeper(u[i]) OBVIOUS
  <2>1. CASE i = n + 1
    <3>1. i - 1 = n /\ n \in 0 .. n BY <2>1, <1>6
    <3>2. e[i] = 0 /\ e[i - 1] = 1 /\ u[i] = Close BY <3>1, <2>1, <1>3, <1>5, <1>6
    <3> QED BY <3>2, <1>7
  <2>2. CASE i # n + 1
    <3>1. i \in 1 .. n /\ i - 1 \in 0 .. n /\ i \in 0 .. n BY <2>2, <1>6
    <3> QED BY <3>1, <1>3, <1>4, <1>5
  <2> QED BY <2>1, <2>2
<1>9. Depths(u, e) BY <1>3, <1>5, <1>8 DEF Depths
<1>10. \A i \in 1 .. n : e[i] >= 1 BY <1>5, <1>6
<1>11. Grouped(u) BY <1>3, <1>5, <1>6, <1>9, <1>10 DEF Grouped
<1> QED BY <1>11 DEF u

LEMMA ThreeTexts ==
  ASSUME NEW a, NEW b, NEW c, a \in Seq(Token), b \in Seq(Token), c \in Seq(Token)
  PROVE  (a \o b) \o c = a \o (b \o c)
BY ConcatAssociative

\* What a list may hold: a group, or a single token.
ListItem(q) == /\ q \in Seq(Token)
               /\ Grouped(q) \/ \E t \in Token : t # Open /\ t # Close /\ q = <<t>>

LEMMA OpenedByItem ==
  ASSUME NEW f, f \in Seq(Token), Opened(<<Open>> \o f), NEW q, ListItem(q)
  PROVE  Opened(<<Open>> \o (f \o q)) /\ Opened(<<Open>> \o (f \o (<<Comma>> \o q)))
<1> DEFINE a == <<Open>>
           b == <<Comma>>
<1>1. a \in Seq(Token) /\ b \in Seq(Token) BY Tokens
<1>2. q \in Seq(Token) BY DEF ListItem
<1>3. ASSUME NEW v, Opened(v) PROVE Opened(v \o q)
  <2>1. CASE Grouped(q) BY <2>1, <1>3, OpenedByGroup
  <2>2. CASE \E t \in Token : t # Open /\ t # Close /\ q = <<t>>
    <3>1. PICK t \in Token : t # Open /\ t # Close /\ q = <<t>> BY <2>2
    <3>2. Opened(v \o <<t>>) BY <3>1, <1>3, OpenedByToken
    <3> QED BY <3>1, <3>2
  <2> QED BY <2>1, <2>2 DEF ListItem
<1>4. Opened((a \o f) \o b) BY OpenedByToken, Tokens
<1>5. Opened(a \o f) OBVIOUS
<1> HIDE DEF a, b
<1>6. b \o q \in Seq(Token) /\ a \o f \in Seq(Token) BY <1>1, <1>2
<1>7. (a \o f) \o q = a \o (f \o q)
  BY <1>1, <1>2, ThreeTexts, SMTT(30)
<1>8. (a \o f) \o (b \o q) = a \o (f \o (b \o q))
  <2>1. PICK w \in Seq(Token) : w = b \o q
    BY <1>6
  <2>2. (a \o f) \o w = a \o (f \o w)
    BY <1>1, ThreeTexts, SMTT(30)
  <2>. QED
    BY <2>1, <2>2, Zenon
<1>9. ((a \o f) \o b) \o q = (a \o f) \o (b \o q)
  BY <1>1, <1>2, <1>6, ThreeTexts, SMTT(30)
<1>10. Opened(a \o (f \o q)) BY <1>3, <1>5, <1>7
<1>11. Opened(a \o (f \o (b \o q))) BY <1>3, <1>4, <1>8, <1>9
<1> QED BY <1>10, <1>11 DEF a, b

\* A list of groups, or of single tokens, is a group.
LEMMA ListGrouped ==
  ASSUME NEW parts \in Seq(Seq(Token)), \A i \in DOMAIN parts : ListItem(parts[i])
  PROVE  Grouped(Listed(parts))
<1> DEFINE ss == Separated(parts)
<1>1. ss \in Seq(Seq(Token)) /\ Len(ss) = Len(parts) /\ Len(parts) \in Nat BY SeparatedIs
<1>2. \A i \in 1 .. Len(parts) : /\ parts[i] \in Seq(Token)
                                 /\ ss[i] = IF i = 1 THEN parts[i] ELSE <<Comma>> \o parts[i]
                                 /\ ListItem(parts[i])
  BY DEF Separated
<1> HIDE DEF ss
<1>3. PICK F \in [0 .. Len(ss) -> Seq(Token)] : Joined(F, ss) BY <1>1, FlattenJoined
<1> DEFINE S == {n \in Nat : n <= Len(parts) => Opened(<<Open>> \o F[n])}
<1>4. 0 \in S
  <2>1. F[0] = <<>> BY <1>3 DEF Joined
  <2>2. <<Open>> \o <<>> = <<Open>>
    <3>1. <<Open>> \in Seq(Token) BY Tokens
    <3> QED BY <3>1
  <2> QED BY <2>1, <2>2, OpenedByOpen
<1>5. \A n \in Nat : n \in S => n + 1 \in S
  <2> SUFFICES ASSUME NEW n \in Nat, n + 1 <= Len(parts), Opened(<<Open>> \o F[n])
               PROVE  Opened(<<Open>> \o F[n + 1])
    <3> DEFINE O(n) == Opened(<<Open>> \o F[n])
    <3>1. \A n \in Nat : n \in S <=> (n <= Len(parts) => O(n)) OBVIOUS
    <3> HIDE DEF O, S
    <3>2. SUFFICES ASSUME NEW n \in Nat, n \in S PROVE n + 1 \in S OBVIOUS
    <3>3. n + 1 <= Len(parts) => n <= Len(parts) BY <1>1
    <3>4. n + 1 <= Len(parts) => O(n) BY <3>1, <3>2, <3>3
    <3>5. n + 1 <= Len(parts) => O(n + 1) BY <3>4 DEF O
    <3> QED BY <3>1, <3>5
  <2>1. n + 1 \in 1 .. Len(parts) /\ (n + 1) - 1 = n /\ n \in 0 .. Len(ss) BY <1>1
  <2>2. F[n + 1] = F[n] \o ss[n + 1] BY <1>1, <1>3, <2>1 DEF Joined
  <2>3. F[n] \in Seq(Token) BY <2>1
  <2>4. ListItem(parts[n + 1]) BY <1>2, <2>1
  <2>5. ss[n + 1] = IF n = 0 THEN parts[n + 1] ELSE <<Comma>> \o parts[n + 1]
    <3>1. n + 1 = 1 <=> n = 0 OBVIOUS
    <3>2. ss[n + 1] = IF n + 1 = 1 THEN parts[n + 1] ELSE <<Comma>> \o parts[n + 1]
      BY <1>2, <2>1
    <3> QED BY <3>1, <3>2
  <2>6. /\ Opened(<<Open>> \o (F[n] \o parts[n + 1]))
        /\ Opened(<<Open>> \o (F[n] \o (<<Comma>> \o parts[n + 1])))
    BY <2>3, <2>4, OpenedByItem
  <2> QED BY ONLY <2>2, <2>5, <2>6
<1>6. Nat \subseteq S
  <2> HIDE DEF S
  <2> QED BY <1>4, <1>5, Induction
<1>7. Opened(<<Open>> \o F[Len(parts)]) BY <1>1, <1>6
<1>8. Listed(parts) = <<Open>> \o F[Len(parts)] \o <<Close>>
  BY <1>1, <1>3 DEF Listed, Joined, ss, Separated
<1> QED BY <1>7, <1>8, GroupedByClose

-----------------------------------------------------------------------------
(* Reading texts. *)

Reads(depth, current, groups) == Reading(depth, current, groups, TRUE)

\* What the scan does with a token, by the depth it is at.
LEMMA ReadOpen ==
  ASSUME NEW groups, NEW keepRest \in BOOLEAN
  PROVE  Read(Reads(0, <<>>, groups), Open, keepRest) = Reads(1, Append(<<>>, Open), groups)
<1> DEFINE st == Reads(0, <<>>, groups)
<1>1. st.depth = 0 /\ st.current = <<>> /\ st.groups = groups /\ st.ok = TRUE BY DEF Reads, Reading
<1>2. 0 + 1 = 1 OBVIOUS
<1> HIDE DEF st
<1>3. Read(st, Open, keepRest) = Reading(0 + 1, Append(<<>>, Open), groups, TRUE)
  BY <1>1 DEF Read
<1> QED BY <1>2, <1>3 DEF st, Reads

LEMMA ReadComma ==
  ASSUME NEW groups, NEW keepRest \in BOOLEAN
  PROVE  Read(Reads(0, <<>>, groups), Comma, keepRest) = Reads(0, <<>>, groups)
<1> DEFINE st == Reads(0, <<>>, groups)
<1>1. st.depth = 0 BY DEF Reads, Reading
<1> HIDE DEF st
<1>2. Read(st, Comma, keepRest) = st BY <1>1, Tokens DEF Read
<1> QED BY <1>2 DEF st

LEMMA ReadInside ==
  ASSUME NEW groups, NEW keepRest \in BOOLEAN, NEW d \in Nat, d >= 1, NEW c, NEW t,
         d + Deeper(t) >= 1
  PROVE  Read(Reads(d, c, groups), t, keepRest) = Reads(d + Deeper(t), Append(c, t), groups)
<1> DEFINE st == Reads(d, c, groups)
           e == d + Deeper(t)
<1>1. st.depth = d /\ st.current = c /\ st.groups = groups /\ st.ok = TRUE BY DEF Reads, Reading
<1>2. d # 0 /\ d > 0 OBVIOUS
<1> HIDE DEF st
<1>3. Read(st, t, keepRest) = Reading(e, Append(c, t), groups, TRUE)
  <2>1. CASE t = Open
    <3>1. e = d + 1 BY <2>1 DEF Deeper
    <3> QED BY <2>1, <3>1, <1>1, <1>2 DEF Read
  <2>2. CASE t = Close
    <3>1. d # 1 /\ e = d - 1 BY <2>2, Tokens DEF Deeper
    <3> QED BY <2>2, <3>1, <1>1, <1>2, Tokens DEF Read
  <2>3. CASE t # Open /\ t # Close
    <3>1. e = d BY <2>3 DEF Deeper
    <3> QED BY <2>3, <3>1, <1>1, <1>2 DEF Read
  <2> QED BY <2>1, <2>2, <2>3
<1> QED BY <1>3 DEF st, Reads

LEMMA ReadClose ==
  ASSUME NEW groups, NEW keepRest \in BOOLEAN, NEW c
  PROVE  Read(Reads(1, c, groups), Close, keepRest)
           = Reads(0, <<>>, Append(groups, Append(c, Close)))
<1> DEFINE st == Reads(1, c, groups)
<1>1. st.depth = 1 /\ st.current = c /\ st.groups = groups /\ st.ok = TRUE BY DEF Reads, Reading
<1> HIDE DEF st
<1>2. Read(st, Close, keepRest) = Reading(0, <<>>, Append(groups, Append(c, Close)), TRUE)
  BY <1>1, Tokens DEF Read
<1> QED BY <1>2 DEF st, Reads
\* The scan of a text, from the equation of its definition.
Scanning(scan, s, keepRest) ==
  \A i \in 1 .. Len(s) : scan[i] = Read(scan[i - 1], s[i], keepRest)
Scanned(scan, s, keepRest) ==
  /\ scan[0] = Reads(0, <<>>, <<>>)
  /\ Scanning(scan, s, keepRest)
  /\ SplitGroups(s, keepRest)
       = [ok |-> scan[Len(s)].ok /\ scan[Len(s)].depth = 0,
          groups |-> IF keepRest /\ scan[Len(s)].current # <<>>
                     THEN Append(scan[Len(s)].groups, scan[Len(s)].current)
                     ELSE scan[Len(s)].groups]

LEMMA HasScan ==
  ASSUME NEW s \in Seq(Token), NEW keepRest \in BOOLEAN
  PROVE  \E scan : Scanned(scan, s, keepRest)
<1> DEFINE Of(f, n) == [i \in 0 .. n |-> IF i = 0 THEN Reading(0, <<>>, <<>>, TRUE)
                                                  ELSE Read(f[i - 1], s[i], keepRest)]
           S == {n \in Nat : \E f : f = Of(f, n)}
<1>1. 0 \in S
  <2> DEFINE f == [i \in 0 .. 0 |-> Reading(0, <<>>, <<>>, TRUE)]
  <2>1. f = Of(f, 0) OBVIOUS
  <2> HIDE DEF f, Of
  <2> QED BY <2>1
<1>2. \A n \in Nat : n \in S => n + 1 \in S
  <2> SUFFICES ASSUME NEW n \in Nat, n \in S PROVE n + 1 \in S OBVIOUS
  <2>1. PICK f : f = Of(f, n)
    <3> HIDE DEF Of
    <3> QED OBVIOUS
  <2> DEFINE g == [i \in 0 .. n + 1 |-> IF i = n + 1 THEN Read(f[n], s[n + 1], keepRest) ELSE f[i]]
  <2>2. ASSUME NEW i \in 0 .. n + 1
        PROVE  g[i] = IF i = 0 THEN Reading(0, <<>>, <<>>, TRUE)
                               ELSE Read(g[i - 1], s[i], keepRest)
    <3>1. CASE i = n + 1
      <4>1. n \in 0 .. n + 1 /\ n # n + 1 /\ i # 0 /\ i - 1 = n BY <3>1
      <4>2. g[n] = f[n] /\ g[i] = Read(f[n], s[n + 1], keepRest) BY <3>1, <4>1
      <4> HIDE DEF g
      <4> QED BY <3>1, <4>1, <4>2
    <3>2. CASE i # n + 1
      <4>1. i \in 0 .. n BY <3>2
      <4>2. f[i] = IF i = 0 THEN Reading(0, <<>>, <<>>, TRUE)
                            ELSE Read(f[i - 1], s[i], keepRest)
        BY <2>1, <4>1
      <4>3. g[i] = f[i] BY <3>2
      <4>4. i # 0 => g[i - 1] = f[i - 1]
        <5>1. i # 0 => i - 1 \in 0 .. n + 1 /\ i - 1 # n + 1 BY <4>1
        <5> QED BY <5>1
      <4> HIDE DEF g, Of
      <4> QED BY <4>2, <4>3, <4>4
    <3> QED BY <3>1, <3>2
  <2>3. g = [i \in 0 .. n + 1 |-> g[i]] OBVIOUS
  <2> HIDE DEF g
  <2>4. g = Of(g, n + 1) BY <2>2, <2>3
  <2> HIDE DEF Of
  <2> QED BY <2>4
<1>3. Nat \subseteq S
  <2> HIDE DEF S
  <2> QED BY <1>1, <1>2, Induction
<1>4. Len(s) \in Nat OBVIOUS
<1> DEFINE scan == CHOOSE f : f = Of(f, Len(s))
<1>5. scan = Of(scan, Len(s))
  <2>1. \E f : f = Of(f, Len(s))
    <3> HIDE DEF Of
    <3> QED BY <1>3, <1>4
  <2> HIDE DEF Of
  <2> QED BY <2>1
<1>6. SplitGroups(s, keepRest)
       = [ok |-> scan[Len(s)].ok /\ scan[Len(s)].depth = 0,
          groups |-> IF keepRest /\ scan[Len(s)].current # <<>>
                     THEN Append(scan[Len(s)].groups, scan[Len(s)].current)
                     ELSE scan[Len(s)].groups]
  BY DEF SplitGroups
<1> HIDE DEF scan
<1>7. scan[0] = Reads(0, <<>>, <<>>)
  <2>1. 0 \in 0 .. Len(s) BY <1>4
  <2> QED BY <2>1, <1>5 DEF Reads
<1>8. \A i \in 1 .. Len(s) : scan[i] = Read(scan[i - 1], s[i], keepRest)
  <2> SUFFICES ASSUME NEW i \in 1 .. Len(s) PROVE scan[i] = Read(scan[i - 1], s[i], keepRest)
    OBVIOUS
  <2>1. i \in 0 .. Len(s) /\ i # 0 BY <1>4
  <2> QED BY <2>1, <1>5
<1>9. Scanned(scan, s, keepRest) BY <1>6, <1>7, <1>8 DEF Scanned, Scanning
<1> QED BY <1>9

\* The first elements of a sequence, one by one.
LEMMA FirstOnes ==
  ASSUME NEW T, NEW s \in Seq(T), NEW i \in 1 .. Len(s)
  PROVE  /\ SubSeq(s, 1, 0) = <<>> /\ SubSeq(s, 1, Len(s)) = s
         /\ Append(SubSeq(s, 1, i - 1), s[i]) = SubSeq(s, 1, i)
<1>1. SubSeq(s, 1, 0) = <<>> /\ SubSeq(s, 1, Len(s)) = s OBVIOUS
<1>2. Append(SubSeq(s, 1, i - 1), s[i]) = SubSeq(s, 1, i)
  <2>1. /\ SubSeq(s, 1, i) \in Seq(T) /\ Len(SubSeq(s, 1, i)) = i
        /\ \A j \in 1 .. i : SubSeq(s, 1, i)[j] = s[j]
    OBVIOUS
  <2>2. /\ SubSeq(s, 1, i - 1) \in Seq(T) /\ Len(SubSeq(s, 1, i - 1)) = i - 1
        /\ \A j \in 1 .. i - 1 : SubSeq(s, 1, i - 1)[j] = s[j]
    OBVIOUS
  <2> DEFINE u == SubSeq(s, 1, i - 1)
             v == SubSeq(s, 1, i)
  <2>3. s[i] \in T OBVIOUS
  <2> HIDE DEF u, v
  <2>4. Append(u, s[i]) \in Seq(T) /\ Len(Append(u, s[i])) = i BY <2>2, <2>3 DEF u
  <2>5. \A j \in 1 .. i : Append(u, s[i])[j] = v[j] BY <2>1, <2>2, <2>3 DEF u, v
  <2>6. v \in Seq(T) /\ Len(v) = i BY <2>1 DEF v
  <2>7. Append(u, s[i]) = v BY <2>4, <2>5, <2>6
  <2> QED BY <2>7 DEF u, v
<1> QED BY <1>1, <1>2

\* A group is read as one, wherever it stands.
Stands(G, s, from) == from + Len(G) <= Len(s) /\ \A i \in 1 .. Len(G) : s[from + i] = G[i]

LEMMA GroupScan ==
  ASSUME NEW s, Len(s) \in Nat, NEW keepRest \in BOOLEAN, NEW scan, Scanning(scan, s, keepRest),
         NEW G, Grouped(G), NEW from \in Nat, Stands(G, s, from),
         NEW groups, scan[from] = Reads(0, <<>>, groups)
  PROVE  scan[from + Len(G)] = Reads(0, <<>>, Append(groups, G))
<1> DEFINE n == Len(G)
<1>1. G \in Seq(Token) /\ n \in Nat /\ n >= 2 BY DEF Grouped
<1>2. PICK d : /\ Depths(G, d) /\ d[n] = 0 /\ \A i \in 1 .. n - 1 : d[i] >= 1 BY DEF Grouped
<1>3. d \in [0 .. n -> Nat] /\ d[0] = 0 /\ \A i \in 1 .. n : d[i] = d[i - 1] + Deeper(G[i])
  BY <1>2 DEF Depths
<1>4. \A i \in 1 .. n : scan[from + i] = Read(scan[from + (i - 1)], G[i], keepRest)
  <2> SUFFICES ASSUME NEW i \in 1 .. n
               PROVE  scan[from + i] = Read(scan[from + (i - 1)], G[i], keepRest)
    OBVIOUS
  <2>1. from + i \in 1 .. Len(s) /\ (from + i) - 1 = from + (i - 1) BY <1>1 DEF Stands
  <2>2. s[from + i] = G[i] BY DEF Stands
  <2> QED BY <2>1, <2>2 DEF Scanning
<1>5. \A i \in 1 .. n : G[i] \in Token BY <1>1
<1> HIDE DEF n
<1> DEFINE P(i) == scan[from + i] = Reads(d[i], SubSeq(G, 1, i), groups)
           S == {i \in Nat : i + 1 <= n - 1 => P(i + 1)}
<1>6. 0 \in S
  <2>1. 1 \in 1 .. n /\ 1 \in 1 .. n - 1 /\ 1 - 1 = 0 /\ from + 0 = from /\ 0 + 1 = 1 BY <1>1
  <2>2. d[1] = Deeper(G[1]) /\ d[1] >= 1
    <3>1. d[1] = 0 + Deeper(G[1]) /\ d[1] >= 1 BY <1>2, <1>3, <2>1
    <3>2. Deeper(G[1]) \in Int BY DEF Deeper
    <3> QED BY <3>1, <3>2
  <2>3. G[1] = Open /\ d[1] = 1 BY <2>2 DEF Deeper
  <2>4. scan[from + 1] = Read(Reads(0, <<>>, groups), Open, keepRest) BY <1>4, <2>1, <2>3
  <2>5. scan[from + 1] = Reads(1, Append(<<>>, Open), groups) BY <2>4, ReadOpen
  <2>6. Append(<<>>, Open) = SubSeq(G, 1, 1)
    <3>1. 1 \in 1 .. Len(G) BY <2>1 DEF n
    <3>2. Append(SubSeq(G, 1, 1 - 1), G[1]) = SubSeq(G, 1, 1) /\ SubSeq(G, 1, 0) = <<>>
      BY <1>1, <3>1, FirstOnes
    <3> QED BY <3>2, <2>1, <2>3
  <2>7. P(1) BY <2>3, <2>5, <2>6
  <2> HIDE DEF P
  <2> QED BY <2>1, <2>7
<1>7. \A i \in Nat : i \in S => i + 1 \in S
  <2> SUFFICES ASSUME NEW i \in Nat, P(i + 1), (i + 1) + 1 <= n - 1 PROVE P((i + 1) + 1)
    <3> HIDE DEF P
    <3>1. \A i \in Nat : (i + 1) + 1 <= n - 1 => i + 1 <= n - 1 BY <1>1
    <3> QED BY <3>1
  <2> DEFINE j == i + 1
  <2>1. j \in Nat /\ j + 1 \in 1 .. n /\ j \in 0 .. n /\ (j + 1) - 1 = j /\ j \in 1 .. n - 1
        /\ j + 1 \in 1 .. n - 1
    BY <1>1
  <2>2. P(j) OBVIOUS
  <2> HIDE DEF j
  <2>3. d[j + 1] = d[j] + Deeper(G[j + 1]) /\ d[j + 1] >= 1 /\ d[j] >= 1 /\ d[j] \in Nat
    BY <1>2, <1>3, <2>1
  <2>4. scan[from + (j + 1)] = Read(Reads(d[j], SubSeq(G, 1, j), groups), G[j + 1], keepRest)
    BY <1>4, <2>1, <2>2
  <2>5. d[j] + Deeper(G[j + 1]) >= 1 BY <2>3
  <2>6. scan[from + (j + 1)]
          = Reads(d[j] + Deeper(G[j + 1]), Append(SubSeq(G, 1, j), G[j + 1]), groups)
    BY <2>3, <2>4, <2>5, ReadInside
  <2>7. Append(SubSeq(G, 1, j), G[j + 1]) = SubSeq(G, 1, j + 1)
    <3>1. j + 1 \in 1 .. Len(G) BY <2>1 DEF n
    <3>2. Append(SubSeq(G, 1, (j + 1) - 1), G[j + 1]) = SubSeq(G, 1, j + 1)
      BY <1>1, <3>1, FirstOnes
    <3> QED BY <3>2, <2>1
  <2>8. P(j + 1) BY <2>3, <2>6, <2>7
  <2> QED BY <2>8 DEF j
<1>8. Nat \subseteq S
  <2> HIDE DEF S
  <2> QED BY <1>6, <1>7, Induction
<1>9. P(n - 1)
  <2> HIDE DEF P
  <2>1. n - 2 \in Nat /\ (n - 2) + 1 = n - 1 /\ (n - 2) + 1 <= n - 1 BY <1>1
  <2> QED BY <2>1, <1>8
<1>10. n \in 1 .. n /\ n - 1 \in 1 .. n - 1 /\ n - 1 \in 0 .. n BY <1>1
<1>11. d[n - 1] = 1 /\ G[n] = Close
  <2>1. 0 = d[n - 1] + Deeper(G[n]) /\ d[n - 1] >= 1 /\ d[n - 1] \in Nat BY <1>2, <1>3, <1>10
  <2>2. Deeper(G[n]) \in Int /\ Deeper(G[n]) <= -1 BY <2>1 DEF Deeper
  <2>3. G[n] = Close /\ Deeper(G[n]) = -1 BY <2>2 DEF Deeper
  <2> QED BY <2>1, <2>3
<1>12. scan[from + n] = Read(Reads(1, SubSeq(G, 1, n - 1), groups), Close, keepRest)
  BY <1>4, <1>9, <1>10, <1>11
<1>13. scan[from + n] = Reads(0, <<>>, Append(groups, Append(SubSeq(G, 1, n - 1), Close)))
  BY <1>12, ReadClose
<1>14. Append(SubSeq(G, 1, n - 1), Close) = G
  <2>1. n \in 1 .. Len(G) BY <1>10 DEF n
  <2>2. Append(SubSeq(G, 1, n - 1), G[n]) = SubSeq(G, 1, n) /\ SubSeq(G, 1, Len(G)) = G
    BY <1>1, <2>1, FirstOnes
  <2> QED BY <2>2, <1>11 DEF n
<1> QED BY <1>13, <1>14 DEF n

\* A comma and a sequence, put after another.
LEMMA AfterComma ==
  ASSUME NEW u \in Seq(Token), NEW g \in Seq(Token)
  PROVE  LET v == u \o (<<Comma>> \o g)
         IN  /\ v \in Seq(Token)
             /\ Len(v) = (Len(u) + 1) + Len(g) /\ v[Len(u) + 1] = Comma
             /\ \A j \in 1 .. Len(u) : v[j] = u[j]
             /\ \A i \in 1 .. Len(g) : v[(Len(u) + 1) + i] = g[i]
<1> DEFINE c == <<Comma>> \o g
<1>1. <<Comma>> \in Seq(Token) BY Tokens
<1>2. c \in Seq(Token) /\ Len(c) = 1 + Len(g) /\ c[1] = Comma
      /\ \A i \in 1 .. Len(g) : c[1 + i] = g[i]
  BY <1>1
<1> HIDE DEF c
<1> DEFINE v == u \o c
<1>3. Len(v) = Len(u) + Len(c) /\ \A j \in 1 .. Len(c) : v[Len(u) + j] = c[j] BY <1>2, SMTT(30)
<1>8. v \in Seq(Token) /\ \A j \in 1 .. Len(u) : v[j] = u[j] BY <1>2
<1> HIDE DEF v
<1>4. Len(u) \in Nat /\ Len(g) \in Nat OBVIOUS
<1>5. 1 \in 1 .. Len(c) /\ Len(v) = (Len(u) + 1) + Len(g) BY <1>2, <1>3, <1>4
<1>6. v[Len(u) + 1] = Comma BY <1>2, <1>3, <1>5
<1>7. \A i \in 1 .. Len(g) : v[(Len(u) + 1) + i] = g[i]
  <2> SUFFICES ASSUME NEW i \in 1 .. Len(g) PROVE v[(Len(u) + 1) + i] = g[i] OBVIOUS
  <2>1. 1 + i \in 1 .. Len(c) /\ (Len(u) + 1) + i = Len(u) + (1 + i) BY <1>2, <1>4
  <2> QED BY <2>1, <1>2, <1>3
<1> QED BY <1>5, <1>6, <1>7, <1>8 DEF v, c

\* The groups of a list of groups are its parts, whichever way it is split.
LEMMA SplitContent ==
  ASSUME NEW gs \in Seq(Seq(Token)), \A i \in DOMAIN gs : Grouped(gs[i]), NEW keepRest \in BOOLEAN
  PROVE  SplitGroups(Content(gs), keepRest).ok /\ SplitGroups(Content(gs), keepRest).groups = gs
<1> DEFINE ss == Separated(gs)
           N == Len(gs)
           s == Content(gs)
<1>1. ss \in Seq(Seq(Token)) /\ Len(ss) = N /\ N \in Nat BY SeparatedIs
<1>2. \A i \in 1 .. N : /\ gs[i] \in Seq(Token) /\ Grouped(gs[i])
                        /\ ss[i] = IF i = 1 THEN gs[i] ELSE <<Comma>> \o gs[i]
  BY DEF Separated
<1>3. s \in Seq(Token) BY ListedIs
<1>4. s = FlattenSeq(ss) BY DEF Content
<1>5. \A m \in 1 .. N : gs[m] = gs[m] /\ Append(SubSeq(gs, 1, m - 1), gs[m]) = SubSeq(gs, 1, m)
  <2> DEFINE T == Seq(Token)
  <2>1. gs \in Seq(T) OBVIOUS
  <2> HIDE DEF T
  <2> QED BY <2>1, FirstOnes
<1>6. SubSeq(gs, 1, 0) = <<>> /\ SubSeq(gs, 1, N) = gs
  <2> DEFINE T == Seq(Token)
  <2>1. gs \in Seq(T) OBVIOUS
  <2> HIDE DEF T
  <2> QED BY <2>1
<1>7. PICK scan : Scanned(scan, s, keepRest) BY <1>3, HasScan
<1>8. /\ scan[0] = Reads(0, <<>>, <<>>)
      /\ \A i \in 1 .. Len(s) : scan[i] = Read(scan[i - 1], s[i], keepRest)
  BY <1>7 DEF Scanned, Scanning
<1>9. PICK F \in [0 .. Len(ss) -> Seq(Token)] : Joined(F, ss) BY <1>1, FlattenJoined
<1>10. /\ F[0] = <<>> /\ s = F[N] /\ \A i \in 1 .. N : F[i] = F[i - 1] \o ss[i]
       /\ \A i \in 0 .. N : F[i] \in Seq(Token)
  BY <1>1, <1>4, <1>9 DEF Joined
<1>11. \A m \in 0 .. N : /\ Len(F[m]) <= Len(s)
                         /\ \A j \in 1 .. Len(F[m]) : s[j] = F[m][j]
  <2> SUFFICES ASSUME NEW m \in 0 .. N
               PROVE  Len(F[m]) <= Len(s) /\ \A j \in 1 .. Len(F[m]) : s[j] = F[m][j]
    OBVIOUS
  <2>1. m \in 0 .. Len(ss) /\ N \in m .. Len(ss) BY <1>1
  <2> HIDE DEF ss, N, s
  <2>2. BeginWith(F, m, Len(ss)) BY <1>1, <1>9, <2>1, JoinedPrefix
  <2> QED BY <2>1, <2>2, <1>10 DEF BeginWith
<1> HIDE DEF ss, s, N
<1> DEFINE P(m) == scan[Len(F[m])] = Reads(0, <<>>, SubSeq(gs, 1, m))
           S == {m \in Nat : m <= N => P(m)}
<1>12. 0 \in S
  <2>1. Len(F[0]) = 0 BY <1>10
  <2>2. P(0) BY <2>1, <1>6, <1>8
  <2> HIDE DEF P
  <2> QED BY <2>2
<1>13. \A m \in Nat : m \in S => m + 1 \in S
  <2> SUFFICES ASSUME NEW m \in Nat, P(m), m + 1 <= N PROVE P(m + 1)
    <3> HIDE DEF P
    <3>1. \A m \in Nat : m + 1 <= N => m <= N BY <1>1
    <3> QED BY <3>1
  <2> DEFINE g == gs[m + 1]
             u == F[m]
             v == F[m + 1]
             groups == SubSeq(gs, 1, m)
  <2>1. m + 1 \in 1 .. N /\ (m + 1) - 1 = m /\ m \in 0 .. N /\ m + 1 \in 0 .. N BY <1>1
  <2>2. g \in Seq(Token) /\ Grouped(g) /\ u \in Seq(Token) /\ v \in Seq(Token)
    BY <1>2, <1>10, <2>1
  <2>3. v = u \o ss[m + 1] BY <1>10, <2>1
  <2>4. ss[m + 1] = IF m = 0 THEN g ELSE <<Comma>> \o g
    <3>1. m + 1 = 1 <=> m = 0 OBVIOUS
    <3>2. ss[m + 1] = IF m + 1 = 1 THEN g ELSE <<Comma>> \o g BY <1>2, <2>1
    <3> QED BY <3>1, <3>2
  <2>5. scan[Len(u)] = Reads(0, <<>>, groups) OBVIOUS
  <2>6. Len(v) <= Len(s) /\ \A j \in 1 .. Len(v) : s[j] = v[j] BY <1>11, <2>1
  <2>7. Append(groups, g) = SubSeq(gs, 1, m + 1)
    <3>1. Append(SubSeq(gs, 1, (m + 1) - 1), gs[m + 1]) = SubSeq(gs, 1, m + 1) BY <1>5, <2>1
    <3> QED BY <3>1, <2>1
  <2>8. m = 0 => u = <<>> BY <1>10
  <2>9. Len(s) \in Nat BY <1>3
  <2> HIDE DEF g, u, v, groups, P
  <2>10. PICK from \in Nat : /\ Len(v) = from + Len(g)
                             /\ \A i \in 1 .. Len(g) : v[from + i] = g[i]
                             /\ scan[from] = Reads(0, <<>>, groups)
    <3>1. CASE m = 0
      <4>1. u = <<>> /\ v = g BY <3>1, <2>2, <2>3, <2>4, <2>8
      <4>2. Len(u) = 0 /\ Len(v) = 0 + Len(g) /\ \A i \in 1 .. Len(g) : v[0 + i] = g[i]
        BY <4>1, <2>2
      <4> QED BY <4>2, <2>5
    <3>2. CASE m # 0
      <4>1. v = u \o (<<Comma>> \o g) BY <3>2, <2>3, <2>4
      <4>2. /\ Len(v) = (Len(u) + 1) + Len(g) /\ v[Len(u) + 1] = Comma
            /\ \A i \in 1 .. Len(g) : v[(Len(u) + 1) + i] = g[i]
        BY <4>1, <2>2, AfterComma
      <4>3. Len(u) \in Nat /\ Len(g) \in Nat BY <2>2
      <4>4. Len(u) + 1 \in 1 .. Len(s) /\ Len(u) + 1 \in 1 .. Len(v) /\ (Len(u) + 1) - 1 = Len(u)
        BY <4>2, <4>3, <2>6, <2>9
      <4>5. s[Len(u) + 1] = Comma BY <4>2, <4>4, <2>6
      <4>6. scan[Len(u) + 1] = Read(Reads(0, <<>>, groups), Comma, keepRest)
        BY <4>4, <4>5, <1>8, <2>5
      <4>7. scan[Len(u) + 1] = Reads(0, <<>>, groups) BY <4>6, ReadComma
      <4> QED BY <4>2, <4>3, <4>7
    <3> QED BY <3>1, <3>2
  <2>11. \A i \in 1 .. Len(g) : s[from + i] = g[i]
    <3> SUFFICES ASSUME NEW i \in 1 .. Len(g) PROVE s[from + i] = g[i] OBVIOUS
    <3>1. from + i \in 1 .. Len(v) BY <2>2, <2>10
    <3> QED BY <3>1, <2>6, <2>10
  <2>12. from + Len(g) <= Len(s) BY <2>6, <2>10
  <2>13. scan[from + Len(g)] = Reads(0, <<>>, Append(groups, g))
    <3>1. Scanning(scan, s, keepRest) BY <1>8 DEF Scanning
    <3>2. Stands(g, s, from) BY <2>11, <2>12 DEF Stands
    <3> QED BY <3>1, <3>2, <2>2, <2>9, <2>10, GroupScan
  <2>14. scan[Len(v)] = Reads(0, <<>>, SubSeq(gs, 1, m + 1)) BY <2>7, <2>10, <2>13
  <2> QED BY <2>14 DEF v, P
<1>14. Nat \subseteq S
  <2> HIDE DEF S
  <2> QED BY <1>12, <1>13, Induction
<1>15. scan[Len(s)] = Reads(0, <<>>, gs)
  <2>1. P(N)
    <3> HIDE DEF P
    <3> QED BY <1>1, <1>14
  <2> QED BY <2>1, <1>6, <1>10
<1> DEFINE end == scan[Len(s)]
<1>16. end.depth = 0 /\ end.current = <<>> /\ end.groups = gs /\ end.ok = TRUE
  BY <1>15 DEF Reads, Reading
<1>17. SplitGroups(s, keepRest) = [ok |-> end.ok /\ end.depth = 0,
                                   groups |-> IF keepRest /\ end.current # <<>>
                                              THEN Append(end.groups, end.current)
                                              ELSE end.groups]
  BY <1>7 DEF Scanned
<1> HIDE DEF end
<1>18. SplitGroups(s, keepRest).groups = gs BY <1>16, <1>17
<1>19. SplitGroups(s, keepRest).ok
  <2> DEFINE b == end.ok /\ end.depth = 0
             c == IF keepRest /\ end.current # <<>> THEN Append(end.groups, end.current)
                                                    ELSE end.groups
  <2>0. SplitGroups(s, keepRest) = [ok |-> b, groups |-> c] BY <1>17
  <2> HIDE DEF b, c
  <2>1. SplitGroups(s, keepRest).ok = b BY <2>0
  <2>2. b BY <1>16 DEF b
  <2> QED BY <2>1, <2>2
<1> QED BY <1>18, <1>19 DEF s

-----------------------------------------------------------------------------
(* Rings. *)

PairsOf(ring) == [i \in DOMAIN ring |-> <<Pair(ring[i])>>]
PlainRing(ring) == [k \in DOMAIN ring |-> <<Lon(ring[k]), Lat(ring[k])>>]

\* The first n positions as text, without its parentheses.
PairsRead(u, ring, n) ==
  /\ u \in Seq(Token) /\ Len(u) = 2 * n - 1
  /\ \A i \in 1 .. n : u[2 * i - 1] = Pair(ring[i])
  /\ \A i \in 1 .. n - 1 : u[2 * i] = Comma

LEMMA PairsReadOne ==
  ASSUME NEW ring \in Seq(Position), ring # <<>>
  PROVE  PairsRead(<<Pair(ring[1])>>, ring, 1)
<1>1. ring[1] \in Position OBVIOUS
<1>2. Pair(ring[1]) \in Token BY <1>1, PairToken
<1> DEFINE t == Pair(ring[1])
<1> HIDE DEF t
<1>3. <<t>> \in Seq(Token) /\ Len(<<t>>) = 2 * 1 - 1 /\ <<t>>[2 * 1 - 1] = t BY <1>2 DEF t
<1>4. (1 .. 1 - 1) = {} /\ \A i \in 1 .. 1 : i = 1 OBVIOUS
<1> QED BY <1>3, <1>4 DEF t, PairsRead

LEMMA PairsReadNext ==
  ASSUME NEW ring \in Seq(Position), NEW n \in Nat, n >= 1, n + 1 <= Len(ring),
         NEW u, PairsRead(u, ring, n)
  PROVE  PairsRead(u \o (<<Comma>> \o <<Pair(ring[n + 1])>>), ring, n + 1)
<1> DEFINE t == Pair(ring[n + 1])
           g == <<t>>
           v == u \o (<<Comma>> \o g)
<1>1. ring[n + 1] \in Position
  <2>1. n + 1 \in 1 .. Len(ring) OBVIOUS
  <2> QED BY <2>1
<1>2. t \in Token BY <1>1, PairToken
<1>3. u \in Seq(Token) /\ Len(u) = 2 * n - 1 BY DEF PairsRead
<1>4. /\ \A i \in 1 .. n : u[2 * i - 1] = Pair(ring[i])
      /\ \A i \in 1 .. n - 1 : u[2 * i] = Comma
  BY DEF PairsRead
<1> HIDE DEF t
<1>5. <<t>> \in Seq(Token) /\ Len(<<t>>) = 1 /\ <<t>>[1] = t BY <1>2
<1>6. /\ v \in Seq(Token)
      /\ Len(v) = (Len(u) + 1) + Len(g) /\ v[Len(u) + 1] = Comma
      /\ \A j \in 1 .. Len(u) : v[j] = u[j]
      /\ \A j \in 1 .. Len(g) : v[(Len(u) + 1) + j] = g[j]
  <2>1. g \in Seq(Token) BY <1>5
  <2> HIDE DEF g
  <2> QED BY <1>3, <2>1, AfterComma
<1> HIDE DEF v, g
<1>9. /\ v \in Seq(Token) /\ Len(v) = Len(u) + 2
      /\ v[Len(u) + 1] = Comma /\ v[Len(u) + 2] = t
      /\ \A j \in 1 .. Len(u) : v[j] = u[j]
  <2>1. (Len(u) + 1) + 1 = Len(u) + 2 /\ 1 \in 1 .. 1 BY <1>3
  <2>2. Len(g) = 1 /\ g[1] = t BY <1>5 DEF g
  <2> QED BY <2>1, <2>2, <1>6
<1>10. Len(v) = 2 * (n + 1) - 1 BY <1>3, <1>9
<1>11. \A i \in 1 .. n + 1 : v[2 * i - 1] = Pair(ring[i])
  <2> SUFFICES ASSUME NEW i \in 1 .. n + 1 PROVE v[2 * i - 1] = Pair(ring[i]) OBVIOUS
  <2>1. CASE i = n + 1
    <3>1. 2 * i - 1 = Len(u) + 2 BY <2>1, <1>3
    <3> QED BY <3>1, <2>1, <1>9 DEF t
  <2>2. CASE i # n + 1
    <3>1. i \in 1 .. n /\ 2 * i - 1 \in 1 .. Len(u) BY <2>2, <1>3
    <3> QED BY <3>1, <1>4, <1>9
  <2> QED BY <2>1, <2>2
<1>12. \A i \in 1 .. (n + 1) - 1 : v[2 * i] = Comma
  <2> SUFFICES ASSUME NEW i \in 1 .. n PROVE v[2 * i] = Comma OBVIOUS
  <2>1. CASE i = n
    <3>1. 2 * i = Len(u) + 1 BY <2>1, <1>3
    <3> QED BY <3>1, <1>9
  <2>2. CASE i # n
    <3>1. i \in 1 .. n - 1 /\ 2 * i \in 1 .. Len(u) BY <2>2, <1>3
    <3> QED BY <3>1, <1>4, <1>9
  <2> QED BY <2>1, <2>2
<1>13. PairsRead(v, ring, n + 1) BY <1>9, <1>10, <1>11, <1>12 DEF PairsRead
<1> QED BY <1>13 DEF v, g, t

LEMMA RingContent ==
  ASSUME NEW ring \in Seq(Position), ring # <<>>
  PROVE  /\ PairsOf(ring) \in Seq(Seq(Token)) /\ Len(PairsOf(ring)) = Len(ring)
         /\ \A i \in DOMAIN PairsOf(ring) : ListItem(PairsOf(ring)[i])
         /\ PairsRead(Content(PairsOf(ring)), ring, Len(ring))
<1> DEFINE parts == PairsOf(ring)
           ss == Separated(parts)
           N == Len(ring)
<1>1. N \in Nat /\ N >= 1 /\ DOMAIN ring = 1 .. N OBVIOUS
<1>2. \A i \in 1 .. N : Pair(ring[i]) \in Token /\ Pair(ring[i]) # Open /\ Pair(ring[i]) # Close
  <2> SUFFICES ASSUME NEW i \in 1 .. N
               PROVE  Pair(ring[i]) \in Token /\ Pair(ring[i]) # Open /\ Pair(ring[i]) # Close
    OBVIOUS
  <2>1. ring[i] \in Position OBVIOUS
  <2> QED BY <2>1, PairToken
<1>3. \A i \in 1 .. N : <<Pair(ring[i])>> \in Seq(Token) BY <1>2
<1>4. parts \in [1 .. N -> Seq(Token)] /\ \A i \in 1 .. N : parts[i] = <<Pair(ring[i])>>
  BY <1>1, <1>3 DEF PairsOf
<1>5. parts \in Seq(Seq(Token)) /\ Len(parts) = N /\ DOMAIN parts = 1 .. N
  <2>1. parts \in Seq(Seq(Token)) BY <1>1, <1>4
  <2>2. DOMAIN parts = 1 .. N BY <1>4
  <2> QED BY <2>1, <2>2, <1>1
<1>6. \A i \in DOMAIN parts : ListItem(parts[i]) BY <1>2, <1>3, <1>4, <1>5 DEF ListItem
<1>7. ss \in Seq(Seq(Token)) /\ Len(ss) = N BY <1>5, SeparatedIs
<1>8. \A i \in 1 .. N : ss[i] = IF i = 1 THEN <<Pair(ring[i])>> ELSE <<Comma>> \o <<Pair(ring[i])>>
  BY <1>4, <1>5 DEF Separated
<1>9. Content(parts) = FlattenSeq(ss) BY DEF Content
<1> HIDE DEF parts, ss, N
<1>10. PICK F \in [0 .. Len(ss) -> Seq(Token)] : Joined(F, ss) BY <1>7, FlattenJoined
<1>11. F[0] = <<>> /\ FlattenSeq(ss) = F[N] /\ \A i \in 1 .. N : F[i] = F[i - 1] \o ss[i]
  BY <1>7, <1>10 DEF Joined
<1> DEFINE P(n) == PairsRead(F[n], ring, n)
           S == {n \in Nat : n + 1 <= N => P(n + 1)}
<1>12. 0 \in S
  <2>1. 1 \in 1 .. N /\ 1 - 1 = 0 /\ 0 + 1 = 1 BY <1>1
  <2>2. F[1] = F[0] \o ss[1] BY <1>11, <2>1
  <2>3. ss[1] = <<Pair(ring[1])>> BY <1>8, <2>1
  <2>4. <<>> \o <<Pair(ring[1])>> = <<Pair(ring[1])>> OBVIOUS
  <2>5. F[1] = <<Pair(ring[1])>> BY <2>2, <2>3, <2>4, <1>11
  <2>6. P(1) BY <2>5, PairsReadOne
  <2> HIDE DEF P
  <2> QED BY <2>1, <2>6
<1>13. \A n \in Nat : n \in S => n + 1 \in S
  <2> SUFFICES ASSUME NEW k \in Nat, P(k + 1), (k + 1) + 1 <= N PROVE P((k + 1) + 1)
    <3> HIDE DEF P
    <3>1. \A n \in Nat : (n + 1) + 1 <= N => n + 1 <= N BY <1>1
    <3> QED BY <3>1
  <2> DEFINE n == k + 1
  <2>1. n \in Nat /\ n >= 1 /\ n + 1 <= N /\ n + 1 \in 1 .. N /\ (n + 1) - 1 = n /\ n + 1 # 1
    BY <1>1
  <2>2. PairsRead(F[n], ring, n) OBVIOUS
  <2> HIDE DEF n
  <2>3. F[n + 1] = F[n] \o ss[n + 1] BY <1>11, <2>1
  <2>4. ss[n + 1] = <<Comma>> \o <<Pair(ring[n + 1])>> BY <1>8, <2>1
  <2>5. PairsRead(F[n] \o (<<Comma>> \o <<Pair(ring[n + 1])>>), ring, n + 1)
    BY <2>1, <2>2, PairsReadNext DEF N
  <2>6. P(n + 1) BY <2>3, <2>4, <2>5
  <2> QED BY <2>6 DEF n
<1>14. Nat \subseteq S
  <2> HIDE DEF S
  <2> QED BY <1>12, <1>13, Induction
<1>15. P(N)
  <2> HIDE DEF P
  <2>1. N - 1 \in Nat /\ (N - 1) + 1 = N BY <1>1
  <2>2. N - 1 \in S BY <1>14, <2>1
  <2> QED BY <2>1, <2>2, <1>1
<1>16. PairsRead(Content(parts), ring, N) BY <1>9, <1>11, <1>15
<1> QED BY <1>5, <1>6, <1>16 DEF parts, N

\* The text of a ring is a group, and is read as the ring, its positions with
\* two coordinates each.
LEMMA RingReads ==
  ASSUME NEW ring \in Seq(Position), ring # <<>>
  PROVE  /\ RingText(ring) \in Seq(Token) /\ Grouped(RingText(ring))
         /\ WellFormedRing(RingText(ring)) /\ ParseRing(RingText(ring)) = PlainRing(ring)
<1> DEFINE parts == PairsOf(ring)
           c == Content(parts)
           t == RingText(ring)
           n == Len(ring)
<1>1. t = Listed(parts) BY DEF RingText, PairsOf
<1>2. parts \in Seq(Seq(Token)) /\ (\A i \in DOMAIN parts : ListItem(parts[i]))
      /\ PairsRead(c, ring, n)
  BY RingContent
<1>3. n \in Nat /\ n >= 1 /\ DOMAIN ring = 1 .. n OBVIOUS
<1>13. \A i \in 1 .. n : ring[i] \in Position OBVIOUS
<1> HIDE DEF parts, c, t, n
<1>4. Grouped(t) BY <1>1, <1>2, ListGrouped
<1>5. /\ c \in Seq(Token) /\ t \in Seq(Token) /\ Len(t) = Len(c) + 2
      /\ \A j \in 1 .. Len(c) : t[j + 1] = c[j]
      /\ Enclosed(t)
  BY <1>1, <1>2, ListedIs DEF c
<1>6. /\ Len(c) = 2 * n - 1 /\ (\A i \in 1 .. n : c[2 * i - 1] = Pair(ring[i]))
      /\ \A i \in 1 .. n - 1 : c[2 * i] = Comma
  BY <1>2 DEF PairsRead
<1>7. Len(t) = 2 * n + 1 BY <1>5, <1>6, <1>3
<1>8. \A i \in 1 .. n : t[2 * i] = Pair(ring[i])
  <2> SUFFICES ASSUME NEW i \in 1 .. n PROVE t[2 * i] = Pair(ring[i]) OBVIOUS
  <2>1. 2 * i - 1 \in 1 .. Len(c) /\ (2 * i - 1) + 1 = 2 * i BY <1>3, <1>6
  <2> QED BY <2>1, <1>5, <1>6
<1>9. \A i \in 1 .. n - 1 : t[2 * i + 1] = Comma
  <2> SUFFICES ASSUME NEW i \in 1 .. n - 1 PROVE t[2 * i + 1] = Comma OBVIOUS
  <2>1. 2 * i \in 1 .. Len(c) BY <1>3, <1>6
  <2> QED BY <2>1, <1>5, <1>6
<1>10. WellFormedRing(t)
  <2>1. Len(t) % 2 = 1 BY <1>3, <1>7
  <2>2. ASSUME NEW i \in 2 .. Len(t) - 1
        PROVE  IF i % 2 = 0 THEN IsPair(t[i]) ELSE t[i] = Comma
    <3>1. CASE i % 2 = 0
      <4>1. PICK k \in 1 .. n : i = 2 * k
        <5>1. i = 2 * (i \div 2) /\ i \div 2 \in 1 .. n BY <3>1, <1>3, <1>7
        <5> QED BY <5>1
      <4>2. t[i] = Pair(ring[k]) /\ ring[k] \in Position BY <4>1, <1>8, <1>13
      <4>3. IsPair(t[i]) BY <4>2, PairToken
      <4> QED BY <3>1, <4>3
    <3>2. CASE i % 2 # 0
      <4>1. PICK k \in 1 .. n - 1 : i = 2 * k + 1
        <5>1. i = 2 * (i \div 2) + 1 /\ i \div 2 \in 1 .. n - 1 BY <3>2, <1>3, <1>7
        <5> QED BY <5>1
      <4>2. t[i] = Comma BY <4>1, <1>9
      <4> QED BY <3>2, <4>2
    <3> QED BY <3>1, <3>2
  <2> QED BY <2>1, <2>2, <1>5 DEF WellFormedRing
<1>11. ParseRing(t) = PlainRing(ring)
  <2>1. Len(t) \div 2 = n BY <1>3, <1>7
  <2>2. ASSUME NEW i \in 1 .. n
        PROVE  <<t[2 * i][2], t[2 * i][3]>> = <<Lon(ring[i]), Lat(ring[i])>>
    <3>1. t[2 * i] = Pair(ring[i]) /\ ring[i] \in Position BY <1>8, <1>13
    <3>2. Pair(ring[i])[2] = Lon(ring[i]) /\ Pair(ring[i])[3] = Lat(ring[i]) BY <3>1, PairToken
    <3> QED BY <3>1, <3>2
  <2>3. ParseRing(t) = [i \in 1 .. n |-> <<t[2 * i][2], t[2 * i][3]>>] BY <2>1 DEF ParseRing
  <2>4. PlainRing(ring) = [i \in 1 .. n |-> <<Lon(ring[i]), Lat(ring[i])>>]
    BY <1>3 DEF PlainRing
  <2> QED BY <2>2, <2>3, <2>4
<1> QED BY <1>4, <1>5, <1>10, <1>11 DEF t

-----------------------------------------------------------------------------
(* Polygons. *)

SomeRing == {ring \in Seq(Position) : ring # <<>>}
RingTexts(rings) == [i \in DOMAIN rings |-> RingText(rings[i])]
PlainRings(rings) == [i \in DOMAIN rings |-> PlainRing(rings[i])]

\* The text of a polygon is a group, and its content is read as its rings.
LEMMA PolygonReads ==
  ASSUME NEW rings \in Seq(SomeRing)
  PROVE  /\ PolygonText(rings) \in Seq(Token) /\ Grouped(PolygonText(rings))
         /\ Enclosed(PolygonText(rings))
         /\ WellFormedRings(Inside(PolygonText(rings)))
         /\ ParseRings(Inside(PolygonText(rings))) = PlainRings(rings)
<1> DEFINE parts == RingTexts(rings)
           c == Content(parts)
           t == PolygonText(rings)
           n == Len(rings)
<1>1. t = Listed(parts) BY DEF PolygonText, RingTexts
<1>2. n \in Nat /\ DOMAIN rings = 1 .. n OBVIOUS
<1>3. \A i \in 1 .. n : rings[i] \in Seq(Position) /\ rings[i] # <<>>
  <2> SUFFICES ASSUME NEW i \in 1 .. n PROVE rings[i] \in Seq(Position) /\ rings[i] # <<>>
    OBVIOUS
  <2>1. rings[i] \in SomeRing OBVIOUS
  <2> QED BY <2>1 DEF SomeRing
<1>4. \A i \in 1 .. n : /\ RingText(rings[i]) \in Seq(Token) /\ Grouped(RingText(rings[i]))
                        /\ WellFormedRing(RingText(rings[i]))
                        /\ ParseRing(RingText(rings[i])) = PlainRing(rings[i])
  BY <1>3, RingReads
<1>5. parts \in [1 .. n -> Seq(Token)] /\ \A i \in 1 .. n : parts[i] = RingText(rings[i])
  BY <1>2, <1>4 DEF RingTexts
<1>6. parts \in Seq(Seq(Token)) /\ DOMAIN parts = 1 .. n
  <2>1. parts \in Seq(Seq(Token)) BY <1>2, <1>5
  <2>2. DOMAIN parts = 1 .. n BY <1>5
  <2> QED BY <2>1, <2>2
<1>7. \A i \in DOMAIN parts : Grouped(parts[i]) /\ ListItem(parts[i])
  BY <1>4, <1>5, <1>6 DEF ListItem
<1> HIDE DEF parts, c, t, n
<1>8. Grouped(t) BY <1>1, <1>6, <1>7, ListGrouped
<1>9. t \in Seq(Token) /\ Enclosed(t) /\ Inside(t) = c BY <1>1, <1>6, ListedIs DEF c
<1>10. SplitGroups(c, FALSE).ok /\ SplitGroups(c, FALSE).groups = parts
  BY <1>6, <1>7, SplitContent DEF c
<1>11. WellFormedRings(c)
  <2>1. \A r \in ToSet(parts) : WellFormedRing(r) BY <1>4, <1>5, <1>6 DEF ToSet
  <2> QED BY <2>1, <1>10 DEF WellFormedRings
<1>12. ParseRings(c) = PlainRings(rings)
  <2>1. ParseRings(c) = [i \in 1 .. n |-> ParseRing(parts[i])] BY <1>6, <1>10 DEF ParseRings
  <2>2. PlainRings(rings) = [i \in 1 .. n |-> PlainRing(rings[i])] BY <1>2 DEF PlainRings
  <2>3. \A i \in 1 .. n : ParseRing(parts[i]) = PlainRing(rings[i]) BY <1>4, <1>5
  <2> QED BY <2>1, <2>2, <2>3
<1> QED BY <1>8, <1>9, <1>11, <1>12 DEF t

PolygonTextsOf(polys) == [i \in DOMAIN polys |-> PolygonText(polys[i])]
PlainPolys(polys) == [i \in DOMAIN polys |-> PlainRings(polys[i])]

\* So is the content of a multipolygon, as its polygons.
LEMMA PolygonsRead ==
  ASSUME NEW polys \in Seq(Seq(SomeRing)),
         NEW t, t = Listed(PolygonTextsOf(polys)), NEW c, c = Inside(t)
  PROVE  /\ t \in Seq(Token) /\ Enclosed(t) /\ SplitGroups(c, TRUE).ok
         /\ \A s \in ToSet(PolygonTexts(c)) : WellFormedRings(Bare(s))
         /\ [i \in DOMAIN PolygonTexts(c) |-> ParseRings(Bare(PolygonTexts(c)[i]))]
              = PlainPolys(polys)
<1> DEFINE parts == PolygonTextsOf(polys)
           n == Len(polys)
<1>2. n \in Nat /\ DOMAIN polys = 1 .. n /\ \A i \in 1 .. n : polys[i] \in Seq(SomeRing) OBVIOUS
<1>4. \A i \in 1 .. n : /\ PolygonText(polys[i]) \in Seq(Token) /\ Grouped(PolygonText(polys[i]))
                        /\ Enclosed(PolygonText(polys[i]))
                        /\ WellFormedRings(Inside(PolygonText(polys[i])))
                        /\ ParseRings(Inside(PolygonText(polys[i]))) = PlainRings(polys[i])
  BY <1>2, PolygonReads
<1>5. parts \in [1 .. n -> Seq(Token)] /\ \A i \in 1 .. n : parts[i] = PolygonText(polys[i])
  BY <1>2, <1>4 DEF PolygonTextsOf
<1>6. parts \in Seq(Seq(Token)) /\ DOMAIN parts = 1 .. n
  <2>1. parts \in Seq(Seq(Token))
    <3> HIDE DEF n, parts
    <3> QED BY <1>2, <1>5
  <2>2. DOMAIN parts = 1 .. n BY <1>5
  <2> QED BY <2>1, <2>2
<1>7. \A i \in DOMAIN parts : Grouped(parts[i]) BY <1>4, <1>5, <1>6
<1> HIDE DEF parts, n
<1>9. t \in Seq(Token) /\ Enclosed(t) /\ c = Content(parts) BY <1>6, ListedIs DEF parts
<1>10. SplitGroups(c, TRUE).ok /\ PolygonTexts(c) = parts
  BY <1>6, <1>7, <1>9, SplitContent DEF PolygonTexts
<1>11. \A i \in 1 .. n : /\ WellFormedRings(Bare(parts[i]))
                         /\ ParseRings(Bare(parts[i])) = PlainRings(polys[i])
  BY <1>4, <1>5 DEF Bare
<1>12. \A s \in ToSet(parts) : WellFormedRings(Bare(s)) BY <1>6, <1>11 DEF ToSet
<1>13. [i \in DOMAIN parts |-> ParseRings(Bare(parts[i]))] = PlainPolys(polys)
  <2>1. PlainPolys(polys) = [i \in 1 .. n |-> PlainRings(polys[i])] BY <1>2 DEF PlainPolys
  <2> QED BY <2>1, <1>6, <1>11
<1> QED BY <1>9, <1>10, <1>12, <1>13

\* A point's text, and that it is read as the point.
LEMMA PointReads ==
  ASSUME NEW p \in Position, NEW t, t = RingText(<<p>>)
  PROVE  t \in Seq(Token) /\ Enclosed(t) /\ Inside(t) = <<Pair(p)>> /\ IsPair(Pair(p))
<1> DEFINE ring == <<p>>
           c == Content(PairsOf(ring))
<1>1. ring \in Seq(Position) /\ ring # <<>> /\ Len(ring) = 1 /\ ring[1] = p OBVIOUS
<1>2. t = Listed(PairsOf(ring)) BY DEF RingText, PairsOf
<1> HIDE DEF ring, c
<1>3. PairsOf(ring) \in Seq(Seq(Token)) /\ PairsRead(c, ring, Len(ring))
  BY <1>1, RingContent DEF c
<1>4. t \in Seq(Token) /\ Enclosed(t) /\ Inside(t) = c BY <1>2, <1>3, ListedIs DEF c
<1>5. c \in Seq(Token) /\ Len(c) = 1 /\ c[1] = Pair(p)
  <2>1. Len(c) = 2 * 1 - 1 /\ c[2 * 1 - 1] = Pair(ring[1]) /\ c \in Seq(Token)
    BY <1>1, <1>3 DEF PairsRead
  <2> QED BY <2>1, <1>1
<1>6. c = <<Pair(p)>> BY <1>5
<1> QED BY <1>4, <1>6, PairToken

\* The geometries the text keeps: every ring has a position, every position
\* two coordinates.
Points == {PointAt(p) : p \in Position}
Polygons == {Polygon(rings) : rings \in Seq(SomeRing)}
MultiPolygons == {Geometry("MultiPolygon", polys) : polys \in Seq(Seq(SomeRing))}
Areas == Points \cup Polygons \cup MultiPolygons

LEMMA UsablePositions ==
  ASSUME NEW polys \in Seq(Seq(Seq(Position))), NEW type
  PROVE  /\ Rings(Geometry(type, polys)) \in Seq(Seq(Position))
         /\ \A p \in Positions(Geometry(type, polys)) : p \in Position /\ Usable(p)
<1> DEFINE g == Geometry(type, polys)
<1>1. g.polys = polys BY DEF Geometry
<1> HIDE DEF g
<1>2. Rings(g) \in Seq(Seq(Position))
  <2> DEFINE T == Seq(Position)
  <2>1. polys \in Seq(Seq(T)) OBVIOUS
  <2> HIDE DEF T
  <2>2. FlattenSeq(polys) \in Seq(T) BY <2>1, FlattenIsSeq
  <2> QED BY <2>2, <1>1 DEF Rings, T
<1>3. FlattenSeq(Rings(g)) \in Seq(Position) BY <1>2, FlattenIsSeq
<1>4. \A p \in Positions(g) : p \in Position BY <1>3 DEF Positions, ToSet
<1> QED BY <1>2, <1>4 DEF Position, g

\* The text of a geometry that every ring of which has a position and every
\* position two coordinates reads back as the geometry: writing the area a
\* client sends as WKT and reading it again loses its elevations, no ring, no
\* position and no order (translate.GeoJSONToWKT with geojson.ToWKT and FromWKT).
THEOREM TextReadsBack == \A g \in Areas : FromWKT(ToWKT(g)) = Plain(g)
<1>1. ASSUME NEW p \in Position PROVE FromWKT(ToWKT(PointAt(p))) = Plain(PointAt(p))
  <2> DEFINE g == PointAt(p)
             t == RingText(<<p>>)
             w == WKT("POINT", t)
  <2>1. g.type = "Point" /\ g.polys = << << <<p>> >> >> BY DEF PointAt, Geometry
  <2>2. \A q \in Positions(g) : Usable(q)
    <3>1. << << <<p>> >> >> \in Seq(Seq(Seq(Position))) OBVIOUS
    <3> QED BY <3>1, UsablePositions DEF PointAt
  <2>3. g.polys[1][1] = <<p>> BY <2>1
  <2> HIDE DEF g, t, w
  <2>4. ToWKT(g) = w BY <2>1, <2>2, <2>3, Zenon DEF ToWKT, t, w
  <2>5. Enclosed(t) /\ Inside(t) = <<Pair(p)>> /\ IsPair(Pair(p)) BY PointReads DEF t
  <2>6. w.keyword = "POINT" /\ w.text = t BY DEF w, WKT
  <2>7. FromWKT(w) = PointAt(<<Pair(p)[2], Pair(p)[3]>>)
    <3>1. Len(<<Pair(p)>>) = 1 /\ <<Pair(p)>>[1] = Pair(p) OBVIOUS
    <3> QED BY <3>1, <2>5, <2>6, Zenon DEF FromWKT
  <2>8. FromWKT(w) = PointAt(<<Lon(p), Lat(p)>>) BY <2>7, PairToken
  <2>9. Plain(g) = PointAt(<<Lon(p), Lat(p)>>)
    <3>1. [i \in DOMAIN g.polys |-> [j \in DOMAIN g.polys[i] |->
             [k \in DOMAIN g.polys[i][j] |-> <<Lon(g.polys[i][j][k]), Lat(g.polys[i][j][k])>>]]]
            = << << <<<<Lon(p), Lat(p)>>>> >> >>
      BY <2>1
    <3> QED BY <3>1, <2>1 DEF Plain, PointAt
  <2> QED BY <2>4, <2>8, <2>9 DEF g
<1>2. ASSUME NEW rings \in Seq(SomeRing)
      PROVE  FromWKT(ToWKT(Polygon(rings))) = Plain(Polygon(rings))
  <2> DEFINE g == Polygon(rings)
             t == PolygonText(rings)
             w == WKT("POLYGON", t)
  <2>1. g.type = "Polygon" /\ g.polys = <<rings>> BY DEF Polygon, Geometry
  <2>2. \A q \in Positions(g) : Usable(q)
    <3>1. rings \in Seq(Seq(Position)) BY DEF SomeRing
    <3>2. <<rings>> \in Seq(Seq(Seq(Position)))
      <4> DEFINE T == Seq(Seq(Position))
      <4>1. rings \in T BY <3>1
      <4> HIDE DEF T
      <4>2. <<rings>> \in Seq(T) BY <4>1
      <4> QED BY <4>2 DEF T
    <3> QED BY <3>2, UsablePositions DEF Polygon
  <2>3. g.polys[1] = rings BY <2>1
  <2> HIDE DEF g, t, w
  <2>4. ToWKT(g) = w BY <2>1, <2>2, <2>3, Zenon DEF ToWKT, t, w
  <2>5. Enclosed(t) /\ WellFormedRings(Inside(t)) /\ ParseRings(Inside(t)) = PlainRings(rings)
    BY PolygonReads DEF t
  <2>6. w.keyword = "POLYGON" /\ w.text = t BY DEF w, WKT
  <2>7. FromWKT(w) = Polygon(PlainRings(rings)) BY <2>5, <2>6, Zenon DEF FromWKT
  <2>8. Plain(g) = Polygon(PlainRings(rings))
    <3>1. [i \in DOMAIN g.polys |-> [j \in DOMAIN g.polys[i] |->
             [k \in DOMAIN g.polys[i][j] |-> <<Lon(g.polys[i][j][k]), Lat(g.polys[i][j][k])>>]]]
            = <<PlainRings(rings)>>
      BY <2>1 DEF PlainRings, PlainRing
    <3> QED BY <3>1, <2>1 DEF Plain, Polygon
  <2> QED BY <2>4, <2>7, <2>8 DEF g
<1>3. ASSUME NEW polys \in Seq(Seq(SomeRing))
      PROVE  FromWKT(ToWKT(Geometry("MultiPolygon", polys))) = Plain(Geometry("MultiPolygon", polys))
  <2> DEFINE g == Geometry("MultiPolygon", polys)
             t == Listed(PolygonTextsOf(polys))
             w == WKT("MULTIPOLYGON", t)
             c == Inside(t)
  <2>1. g.type = "MultiPolygon" /\ g.polys = polys BY DEF Geometry
  <2>2. \A q \in Positions(g) : Usable(q)
    <3>1. polys \in Seq(Seq(Seq(Position))) BY DEF SomeRing
    <3> QED BY <3>1, UsablePositions
  <2>3. t = Listed([i \in DOMAIN g.polys |-> PolygonText(g.polys[i])]) BY <2>1 DEF PolygonTextsOf
  <2>4. /\ Enclosed(t) /\ SplitGroups(c, TRUE).ok
        /\ \A s \in ToSet(PolygonTexts(c)) : WellFormedRings(Bare(s))
        /\ [i \in DOMAIN PolygonTexts(c) |-> ParseRings(Bare(PolygonTexts(c)[i]))]
             = PlainPolys(polys)
    BY PolygonsRead
  <2>5. w.keyword = "MULTIPOLYGON" /\ w.text = t BY DEF WKT
  <2>6. c = Inside(t) OBVIOUS
  <2>7. Plain(g) = Geometry("MultiPolygon", PlainPolys(polys))
    BY <2>1 DEF Plain, PlainPolys, PlainRings, PlainRing
  <2> HIDE DEF g, t, w, c
  <2>8. ToWKT(g) = w BY <2>1, <2>2, <2>3, Zenon DEF ToWKT, w
  <2>9. FromWKT(w) = Geometry("MultiPolygon", PlainPolys(polys))
    BY <2>4, <2>5, <2>6, Zenon DEF FromWKT
  <2> QED BY <2>7, <2>8, <2>9 DEF g
<1> QED BY <1>1, <1>2, <1>3 DEF Areas, Points, Polygons, MultiPolygons

\* CMR is sent a ring with the two coordinates of each of its positions.
LEMMA KeptIsPlain ==
  ASSUME NEW ring \in Seq(Position)
  PROVE  Kept(ring) = PlainRing(ring)
<1> DEFINE N == Len(ring)
           pair(i) == <<Lon(ring[i]), Lat(ring[i])>>
           Of(f) == [i \in 0 .. N |-> IF i = 0 THEN <<>>
                                      ELSE IF Usable(ring[i]) THEN Append(f[i - 1], pair(i))
                                      ELSE f[i - 1]]
           f == [i \in 0 .. N |-> [k \in 1 .. i |-> pair(k)]]
           g == CHOOSE h : h = Of(h)
<1>1. N \in Nat /\ DOMAIN ring = 1 .. N OBVIOUS
<1>2. \A i \in 1 .. N : Usable(ring[i]) /\ pair(i) \in Int \X Int
  <2> SUFFICES ASSUME NEW i \in 1 .. N PROVE Usable(ring[i]) /\ pair(i) \in Int \X Int OBVIOUS
  <2>1. ring[i] \in Position OBVIOUS
  <2> QED BY <2>1, SMTT(30) DEF Position, Usable, Lon, Lat
<1> HIDE DEF pair, N
<1>3. \A i \in 0 .. N : f[i] \in Seq(Int \X Int) /\ Len(f[i]) = i
  <2> SUFFICES ASSUME NEW i \in 0 .. N PROVE f[i] \in Seq(Int \X Int) /\ Len(f[i]) = i OBVIOUS
  <2>1. f[i] = [k \in 1 .. i |-> pair(k)] OBVIOUS
  <2>2. \A k \in 1 .. i : pair(k) \in Int \X Int BY <1>1, <1>2
  <2> HIDE DEF f
  <2>3. [k \in 1 .. i |-> pair(k)] \in [1 .. i -> Int \X Int] BY <2>2
  <2>4. i \in Nat BY <1>1
  <2> QED BY <2>1, <2>3, <2>4
<1>4. f = Of(f)
  <2> SUFFICES ASSUME NEW i \in 0 .. N
               PROVE  f[i] = IF i = 0 THEN <<>>
                             ELSE IF Usable(ring[i]) THEN Append(f[i - 1], pair(i)) ELSE f[i - 1]
    OBVIOUS
  <2>1. CASE i = 0
    <3>1. f[0] \in Seq(Int \X Int) /\ Len(f[0]) = 0 BY <1>1, <1>3
    <3> HIDE DEF f
    <3> QED BY <3>1, <2>1
  <2>2. CASE i # 0
    <3>1. i \in 1 .. N /\ i - 1 \in 0 .. N BY <2>2, <1>1
    <3>2. Usable(ring[i]) /\ pair(i) \in Int \X Int BY <1>2, <3>1
    <3>3. f[i - 1] \in Seq(Int \X Int) /\ Len(f[i - 1]) = i - 1
          /\ f[i] \in Seq(Int \X Int) /\ Len(f[i]) = i
      BY <1>3, <3>1
    <3>4. \A k \in 1 .. i - 1 : f[i - 1][k] = pair(k) BY <3>1
    <3>5. \A k \in 1 .. i : f[i][k] = pair(k) BY <3>1
    <3> HIDE DEF f
    <3> DEFINE u == f[i - 1]
               v == f[i]
    <3>6. u \in Seq(Int \X Int) /\ v \in Seq(Int \X Int) /\ Len(u) = i - 1 /\ Len(v) = i
      BY <3>3
    <3> HIDE DEF u, v
    <3>7. Append(u, pair(i)) \in Seq(Int \X Int) /\ Len(Append(u, pair(i))) = i BY <3>2, <3>6
    <3>8. \A k \in 1 .. i : Append(u, pair(i))[k] = v[k]
      <4> SUFFICES ASSUME NEW k \in 1 .. i PROVE Append(u, pair(i))[k] = v[k] OBVIOUS
      <4>1. CASE k = i BY <4>1, <3>2, <3>5, <3>6 DEF v
      <4>2. CASE k # i
        <5>1. k \in 1 .. i - 1 /\ k \in 1 .. Len(u) BY <4>2, <3>1, <3>6
        <5>2. u[k] = pair(k) /\ v[k] = pair(k) BY <5>1, <3>4, <3>5 DEF u, v
        <5>3. Append(u, pair(i))[k] = u[k] BY <5>1, <3>2, <3>6
        <5> QED BY <5>2, <5>3
      <4> QED BY <4>1, <4>2
    <3>9. Append(u, pair(i)) = v
      <4> DEFINE w == Append(u, pair(i))
                 T == Int \X Int
      <4>1. w \in Seq(T) /\ v \in Seq(T) /\ Len(w) = Len(v) /\ \A k \in 1 .. Len(w) : w[k] = v[k]
        BY <3>6, <3>7, <3>8
      <4> HIDE DEF w, T
      <4>2. w = v BY <4>1, SeqEqual
      <4> QED BY <4>2 DEF w
    <3> QED BY <3>2, <3>9, <2>2 DEF u, v
  <2> QED BY <2>1, <2>2
<1>5. g = Of(g) BY <1>4
<1> DEFINE S == {n \in Nat : n <= N => g[n] = f[n]}
<1>6. \A i \in 0 .. N : g[i] = IF i = 0 THEN <<>>
                               ELSE IF Usable(ring[i]) THEN Append(g[i - 1], pair(i)) ELSE g[i - 1]
  BY <1>5
<1>7. \A i \in 0 .. N : f[i] = IF i = 0 THEN <<>>
                               ELSE IF Usable(ring[i]) THEN Append(f[i - 1], pair(i)) ELSE f[i - 1]
  BY <1>4
<1>8. Kept(ring) = g[N] BY DEF Kept, N, pair
<1>9. PlainRing(ring) = f[N] BY <1>1 DEF PlainRing, pair
<1> HIDE DEF f, g, Of
<1>10. 0 \in S
  <2>1. 0 \in 0 .. N BY <1>1
  <2> QED BY <2>1, <1>6, <1>7
<1>11. \A n \in Nat : n \in S => n + 1 \in S
  <2> SUFFICES ASSUME NEW n \in Nat, n \in S, n + 1 <= N PROVE g[n + 1] = f[n + 1]
    OBVIOUS
  <2>1. n + 1 \in 0 .. N /\ n + 1 # 0 /\ (n + 1) - 1 = n /\ n <= N BY <1>1
  <2>2. g[n] = f[n] BY <2>1
  <2> QED BY <2>1, <2>2, <1>6, <1>7
<1>12. Nat \subseteq S
  <2> HIDE DEF S
  <2> QED BY <1>10, <1>11, Induction
<1>13. g[N] = f[N] BY <1>1, <1>12
<1> QED BY <1>8, <1>9, <1>13

\* What is a sequence and has all its elements in T is one over T.
LEMMA ElementsIn ==
  ASSUME NEW S, NEW T, NEW u \in Seq(S), \A k \in 1 .. Len(u) : u[k] \in T
  PROVE  u \in Seq(T)
  OBVIOUS

\* The rings of a drawn geometry have positions, all of them usable.
LEMMA DrawnRings ==
  ASSUME NEW g, g.polys \in Seq(Seq(Seq(Seq(Int)))), Drawn(g)
  PROVE  /\ \A i \in 1 .. Len(g.polys) : \A j \in 1 .. Len(g.polys[i]) :
              g.polys[i][j] \in SomeRing
         /\ \A i \in 1 .. Len(g.polys) : g.polys[i] \in Seq(SomeRing)
         /\ g.polys \in Seq(Seq(SomeRing))
<1>. DEFINE polys == g.polys
<1>0. polys \in Seq(Seq(Seq(Seq(Int))))
  OBVIOUS
<1>2. ASSUME NEW i \in 1 .. Len(polys), NEW j \in 1 .. Len(polys[i])
      PROVE  polys[i][j] \in SomeRing
  <2>. DEFINE ring == polys[i][j]
  <2>1. polys[i] \in Seq(Seq(Seq(Int)))
    BY <1>0
  <2>2. ring \in Seq(Seq(Int))
    BY <2>1
  <2>3. polys[i] \in ToSet(polys) /\ ring \in ToSet(polys[i])
    BY <1>0, <2>1 DEF ToSet
  <2>4. ring # <<>> /\ \A p \in ToSet(ring) : Usable(p)
    BY <2>3, Zenon DEF Drawn
  <2>. HIDE DEF ring, polys
  <2>5. ASSUME NEW k \in 1 .. Len(ring) PROVE ring[k] \in Position
    <3>1. ring[k] \in Seq(Int) /\ ring[k] \in ToSet(ring)
      BY <2>2 DEF ToSet
    <3>. QED
      BY <2>4, <3>1 DEF Position
  <2>6. ring \in Seq(Position)
    BY <2>2, <2>5, ElementsIn, Zenon
  <2>. QED
    BY <2>4, <2>6 DEF SomeRing, ring, polys
<1>3. ASSUME NEW i \in 1 .. Len(polys) PROVE polys[i] \in Seq(SomeRing)
  <2>. DEFINE u == polys[i]
              T == Seq(Seq(Int))
  <2>1. u \in Seq(T) /\ \A j \in 1 .. Len(u) : u[j] \in SomeRing
    BY <1>0, <1>2
  <2>. HIDE DEF u, T
  <2>2. u \in Seq(SomeRing)
    BY <2>1, SMTT(30)
  <2>. QED
    BY <2>2 DEF u
<1>4. polys \in Seq(Seq(SomeRing))
  <2>. DEFINE T == Seq(SomeRing)
              U == Seq(Seq(Seq(Int)))
  <2>1. polys \in Seq(U) /\ \A i \in 1 .. Len(polys) : polys[i] \in T
    BY <1>0, <1>3
  <2>. HIDE DEF T, U, polys
  <2>2. polys \in Seq(T)
    BY <2>1
  <2>. QED
    BY <2>2 DEF T
<1>. QED
  BY <1>2, <1>3, <1>4 DEF polys

-----------------------------------------------------------------------------
(* Boxes as text. *)

BoxRing(c) == Ring(c[1], c[2], c[3], c[4])

LEMMA RingPositions ==
  ASSUME NEW c \in Seq(Int), Len(c) = 4
  PROVE  /\ BoxRing(c) \in Seq(Position) /\ BoxRing(c) # <<>> /\ PlainRing(BoxRing(c)) = BoxRing(c)
         /\ ToSet(BoxRing(c))
              = {<<c[1], c[2]>>, <<c[3], c[2]>>, <<c[3], c[4]>>, <<c[1], c[4]>>}
<1>1. c[1] \in Int /\ c[2] \in Int /\ c[3] \in Int /\ c[4] \in Int
  <2>1. ASSUME NEW i \in 1 .. 4 PROVE c[i] \in Int
    <3>1. i \in 1 .. Len(c) OBVIOUS
    <3>2. c \in [1 .. Len(c) -> Int] OBVIOUS
    <3> QED BY <3>1, <3>2
  <2>2. 1 \in 1 .. 4 /\ 2 \in 1 .. 4 /\ 3 \in 1 .. 4 /\ 4 \in 1 .. 4 OBVIOUS
  <2> QED BY <2>1, <2>2
<1> DEFINE w == c[1]
           s == c[2]
           e == c[3]
           n == c[4]
           r == << <<w, s>>, <<e, s>>, <<e, n>>, <<w, n>>, <<w, s>> >>
<1>2. BoxRing(c) = r BY DEF BoxRing, Ring
<1> HIDE DEF w, s, e, n
<1>3. w \in Int /\ s \in Int /\ e \in Int /\ n \in Int BY <1>1 DEF w, s, e, n
<1>4. \A x \in Int, y \in Int : /\ <<x, y>> \in Position
                                /\ <<Lon(<<x, y>>), Lat(<<x, y>>)>> = <<x, y>>
  BY DEF Position, Usable, Lon, Lat
<1>5. r \in Seq(Position) /\ Len(r) = 5 /\ r # <<>> BY <1>3, <1>4
<1>6. /\ r[1] = <<w, s>> /\ r[2] = <<e, s>> /\ r[3] = <<e, n>> /\ r[4] = <<w, n>>
      /\ r[5] = <<w, s>> /\ DOMAIN r = 1 .. 5
  OBVIOUS
<1> HIDE DEF r
<1>7. \A k \in 1 .. 5 : <<Lon(r[k]), Lat(r[k])>> = r[k]
  <2>1. ASSUME NEW k \in 1 .. 5 PROVE \E x \in Int, y \in Int : r[k] = <<x, y>>
    <3>1. k = 1 \/ k = 2 \/ k = 3 \/ k = 4 \/ k = 5 OBVIOUS
    <3>2. CASE k = 1 BY <3>2, <1>3, <1>6
    <3>3. CASE k = 2 BY <3>3, <1>3, <1>6
    <3>4. CASE k = 3 BY <3>4, <1>3, <1>6
    <3>5. CASE k = 4 BY <3>5, <1>3, <1>6
    <3>6. CASE k = 5 BY <3>6, <1>3, <1>6
    <3> QED BY <3>1, <3>2, <3>3, <3>4, <3>5, <3>6
  <2> SUFFICES ASSUME NEW k \in 1 .. 5 PROVE <<Lon(r[k]), Lat(r[k])>> = r[k] OBVIOUS
  <2>2. PICK x \in Int, y \in Int : r[k] = <<x, y>> BY <2>1
  <2>3. <<Lon(<<x, y>>), Lat(<<x, y>>)>> = <<x, y>> BY <1>4
  <2> QED BY <2>2, <2>3
<1>8. PlainRing(r) = r
  <2>1. PlainRing(r) = [k \in 1 .. 5 |-> r[k]] BY <1>6, <1>7 DEF PlainRing
  <2>2. r = [k \in 1 .. 5 |-> r[k]] BY <1>5, <1>6
  <2> QED BY <2>1, <2>2
<1>9. ToSet(r) = {<<w, s>>, <<e, s>>, <<e, n>>, <<w, n>>}
  <2>1. ToSet(r) = {r[k] : k \in 1 .. 5} BY <1>6 DEF ToSet
  <2>2. 1 .. 5 = {1, 2, 3, 4, 5} OBVIOUS
  <2>3. {r[k] : k \in {1, 2, 3, 4, 5}} = {r[1], r[2], r[3], r[4], r[5]} OBVIOUS
  <2> QED BY <2>1, <2>2, <2>3, <1>6
<1> QED BY <1>2, <1>5, <1>8, <1>9 DEF w, s, e, n

\* The positions and the box of a polygon of one ring.
LEMMA OneRing ==
  ASSUME NEW ring \in Seq(Position)
  PROVE  Positions(Polygon(<<ring>>)) = ToSet(ring)
<1> DEFINE T == Seq(Position)
<1>1. <<ring>> \in Seq(T) OBVIOUS
<1>2. FlattenSeq(<< <<ring>> >>) = <<ring>>
  <2> DEFINE rings == <<ring>>
  <2>1. rings \in Seq(T) BY <1>1
  <2> HIDE DEF rings, T
  <2>2. FlattenSeq(<<rings>>) = rings BY <2>1, FlattenOne
  <2> QED BY <2>2 DEF rings
<1>3. FlattenSeq(<<ring>>) = ring BY FlattenOne
<1> QED BY <1>2, <1>3 DEF Positions, Rings, Polygon, Geometry

\* The text of a box reads back as the ring of its corners.
LEMMA BoxReads ==
  ASSUME NEW b \in Seq(Int), Len(b) \in {4, 6}
  PROVE  /\ FlatBBox(b) \in Seq(Int) /\ Len(FlatBBox(b)) = 4
         /\ FlatBBox(b) = IF Len(b) = 6 THEN <<b[1], b[2], b[4], b[5]>> ELSE b
         /\ FromWKT(BBoxToWKT(b)) = Polygon(<<BoxRing(FlatBBox(b))>>)
<1> DEFINE c == FlatBBox(b)
<1>1. c = IF Len(b) = 6 THEN <<b[1], b[2], b[4], b[5]>> ELSE b
  <2>1. 4 # 6 OBVIOUS
  <2>2. CASE Len(b) = 4 BY <2>1, <2>2, Zenon DEF FlatBBox
  <2>3. CASE Len(b) = 6 BY <2>1, <2>3, Zenon DEF FlatBBox
  <2> QED BY <2>2, <2>3
<1>2. c \in Seq(Int) /\ Len(c) = 4
  <2> HIDE DEF c
  <2>1. CASE Len(b) = 4 BY <1>1, <2>1
  <2>2. CASE Len(b) = 6
    <3>1. b[1] \in Int /\ b[2] \in Int /\ b[4] \in Int /\ b[5] \in Int BY <2>2
    <3> QED BY <3>1, <2>2, <1>1
  <2> QED BY <2>1, <2>2
<1> HIDE DEF c
<1> DEFINE ring == BoxRing(c)
<1>3. ring \in Seq(Position) /\ ring # <<>> /\ PlainRing(ring) = ring BY <1>2, RingPositions
<1>4. BBoxToWKT(b) = ToWKT(Polygon(<<ring>>))
  BY <1>2 DEF BBoxToWKT, PolygonFromBBox, BoxRing, c
<1> HIDE DEF ring
<1>5. ring \in SomeRing BY <1>3 DEF SomeRing
<1>6. <<ring>> \in Seq(SomeRing) BY <1>5
<1>7. Polygon(<<ring>>) \in Areas BY <1>6, Zenon DEF Areas, Polygons
<1>8. FromWKT(ToWKT(Polygon(<<ring>>))) = Plain(Polygon(<<ring>>)) BY <1>7, TextReadsBack
<1>9. Plain(Polygon(<<ring>>)) = Polygon(<<ring>>)
  <2> DEFINE g == Polygon(<<ring>>)
  <2>1. g.type = "Polygon" /\ g.polys = << <<ring>> >> BY DEF Polygon, Geometry
  <2>2. Plain(g) = Geometry(g.type, [i \in DOMAIN g.polys |-> PlainRings(g.polys[i])])
    BY DEF Plain, PlainRings, PlainRing
  <2>3. [i \in DOMAIN g.polys |-> PlainRings(g.polys[i])] = << <<PlainRing(ring)>> >>
    BY <2>1 DEF PlainRings
  <2> HIDE DEF g
  <2> QED BY <2>1, <2>2, <2>3, <1>3 DEF Polygon, g
<1> QED BY <1>1, <1>2, <1>4, <1>8, <1>9 DEF c, ring
=============================================================================
