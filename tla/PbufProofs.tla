----------------------------- MODULE PbufProofs -----------------------------
(***************************************************************************)
(* What the operations on pbufs do to chains of any length: what taking    *)
(* the first one off, receiving and chaining leave of the pool, and how    *)
(* lengths add up.                                                         *)
(*                                                                         *)
(* Induction is used in the form `a set of numbers that contains 0 and     *)
(* with each number its successor contains all' (Induction), which follows *)
(* from the well-foundedness of < on the naturals.                         *)
(***************************************************************************)
EXTENDS Pbuf, SequenceTheorems, WellFoundedInduction, TLAPS

LEMMA Induction ==
    ASSUME NEW S, 0 \in S, \A n \in Nat : n \in S => n + 1 \in S
    PROVE  Nat \subseteq S
<1> DEFINE Less == OpToRel(<, Nat)
           Rest == Nat \ S
<1>1. SUFFICES ASSUME Rest # {} PROVE FALSE
  OBVIOUS
<1>2. IsWellFoundedOn(Less, Nat)
  BY NatLessThanWellFounded
<1>3. Rest \subseteq Nat
  OBVIOUS
<1> HIDE DEF Less, Rest
<1>4. PICK x \in Rest : \A y \in Rest : <<y, x>> \notin Less
  BY <1>1, <1>2, <1>3, WFMin
<1>5. x \in Nat /\ x - 1 \in Nat /\ x - 1 \in Rest /\ x - 1 < x
  BY <1>4 DEF Rest
<1>6. <<x - 1, x>> \in Less
  BY <1>5 DEF Less, OpToRel
<1> QED BY <1>4, <1>5, <1>6

-----------------------------------------------------------------------------
(* Lengths.                                                                *)

\* f[i] is the sum of the lengths of the first i pbufs of s.
Sums(h, s, n, f) ==
    /\ f \in [0 .. n -> Nat]
    /\ f[0] = 0
    /\ \A i \in 1 .. n : f[i] = f[i - 1] + h[s[i]].len

LEMMA LensAreNat ==
    ASSUME NEW h \in Heaps, NEW s \in Seq(Pbufs)
    PROVE  \A i \in 1 .. Len(s) : s[i] \in Pbufs /\ h[s[i]].len \in Nat
BY ElementOfSeq DEF Heaps, PbufRecord

LEMMA SumsExist ==
    ASSUME NEW h, NEW s, NEW n \in Nat, \A i \in 1 .. n : h[s[i]].len \in Nat
    PROVE  \E f : Sums(h, s, n, f)
<1> DEFINE S == {k \in Nat : k <= n => \E f : Sums(h, s, k, f)}
<1>1. 0 \in S
  <2>1. Sums(h, s, 0, [i \in 0 .. 0 |-> 0])
    BY DEF Sums
  <2> QED BY <2>1
<1>2. ASSUME NEW k \in Nat, k \in S PROVE k + 1 \in S
  <2>1. SUFFICES ASSUME k + 1 <= n PROVE \E f : Sums(h, s, k + 1, f)
    OBVIOUS
  <2>2. PICK f : Sums(h, s, k, f)
    BY <1>2, <2>1
  <2>3. k + 1 \in 1 .. n /\ h[s[k + 1]].len \in Nat
    BY <2>1
  <2> DEFINE g == [i \in 0 .. k + 1 |-> IF i = k + 1 THEN f[k] + h[s[k + 1]].len ELSE f[i]]
  <2>4. f \in [0 .. k -> Nat]
    BY <2>2 DEF Sums
  <2>5. g \in [0 .. k + 1 -> Nat]
    BY <2>3, <2>4
  <2>6. ASSUME NEW i \in 1 .. k + 1 PROVE g[i] = g[i - 1] + h[s[i]].len
    <3>1. CASE i = k + 1
      <4>1. i - 1 = k /\ k # k + 1 /\ k \in 0 .. k + 1 /\ k + 1 \in 0 .. k + 1
        BY <3>1
      <4>2. g[k + 1] = f[k] + h[s[k + 1]].len /\ g[k] = f[k]
        BY <4>1
      <4> HIDE DEF g
      <4> QED BY <3>1, <4>1, <4>2
    <3>2. CASE i # k + 1
      <4>1. i \in 1 .. k /\ g[i] = f[i] /\ g[i - 1] = f[i - 1]
        BY <3>2
      <4> QED BY <2>2, <4>1 DEF Sums
    <3> QED BY <3>1, <3>2
  <2>7. g[0] = 0
    <3>1. f[0] = 0 /\ 0 # k + 1 /\ 0 \in 0 .. k + 1
      BY <2>2 DEF Sums
    <3> QED BY <3>1
  <2> HIDE DEF g
  <2>8. Sums(h, s, k + 1, g)
    BY <2>5, <2>6, <2>7 DEF Sums
  <2> QED BY <2>8
<1> HIDE DEF S
<1>3. n \in S
  BY <1>1, <1>2, Induction
<1> QED BY <1>3 DEF S

LEMMA SumsAreOne ==
    ASSUME NEW h, NEW s, NEW n \in Nat, NEW f, NEW g, Sums(h, s, n, f), Sums(h, s, n, g)
    PROVE  f = g
<1> DEFINE S == {k \in Nat : k <= n => f[k] = g[k]}
<1>1. 0 \in S
  BY DEF Sums
<1>2. ASSUME NEW k \in Nat, k \in S PROVE k + 1 \in S
  <2>1. SUFFICES ASSUME k + 1 <= n PROVE f[k + 1] = g[k + 1]
    OBVIOUS
  <2>2. k + 1 \in 1 .. n /\ (k + 1) - 1 = k /\ f[k] = g[k]
    BY <1>2, <2>1
  <2>3. f[k + 1] = f[k] + h[s[k + 1]].len /\ g[k + 1] = g[k] + h[s[k + 1]].len
    BY <2>2 DEF Sums
  <2> QED BY <2>2, <2>3
<1> HIDE DEF S
<1>3. \A k \in 0 .. n : k \in S
  BY <1>1, <1>2, Induction
<1>4. \A k \in 0 .. n : f[k] = g[k]
  BY <1>3 DEF S
<1> QED BY <1>4 DEF Sums

\* The recursive definition of ChainLength is the last of the sums.
LEMMA LengthIsSum ==
    ASSUME NEW h \in Heaps, NEW s \in Seq(Pbufs), NEW f, Sums(h, s, Len(s), f)
    PROVE  ChainLength(h, s) = f[Len(s)]
<1> DEFINE n == Len(s)
           Def(g) == g = [i \in 0 .. n |-> IF i = 0 THEN 0 ELSE g[i - 1] + h[s[i]].len]
           sum[i \in 0 .. n] == IF i = 0 THEN 0 ELSE sum[i - 1] + h[s[i]].len
<1>1. n \in Nat /\ \A i \in 1 .. n : h[s[i]].len \in Nat
  BY LensAreNat
<1>2. f \in [0 .. n -> Nat] /\ f[0] = 0 /\ \A i \in 1 .. n : f[i] = f[i - 1] + h[s[i]].len
  BY DEF Sums
<1>3. ChainLength(h, s) = sum[n]
  BY DEF ChainLength
<1>4. sum = CHOOSE g : Def(g)
  OBVIOUS
<1> HIDE DEF n, sum
<1>5. Def(f)
  BY <1>1, <1>2
<1>6. Def(sum)
  <2> HIDE DEF Def
  <2> QED BY <1>4, <1>5
<1>7. sum[0] = 0 /\ \A i \in 1 .. n : sum[i] = sum[i - 1] + h[s[i]].len
  BY <1>1, <1>6
<1> DEFINE S == {k \in Nat : k <= n => sum[k] = f[k]}
<1>8. 0 \in S
  BY <1>2, <1>7
<1>9. ASSUME NEW k \in Nat, k \in S PROVE k + 1 \in S
  <2>1. SUFFICES ASSUME k + 1 <= n PROVE sum[k + 1] = f[k + 1]
    OBVIOUS
  <2>2. k + 1 \in 1 .. n /\ (k + 1) - 1 = k /\ sum[k] = f[k]
    BY <1>1, <1>9, <2>1
  <2>3. sum[k + 1] = sum[k] + h[s[k + 1]].len /\ f[k + 1] = f[k] + h[s[k + 1]].len
    BY <1>2, <1>7, <2>2
  <2> QED BY <2>2, <2>3
<1> HIDE DEF S
<1>10. n \in S
  BY <1>1, <1>8, <1>9, Induction
<1>11. sum[n] = f[n]
  BY <1>1, <1>10 DEF S
<1> QED BY <1>3, <1>11 DEF n

LEMMA LengthSums ==
    ASSUME NEW h \in Heaps, NEW s \in Seq(Pbufs)
    PROVE  \E f : Sums(h, s, Len(s), f) /\ ChainLength(h, s) = f[Len(s)]
<1>1. Len(s) \in Nat /\ \A i \in 1 .. Len(s) : h[s[i]].len \in Nat
  BY LensAreNat
<1>2. PICK f : Sums(h, s, Len(s), f)
  BY <1>1, SumsExist
<1> QED BY <1>2, LengthIsSum

LEMMA LengthType ==
    ASSUME NEW h \in Heaps, NEW s \in Seq(Pbufs)
    PROVE  ChainLength(h, s) \in Nat
<1>1. PICK f : Sums(h, s, Len(s), f) /\ ChainLength(h, s) = f[Len(s)]
  BY LengthSums
<1> QED BY <1>1 DEF Sums

\* A chain is as long as its first pbuf and the rest.
LEMMA LengthOfTail ==
    ASSUME NEW h \in Heaps, NEW s \in Seq(Pbufs), s # <<>>
    PROVE  ChainLength(h, s) = h[s[1]].len + ChainLength(h, Tail(s))
<1> DEFINE t == Tail(s)
           a == h[s[1]].len
<1>1. t \in Seq(Pbufs) /\ Len(t) = Len(s) - 1 /\ Len(s) \in Nat \ {0} /\ Len(t) \in Nat
      /\ \A i \in 1 .. Len(t) : t[i] = s[i + 1]
  OBVIOUS
<1>2. a \in Nat
  BY <1>1, LensAreNat
<1>3. PICK f : Sums(h, t, Len(t), f) /\ ChainLength(h, t) = f[Len(t)]
  BY <1>1, LengthSums
<1> DEFINE g == [i \in 0 .. Len(s) |-> IF i = 0 THEN 0 ELSE a + f[i - 1]]
<1> HIDE DEF t
<1>4. f \in [0 .. Len(t) -> Nat] /\ f[0] = 0 /\ \A i \in 1 .. Len(t) : f[i] = f[i - 1] + h[t[i]].len
  BY <1>3 DEF Sums
<1>5. Sums(h, s, Len(s), g)
  <2>1. g \in [0 .. Len(s) -> Nat] /\ g[0] = 0
    <3> HIDE DEF a
    <3> QED BY <1>1, <1>2, <1>4
  <2>2. ASSUME NEW i \in 1 .. Len(s) PROVE g[i] = g[i - 1] + h[s[i]].len
    <3>1. CASE i = 1
      BY <1>1, <1>2, <1>4, <3>1
    <3>2. CASE i # 1
      <4>1. i - 1 \in 1 .. Len(t) /\ t[i - 1] = s[i] /\ (i - 1) - 1 \in 0 .. Len(t)
        BY <1>1, <3>2
      <4>2. f[i - 1] = f[(i - 1) - 1] + h[s[i]].len
        BY <1>4, <4>1
      <4>3. f[(i - 1) - 1] \in Nat /\ h[s[i]].len \in Nat
        BY <1>4, <4>1, LensAreNat
      <4>4. g[i] = a + f[i - 1] /\ g[i - 1] = a + f[(i - 1) - 1]
        BY <3>2
      <4> HIDE DEF a, g
      <4> QED BY <1>2, <4>2, <4>3, <4>4
    <3> QED BY <3>1, <3>2
  <2> HIDE DEF g
  <2> QED BY <2>1, <2>2 DEF Sums
<1>6. ChainLength(h, s) = g[Len(s)]
  BY <1>5, LengthIsSum
<1>7. g[Len(s)] = a + f[Len(t)]
  BY <1>1
<1> QED BY <1>3, <1>6, <1>7 DEF t

\* Two chains, one behind the other.
LEMMA LengthOfConcat ==
    ASSUME NEW h \in Heaps, NEW s \in Seq(Pbufs), NEW t \in Seq(Pbufs)
    PROVE  ChainLength(h, s \o t) = ChainLength(h, s) + ChainLength(h, t)
<1> DEFINE u == s \o t
<1>1. /\ u \in Seq(Pbufs) /\ Len(u) = Len(s) + Len(t) /\ Len(s) \in Nat /\ Len(t) \in Nat
      /\ \A i \in 1 .. Len(u) : u[i] = IF i <= Len(s) THEN s[i] ELSE t[i - Len(s)]
  BY ConcatProperties
<1>2. PICK f : Sums(h, s, Len(s), f) /\ ChainLength(h, s) = f[Len(s)]
  BY LengthSums
<1>3. PICK g : Sums(h, t, Len(t), g) /\ ChainLength(h, t) = g[Len(t)]
  BY LengthSums
<1> DEFINE k == Len(s)
           e == [i \in 0 .. Len(u) |-> IF i <= k THEN f[i] ELSE f[k] + g[i - k]]
<1> HIDE DEF u
<1>4. f \in [0 .. k -> Nat] /\ f[0] = 0 /\ \A i \in 1 .. k : f[i] = f[i - 1] + h[s[i]].len
  BY <1>2 DEF Sums
<1>5. /\ g \in [0 .. Len(t) -> Nat] /\ g[0] = 0
      /\ \A i \in 1 .. Len(t) : g[i] = g[i - 1] + h[t[i]].len
  BY <1>3 DEF Sums
<1>6. k \in Nat /\ Len(t) \in Nat /\ Len(u) = k + Len(t) /\ f[k] \in Nat
  <2>1. k \in Nat /\ Len(t) \in Nat /\ Len(u) = k + Len(t)
    BY <1>1
  <2> HIDE DEF k, e
  <2>2. k \in 0 .. k
    BY <2>1
  <2> QED BY <1>4, <2>1, <2>2
<1> HIDE DEF k
<1>7. \A i \in 0 .. Len(u) : i <= k => e[i] = f[i]
  OBVIOUS
<1>8. \A i \in 0 .. Len(u) : i >= k => i - k \in 0 .. Len(t) /\ e[i] = f[k] + g[i - k]
  BY <1>4, <1>5, <1>6
<1>9. Sums(h, u, Len(u), e)
  <2>1. e \in [0 .. Len(u) -> Nat]
    BY <1>4, <1>5, <1>6
  <2>2. e[0] = 0
    BY <1>4, <1>6, <1>7
  <2> HIDE DEF e
  <2>3. ASSUME NEW i \in 1 .. Len(u) PROVE e[i] = e[i - 1] + h[u[i]].len
    <3>1. CASE i <= k
      <4>1. e[i] = f[i] /\ e[i - 1] = f[i - 1] /\ i \in 1 .. k
        BY <1>6, <1>7, <3>1
      <4>2. u[i] = s[i]
        BY <1>1, <3>1 DEF k
      <4> QED BY <1>4, <4>1, <4>2
    <3>2. CASE i > k
      <4>1. i - k \in 1 .. Len(t) /\ (i - k) - 1 = (i - 1) - k
        BY <1>6, <3>2
      <4>2. u[i] = t[i - k]
        BY <1>1, <3>2 DEF k
      <4>3. g[i - k] = g[(i - 1) - k] + h[u[i]].len
        BY <1>5, <4>1, <4>2
      <4>4. e[i] = f[k] + g[i - k] /\ e[i - 1] = f[k] + g[(i - 1) - k]
        BY <1>6, <1>8, <3>2
      <4>5. g[(i - 1) - k] \in Nat
        <5>1. (i - 1) - k \in 0 .. Len(t)
          BY <1>6, <4>1
        <5> QED BY <1>5, <5>1
      <4>6. h[u[i]].len \in Nat
        BY <1>1, LensAreNat
      <4>7. \A x, y, z \in Nat : x + (y + z) = (x + y) + z
        OBVIOUS
      <4>8. f[k] + (g[(i - 1) - k] + h[u[i]].len) = (f[k] + g[(i - 1) - k]) + h[u[i]].len
        BY <1>6, <4>5, <4>6, <4>7
      <4> QED BY <4>3, <4>4, <4>8
    <3> QED BY <1>6, <3>1, <3>2
  <2> QED BY <2>1, <2>2, <2>3 DEF Sums
<1>10. ChainLength(h, u) = e[Len(u)]
  BY <1>1, <1>9, LengthIsSum
<1>11. e[Len(u)] = f[k] + g[Len(t)]
  <2>1. Len(u) \in 0 .. Len(u) /\ Len(u) >= k /\ Len(u) - k = Len(t)
    BY <1>6
  <2> HIDE DEF e
  <2> QED BY <1>8, <2>1
<1> QED BY <1>2, <1>3, <1>10, <1>11 DEF u, k

\* Only the lengths of a chain's own pbufs matter.
LEMMA LengthAgrees ==
    ASSUME NEW h \in Heaps, NEW g \in Heaps, NEW s \in Seq(Pbufs),
           \A i \in 1 .. Len(s) : h[s[i]].len = g[s[i]].len
    PROVE  ChainLength(h, s) = ChainLength(g, s)
<1>1. PICK f : Sums(h, s, Len(s), f) /\ ChainLength(h, s) = f[Len(s)]
  BY LengthSums
<1>2. Sums(g, s, Len(s), f)
  BY <1>1 DEF Sums
<1> QED BY <1>1, <1>2, LengthIsSum

LEMMA LengthOfNone == ASSUME NEW h \in Heaps PROVE ChainLength(h, <<>>) = 0
<1>1. Sums(h, <<>>, 0, [i \in 0 .. 0 |-> 0]) /\ <<>> \in Seq(Pbufs) /\ Len(<<>>) = 0
  BY DEF Sums
<1> QED BY <1>1, LengthIsSum

LEMMA LengthOfOne ==
    ASSUME NEW h \in Heaps, NEW p \in Pbufs
    PROVE  ChainLength(h, <<p>>) = h[p].len
<1>1. <<p>> \in Seq(Pbufs) /\ <<p>> # <<>> /\ Tail(<<p>>) = <<>> /\ <<p>>[1] = p
  OBVIOUS
<1>2. h[p].len \in Nat
  BY DEF Heaps, PbufRecord
<1>3. ChainLength(h, <<p>>) = h[p].len + ChainLength(h, <<>>)
  BY <1>1, LengthOfTail
<1> QED BY <1>2, <1>3, LengthOfNone

LEMMA LengthOfTwo ==
    ASSUME NEW h \in Heaps, NEW p \in Pbufs, NEW q \in Pbufs
    PROVE  ChainLength(h, <<p, q>>) = h[p].len + h[q].len
<1>1. <<p, q>> \in Seq(Pbufs) /\ <<p, q>> # <<>> /\ Tail(<<p, q>>) = <<q>> /\ <<p, q>>[1] = p
  OBVIOUS
<1> QED BY <1>1, LengthOfTail, LengthOfOne
-----------------------------------------------------------------------------
(* Contents.                                                               *)

\* The bytes of one pbuf.
Payload(r) == [j \in 1 .. r.len |-> r.body]

LEMMA PayloadType ==
    ASSUME NEW S, NEW r, r.len \in Nat, r.body \in S
    PROVE  Payload(r) \in Seq(S) /\ Len(Payload(r)) = r.len
BY DEF Payload

\* One more pbuf, and what the bytes are up to each pbuf of a chain.
With(h, z, p) == z \o Payload(h[p])
Runs(h, s, f) ==
    /\ DOMAIN f = 0 .. Len(s)
    /\ f[0] = <<>>
    /\ \A i \in 1 .. Len(s) : f[i] = With(h, f[i - 1], s[i])

\* The recursive definition of Contents, given that some function is as it says.
LEMMA ContentsIsLast ==
    ASSUME NEW h, NEW s \in Seq(Pbufs), NEW f, Runs(h, s, f),
           f = [i \in 0 .. Len(s) |-> f[i]]
    PROVE  \E g : Contents(h, s) = g[Len(s)] /\ Runs(h, s, g)
<1> DEFINE n == Len(s)
           Def(g) == g = [i \in 0 .. n |-> IF i = 0 THEN <<>> ELSE With(h, g[i - 1], s[i])]
           bytes[i \in 0 .. n] == IF i = 0 THEN <<>> ELSE With(h, bytes[i - 1], s[i])
<1>1. n \in Nat
  OBVIOUS
<1>2. Contents(h, s) = bytes[n]
  BY DEF Contents, Payload, With
<1>3. bytes = CHOOSE g : Def(g)
  OBVIOUS
<1> DEFINE none == <<>>
<1>e. /\ DOMAIN f = 0 .. n /\ f[0] = none
      /\ \A i \in 1 .. n : f[i] = With(h, f[i - 1], s[i])
  BY DEF Runs
<1> HIDE DEF n, bytes, none
<1>4. Def(f)
  <2> DEFINE e(i) == IF i = 0 THEN none ELSE With(h, f[i - 1], s[i])
  <2>1. \A i \in 0 .. n : i = 0 \/ i \in 1 .. n
    BY <1>1
  <2>2. \A i \in 0 .. n : f[i] = e(i)
    BY <1>e, <2>1
  <2> HIDE DEF e
  <2>3. f = [i \in 0 .. n |-> e(i)]
    BY <2>2 DEF n
  <2> QED BY <2>3 DEF e, none
<1>5. bytes = [i \in 0 .. n |-> IF i = 0 THEN none ELSE With(h, bytes[i - 1], s[i])]
  <2>1. Def(bytes)
    <3> HIDE DEF Def
    <3> QED BY <1>3, <1>4
  <2> QED BY <2>1 DEF none
<1>6. bytes[0] = none /\ \A i \in 1 .. n : bytes[i] = With(h, bytes[i - 1], s[i])
  <2> DEFINE e(i) == IF i = 0 THEN none ELSE With(h, bytes[i - 1], s[i])
  <2>1. 0 \in 0 .. n /\ \A i \in 1 .. n : i \in 0 .. n /\ i # 0
    BY <1>1
  <2>2. e(0) = none /\ \A i \in 1 .. n : e(i) = With(h, bytes[i - 1], s[i])
    BY <2>1
  <2>3. bytes = [i \in 0 .. n |-> e(i)]
    BY <1>5
  <2> HIDE DEF e
  <2>4. \A i \in 0 .. n : bytes[i] = e(i)
    BY <2>3
  <2> QED BY <2>1, <2>2, <2>4
<1>7. DOMAIN bytes = 0 .. n
  BY <1>5
<1> QED BY <1>2, <1>6, <1>7 DEF n, Runs, none

\* What is in no pbuf, in one, and in two.
LEMMA ContentsOfNone == ASSUME NEW h PROVE Contents(h, <<>>) = <<>>
<1> DEFINE s == <<>>
<1>1. s \in Seq(Pbufs) /\ Len(s) = 0
  OBVIOUS
<1> HIDE DEF s
<1>2. PICK f : f = [i \in 0 .. 0 |-> <<>>]
  OBVIOUS
<1>3. Runs(h, s, f) /\ f = [i \in 0 .. Len(s) |-> f[i]]
  BY <1>1, <1>2 DEF Runs
<1>4. PICK g : Contents(h, s) = g[Len(s)] /\ g[0] = <<>>
  BY <1>1, <1>3, ContentsIsLast DEF Runs
<1> QED BY <1>1, <1>4 DEF s

LEMMA ContentsOfOne ==
    ASSUME NEW h \in Heaps, NEW p \in Pbufs
    PROVE  Contents(h, <<p>>) = Payload(h[p])
<1> DEFINE s == <<p>>
           x == Payload(h[p])
<1>1. x \in Seq(Bodies)
  BY PayloadType DEF Heaps, PbufRecord
<1>2. s \in Seq(Pbufs) /\ Len(s) = 1 /\ s[1] = p
  OBVIOUS
<1> HIDE DEF x, s
<1>3. With(h, <<>>, p) = x
  BY <1>1, ConcatEmptySeq DEF With, x
<1>4. PICK f : f = [i \in 0 .. 1 |-> IF i = 0 THEN <<>> ELSE x]
  OBVIOUS
<1>5. f[0] = <<>> /\ f[1] = x /\ DOMAIN f = 0 .. 1
  BY <1>4
<1>6. Runs(h, s, f)
  <2>1. \A i \in 1 .. 1 : i = 1 /\ i - 1 = 0
    OBVIOUS
  <2> QED BY <1>2, <1>3, <1>5, <2>1 DEF Runs
<1>a. f = [i \in 0 .. Len(s) |-> f[i]]
  BY <1>2, <1>4
<1>7. PICK g : Contents(h, s) = g[Len(s)] /\ Runs(h, s, g)
  BY <1>2, <1>6, <1>a, ContentsIsLast
<1>8. g[0] = <<>> /\ g[1] = With(h, g[0], s[1])
  <2>1. 1 \in 1 .. Len(s) /\ 1 - 1 = 0
    BY <1>2
  <2> QED BY <1>7, <2>1 DEF Runs
<1> QED BY <1>2, <1>3, <1>7, <1>8 DEF s, x

LEMMA ContentsOfTwo ==
    ASSUME NEW h \in Heaps, NEW p \in Pbufs, NEW q \in Pbufs
    PROVE  Contents(h, <<p, q>>) = Payload(h[p]) \o Payload(h[q])
<1> DEFINE s == <<p, q>>
           x == Payload(h[p])
           y == With(h, x, q)
<1>1. x \in Seq(Bodies)
  BY PayloadType DEF Heaps, PbufRecord
<1>2. s \in Seq(Pbufs) /\ Len(s) = 2 /\ s[1] = p /\ s[2] = q
  OBVIOUS
<1> HIDE DEF x, y, s
<1>3. With(h, <<>>, p) = x
  BY <1>1, ConcatEmptySeq DEF With, x
<1>4. PICK f : f = [i \in 0 .. 2 |-> IF i = 0 THEN <<>> ELSE IF i = 1 THEN x ELSE y]
  OBVIOUS
<1>5. f[0] = <<>> /\ f[1] = x /\ f[2] = y /\ DOMAIN f = 0 .. 2
  BY <1>4
<1>6. Runs(h, s, f)
  <2>1. \A i \in 1 .. 2 : (i = 1 /\ i - 1 = 0) \/ (i = 2 /\ i - 1 = 1)
    OBVIOUS
  <2>2. y = With(h, x, q)
    BY DEF y
  <2> QED BY <1>2, <1>3, <1>5, <2>1, <2>2 DEF Runs
<1>a. f = [i \in 0 .. Len(s) |-> f[i]]
  BY <1>2, <1>4
<1>7. PICK g : Contents(h, s) = g[Len(s)] /\ Runs(h, s, g)
  BY <1>2, <1>6, <1>a, ContentsIsLast
<1>8. g[0] = <<>> /\ g[1] = With(h, g[0], s[1]) /\ g[2] = With(h, g[1], s[2])
  <2>1. 1 \in 1 .. Len(s) /\ 1 - 1 = 0 /\ 2 \in 1 .. Len(s) /\ 2 - 1 = 1
    BY <1>2
  <2> QED BY <1>7, <2>1 DEF Runs
<1>9. Contents(h, s) = With(h, x, q)
  BY <1>2, <1>3, <1>7, <1>8
<1> QED BY <1>9 DEF s, x, With

-----------------------------------------------------------------------------
(* Taking the first pbuf off.                                              *)

Distinct(s) == \A i, j \in 1 .. Len(s) : s[i] = s[j] => i = j

LEMMA SetRef ==
    ASSUME NEW r \in PbufRecord, NEW k \in Nat
    PROVE  /\ [r EXCEPT !.ref = k] \in PbufRecord
           /\ [r EXCEPT !.ref = k].ref = k
           /\ [[r EXCEPT !.ref = k] EXCEPT !.ref = r.ref] = r
BY DEF PbufRecord

LEMMA TotUp ==
    ASSUME NEW r \in PbufRecord, NEW k \in Nat
    PROVE  [r EXCEPT !.tot = @ + k] \in PbufRecord /\ [r EXCEPT !.tot = @ + k].tot = r.tot + k
<1>1. r.tot \in Nat /\ r.tot + k \in Nat
  BY DEF PbufRecord
<1> QED BY <1>1 DEF PbufRecord

LEMMA RefUp ==
    ASSUME NEW r \in PbufRecord
    PROVE  /\ [r EXCEPT !.ref = @ + 1] \in PbufRecord
           /\ [r EXCEPT !.ref = @ + 1].ref = r.ref + 1
           /\ [[r EXCEPT !.ref = @ + 1] EXCEPT !.ref = @ - 1] = r
           /\ [r EXCEPT !.ref = 1].ref = 1
<1>1. r.ref \in Nat /\ r.ref + 1 \in Nat
  BY DEF PbufRecord
<1> DEFINE k == r.ref + 1
           up == [r EXCEPT !.ref = k]
<1>2. up \in PbufRecord /\ up.ref = k /\ [up EXCEPT !.ref = r.ref] = r
  BY <1>1, SetRef
<1>3. up.ref - 1 = r.ref
  BY <1>1, <1>2
<1>4. [r EXCEPT !.ref = 1].ref = 1
  BY SetRef
<1>5. [up EXCEPT !.ref = up.ref - 1] = r
  BY <1>2, <1>3
<1> QED BY <1>2, <1>4, <1>5

\* Taking the first pbuf off a chain frees it and leaves all others alone: the
\* reference the next one gets is the one the first one's end takes away.
LEMMA ChopFirstFrees ==
    ASSUME NEW h \in Heaps, NEW s \in Seq(Pbufs), s # <<>>, Distinct(s),
           \A i \in 1 .. Len(s) : h[s[i]].ref > 0
    PROVE  ChopFirst(h, s) = [h EXCEPT ![s[1]] = FreePbuf]
<1> DEFINE h1 == RefNext(h, s)
           h2 == [h1 EXCEPT ![Head(s)].ref = 1]
           loses(i) == \A j \in 1 .. i - 1 : h2[s[j]].ref = 1
<1>1. /\ Len(s) \in Nat \ {0} /\ DOMAIN s = 1 .. Len(s) /\ Head(s) = s[1]
      /\ \A i \in 1 .. Len(s) : s[i] \in Pbufs
  OBVIOUS
<1>2. \A q \in Pbufs : /\ h[q] \in PbufRecord
                       /\ h[q] = [len |-> h[q].len, tot |-> h[q].tot, ref |-> h[q].ref, body |-> h[q].body]
  BY DEF Heaps, PbufRecord
<1>3. h1 = IF Len(s) = 1 THEN h ELSE [h EXCEPT ![s[2]].ref = @ + 1]
  BY DEF RefNext, pbuf_ref
<1>a. h1 \in [Pbufs -> PbufRecord]
  <2>1. CASE Len(s) = 1
    BY <1>3, <2>1 DEF Heaps
  <2>2. CASE Len(s) # 1
    <3>1. s[2] \in Pbufs
      BY <1>1, <2>2
    <3>2. h[s[2]] \in PbufRecord
      BY <1>2, <3>1
    <3>3. [h[s[2]] EXCEPT !.ref = @ + 1] \in PbufRecord
      BY <3>2, RefUp
    <3> QED BY <1>3, <2>2, <3>1, <3>3 DEF Heaps
  <2> QED BY <2>1, <2>2
<1>4. /\ h2[s[1]].ref = 1
      /\ \A q \in Pbufs : q # s[1] => h2[q] = h1[q]
  <2>1. s[1] \in Pbufs /\ h1[s[1]] \in PbufRecord
    BY <1>1, <1>a
  <2>2. h2[s[1]] = [h1[s[1]] EXCEPT !.ref = 1]
    BY <1>1, <1>a, <2>1
  <2>3. \A q \in Pbufs : q # s[1] => h2[q] = h1[q]
    BY <1>1, <1>a
  <2> QED BY <2>1, <2>2, <2>3, RefUp
<1>5. ChopFirst(h, s) = [q \in Pbufs |->
          IF \E i \in DOMAIN s : s[i] = q /\ loses(i)
          THEN IF h2[q].ref = 1 THEN FreePbuf ELSE [h2[q] EXCEPT !.ref = @ - 1]
          ELSE h2[q]]
  BY DEF ChopFirst, FreeUntilFreed, pbuf_free
<1> HIDE DEF h1, h2
<1>6. ASSUME NEW q \in Pbufs PROVE ChopFirst(h, s)[q] = [h EXCEPT ![s[1]] = FreePbuf][q]
  <2>1. CASE q = s[1]
    <3>1. loses(1)
      OBVIOUS
    <3> QED BY <1>1, <1>4, <1>5, <2>1, <3>1 DEF Heaps
  <2>2. CASE q # s[1] /\ Len(s) >= 2 /\ q = s[2]
    <3>1. loses(2)
      BY <1>4
    <3>2. h1[q] = [h[q] EXCEPT !.ref = @ + 1]
      BY <1>1, <1>3, <2>2 DEF Heaps
    <3>3. h2[q] = [h[q] EXCEPT !.ref = @ + 1] /\ h[q].ref \in Nat /\ h[q].ref > 0
      <4>1. h2[q] = h1[q]
        BY <1>4, <2>2
      <4>2. h[q].ref > 0
        BY <2>2
      <4> QED BY <1>2, <3>2, <4>1, <4>2 DEF PbufRecord
    <3>4. h2[q].ref = h[q].ref + 1
      BY <1>2, <3>3, RefUp
    <3>5. h2[q].ref # 1
      BY <3>3, <3>4
    <3>x. [h2[q] EXCEPT !.ref = @ - 1] = h[q]
      BY <1>2, <3>3, RefUp
    <3>6. \E i \in DOMAIN s : s[i] = q /\ loses(i)
      BY <1>1, <2>2, <3>1
    <3> HIDE DEF loses
    <3> QED BY <1>5, <2>2, <3>5, <3>x, <3>6 DEF Heaps
  <2>3. CASE q # s[1] /\ (Len(s) >= 2 => q # s[2])
    <3>1. h2[q] = h[q]
      BY <1>1, <1>3, <1>4, <2>3 DEF Heaps
    <3>2. ASSUME NEW i \in DOMAIN s, s[i] = q, loses(i) PROVE FALSE
      <4>1. i \in 3 .. Len(s)
        BY <1>1, <2>3, <3>2
      <4>2. h2[s[2]].ref = 1
        BY <3>2, <4>1
      <4>3. s[2] # s[1] /\ s[2] \in Pbufs
        BY <1>1, <4>1 DEF Distinct
      <4>4. h2[s[2]] = [h[s[2]] EXCEPT !.ref = @ + 1] /\ h[s[2]].ref > 0
        <5>1. Len(s) >= 2 /\ h2[s[2]] = h1[s[2]]
          BY <1>1, <1>4, <4>1, <4>3
        <5> QED BY <1>1, <1>3, <4>3, <5>1 DEF Heaps
      <4>5. h2[s[2]].ref = h[s[2]].ref + 1 /\ h[s[2]].ref \in Nat
        BY <1>2, <4>3, <4>4, RefUp DEF PbufRecord
      <4> QED BY <4>2, <4>4, <4>5
    <3> HIDE DEF loses
    <3> QED BY <1>5, <2>3, <3>1, <3>2 DEF Heaps
  <2> QED BY <2>1, <2>2, <2>3
<1>7. ChopFirst(h, s) = [q \in Pbufs |-> ChopFirst(h, s)[q]]
  BY <1>5
<1>8. [h EXCEPT ![s[1]] = FreePbuf] = [q \in Pbufs |-> [h EXCEPT ![s[1]] = FreePbuf][q]]
  BY DEF Heaps
<1> QED BY <1>6, <1>7, <1>8

-----------------------------------------------------------------------------
(* What belongs to a chain.                                                *)

LEMMA MembersOfNone == Members(<<>>) = {}
BY DEF Members

LEMMA MembersOfOne ==
    ASSUME NEW S, NEW p \in S
    PROVE  /\ <<p>> \in Seq(S) /\ Members(<<p>>) = {p} /\ Tail(<<p>>) = <<>>
           /\ Tail(<<p>>) \in Seq(S) /\ <<p>> # <<>>
BY DEF Members

LEMMA MembersOfTwo ==
    ASSUME NEW S, NEW p \in S, NEW q \in S
    PROVE  /\ <<p, q>> \in Seq(S) /\ Members(<<p, q>>) = {p, q} /\ Tail(<<p, q>>) = <<q>>
           /\ Tail(<<p, q>>) \in Seq(S) /\ <<p, q>> # <<>>
<1> DEFINE s == <<p, q>>
<1>1. s \in Seq(S) /\ Tail(s) = <<q>> /\ <<q>> \in Seq(S) /\ s # <<>>
  OBVIOUS
<1>2. DOMAIN s = {1, 2} /\ s[1] = p /\ s[2] = q
  OBVIOUS
<1>3. Members(s) = {p, q}
  <2> HIDE DEF s
  <2> QED BY <1>2 DEF Members
<1> QED BY <1>1, <1>3

LEMMA MembersArePbufs ==
    ASSUME NEW s \in Seq(Pbufs)
    PROVE  Members(s) \subseteq Pbufs /\ \A i \in 1 .. Len(s) : s[i] \in Members(s)
BY DEF Members

LEMMA MembersOfTail ==
    ASSUME NEW s \in Seq(Pbufs), s # <<>>, Distinct(s)
    PROVE  /\ Tail(s) \in Seq(Pbufs) /\ Distinct(Tail(s))
           /\ s[1] \in Pbufs /\ Head(s) = s[1]
           /\ Members(Tail(s)) = Members(s) \ {s[1]}
<1> DEFINE t == Tail(s)
<1>1. /\ t \in Seq(Pbufs) /\ Len(t) = Len(s) - 1 /\ Len(s) \in Nat \ {0} /\ Head(s) = s[1]
      /\ \A i \in 1 .. Len(t) : t[i] = s[i + 1]
  OBVIOUS
<1>2. DOMAIN s = 1 .. Len(s) /\ DOMAIN t = 1 .. Len(t) /\ s[1] \in Pbufs
  BY <1>1
<1> HIDE DEF t
<1>3. Distinct(t)
  <2>1. ASSUME NEW i \in 1 .. Len(t), NEW j \in 1 .. Len(t), t[i] = t[j] PROVE i = j
    <3>1. i + 1 \in 1 .. Len(s) /\ j + 1 \in 1 .. Len(s) /\ s[i + 1] = s[j + 1]
      BY <1>1, <2>1
    <3> QED BY <3>1 DEF Distinct
  <2> QED BY <2>1 DEF Distinct
<1>4. ASSUME NEW q \in Members(t) PROVE q \in Members(s) \ {s[1]}
  <2>1. PICK i \in 1 .. Len(t) : q = t[i]
    BY <1>2 DEF Members
  <2>2. i + 1 \in 1 .. Len(s) /\ q = s[i + 1] /\ i + 1 # 1
    BY <1>1, <2>1
  <2> QED BY <1>1, <1>2, <2>2 DEF Members, Distinct
<1>5. ASSUME NEW q \in Members(s), q # s[1] PROVE q \in Members(t)
  <2>1. PICK i \in 1 .. Len(s) : q = s[i]
    BY <1>2 DEF Members
  <2>2. i - 1 \in 1 .. Len(t) /\ q = t[i - 1]
    BY <1>1, <1>5, <2>1
  <2> QED BY <1>2, <2>2 DEF Members
<1> QED BY <1>1, <1>2, <1>3, <1>4, <1>5 DEF t

LEMMA MembersOfConcat ==
    ASSUME NEW s \in Seq(Pbufs), NEW t \in Seq(Pbufs)
    PROVE  /\ s \o t \in Seq(Pbufs) /\ Len(s \o t) = Len(s) + Len(t)
           /\ Members(s \o t) = Members(s) \cup Members(t)
           /\ Distinct(s) /\ Distinct(t) /\ Members(s) \cap Members(t) = {} => Distinct(s \o t)
<1> DEFINE u == s \o t
<1>1. /\ u \in Seq(Pbufs) /\ Len(u) = Len(s) + Len(t) /\ Len(s) \in Nat /\ Len(t) \in Nat
      /\ \A i \in 1 .. Len(u) : u[i] = IF i <= Len(s) THEN s[i] ELSE t[i - Len(s)]
  BY ConcatProperties
<1> HIDE DEF u
<1>2. DOMAIN s = 1 .. Len(s) /\ DOMAIN t = 1 .. Len(t) /\ DOMAIN u = 1 .. Len(u)
  BY <1>1
<1>3. \A i \in 1 .. Len(s) : i \in 1 .. Len(u) /\ u[i] = s[i]
  BY <1>1
<1>4. \A i \in 1 .. Len(t) : i + Len(s) \in 1 .. Len(u) /\ u[i + Len(s)] = t[i]
  <2>1. SUFFICES ASSUME NEW i \in 1 .. Len(t)
                 PROVE  i + Len(s) \in 1 .. Len(u) /\ u[i + Len(s)] = t[i]
    OBVIOUS
  <2>2. PICK k : k = i + Len(s)
    OBVIOUS
  <2>3. k \in 1 .. Len(u) /\ ~ (k <= Len(s)) /\ k - Len(s) = i
    BY <1>1, <2>2
  <2>4. u[k] = t[k - Len(s)]
    BY <1>1, <2>3
  <2> QED BY <2>2, <2>3, <2>4
<1>5. Members(u) \subseteq Members(s) \cup Members(t)
  <2>1. SUFFICES ASSUME NEW i \in 1 .. Len(u) PROVE u[i] \in Members(s) \cup Members(t)
    BY <1>2 DEF Members
  <2>2. CASE i <= Len(s)
    BY <1>1, <1>2, <2>2 DEF Members
  <2>3. CASE i > Len(s)
    <3>1. i - Len(s) \in 1 .. Len(t) /\ u[i] = t[i - Len(s)]
      BY <1>1, <2>3
    <3> QED BY <1>2, <3>1 DEF Members
  <2> QED BY <1>1, <2>2, <2>3
<1>6. Members(s) \subseteq Members(u) /\ Members(t) \subseteq Members(u)
  BY <1>2, <1>3, <1>4 DEF Members
<1>7. ASSUME Distinct(s), Distinct(t), Members(s) \cap Members(t) = {} PROVE Distinct(u)
  <2>1. SUFFICES ASSUME NEW i \in 1 .. Len(u), NEW j \in 1 .. Len(u), u[i] = u[j] PROVE i = j
    BY DEF Distinct
  <2>2. CASE i <= Len(s) /\ j <= Len(s)
    BY <1>1, <1>7, <2>1, <2>2 DEF Distinct
  <2>3. CASE i > Len(s) /\ j > Len(s)
    <3>1. /\ i - Len(s) \in 1 .. Len(t) /\ j - Len(s) \in 1 .. Len(t)
          /\ t[i - Len(s)] = t[j - Len(s)]
      BY <1>1, <2>1, <2>3
    <3>2. i - Len(s) = j - Len(s)
      BY <1>7, <3>1 DEF Distinct
    <3> QED BY <1>1, <3>2
  <2>4. ASSUME NEW a \in 1 .. Len(u), NEW b \in 1 .. Len(u), a <= Len(s), b > Len(s), u[a] = u[b]
        PROVE  FALSE
    <3>1. u[a] \in Members(s)
      BY <1>1, <1>2, <2>4 DEF Members
    <3>2. b - Len(s) \in 1 .. Len(t) /\ u[b] = t[b - Len(s)]
      BY <1>1, <2>4
    <3>3. u[b] \in Members(t)
      BY <1>2, <3>2 DEF Members
    <3> QED BY <1>7, <2>4, <3>1, <3>3
  <2> QED BY <1>1, <2>1, <2>2, <2>3, <2>4
<1> QED BY <1>1, <1>5, <1>6, <1>7 DEF u

\* What is left of the pool and of the chain when the first pbuf has been taken.
LEMMA Chopped ==
    ASSUME NEW h \in Heaps, NEW s \in Seq(Pbufs), s # <<>>, Distinct(s),
           Members(s) \subseteq Allocated(h)
    PROVE  /\ ChopFirst(h, s) \in Heaps
           /\ Allocated(ChopFirst(h, s)) = Allocated(h) \ {s[1]}
           /\ \A q \in Pbufs \ {s[1]} : ChopFirst(h, s)[q] = h[q]
<1>1. /\ s[1] \in Pbufs
      /\ \A i \in 1 .. Len(s) : h[s[i]].ref > 0
  BY MembersOfTail, MembersArePbufs DEF Allocated
<1>2. ChopFirst(h, s) = [h EXCEPT ![s[1]] = FreePbuf]
  BY <1>1, ChopFirstFrees
<1>3. FreePbuf \in PbufRecord /\ FreePbuf.ref = 0
  BY BodiesAssumption DEF FreePbuf, PbufRecord
<1> QED BY <1>1, <1>2, <1>3 DEF Heaps, Allocated

\* The heap g is h with p allocated for n bytes of body b that begin a chain
\* of k bytes.
Delivered(g, h, p, n, k, b) ==
    /\ g \in Heaps
    /\ g[p].len = n /\ g[p].tot = k /\ g[p].body = b
    /\ \A q \in Pbufs \ {p} : g[q] = h[q]
    /\ Allocated(g) = Allocated(h) \cup {p}

\* What the driver does to the heap with a pbuf of a frame.
LEMMA ReceivedHeap ==
    ASSUME NEW h \in Heaps, NEW p \in Pbufs, NEW n \in Nat, NEW m \in Nat, NEW b \in Bodies
    PROVE  Delivered(Received(h, p, n, m, b), h, p, n, n + m, b)
<1> DEFINE r == [len |-> n, tot |-> n + m, ref |-> 1, body |-> b]
           g == [h EXCEPT ![p] = r]
<1>1. r \in PbufRecord /\ r.ref = 1 /\ r.len = n /\ r.tot = n + m /\ r.body = b
  BY DEF PbufRecord
<1>2. Received(h, p, n, m, b) = g
  BY DEF Received
<1> HIDE DEF r
<1>3. g \in Heaps /\ Allocated(g) = Allocated(h) \cup {p}
      /\ g[p] = r /\ \A q \in Pbufs \ {p} : g[q] = h[q]
  BY <1>1 DEF Heaps, Allocated
<1> HIDE DEF g
<1>4. Delivered(g, h, p, n, n + m, b)
  BY <1>1, <1>3 DEF Delivered
<1> QED BY <1>2, <1>4

\* ... and with one that is all of the chain.
LEMMA ReceivedAlone ==
    ASSUME NEW h \in Heaps, NEW p \in Pbufs, NEW n \in Nat, NEW b \in Bodies
    PROVE  Delivered(Received(h, p, n, 0, b), h, p, n, n, b)
<1>1. Delivered(Received(h, p, n, 0, b), h, p, n, n + 0, b)
  BY ReceivedHeap
<1>2. n + 0 = n
  OBVIOUS
<1> QED BY <1>1, <1>2

\* The heap g is h with a chain of p and q allocated, for n bytes of body b and
\* m of body d.
DeliveredTwo(g, h, p, n, b, q, m, d) ==
    /\ g \in Heaps
    /\ g[p].len = n /\ g[p].tot = n + m /\ g[p].body = b
    /\ g[q].len = m /\ g[q].tot = m /\ g[q].body = d
    /\ \A r \in Pbufs \ {p, q} : g[r] = h[r]
    /\ Allocated(g) = Allocated(h) \cup {p, q}

\* Two segments handed over as one chain, the second one in q.
LEMMA ReceivedTwo ==
    ASSUME NEW h \in Heaps, NEW p \in Pbufs, NEW q \in Pbufs, p # q, NEW n \in Nat, NEW m \in Nat,
           NEW b \in Bodies, NEW d \in Bodies
    PROVE  DeliveredTwo(Received(Received(h, q, m, 0, d), p, n, m, b), h, p, n, b, q, m, d)
<1>1. PICK e : e = Received(h, q, m, 0, d)
  OBVIOUS
<1>2. Delivered(e, h, q, m, m, d)
  BY <1>1, ReceivedAlone
<1>3. e \in Heaps
  BY <1>2 DEF Delivered
<1>4. Delivered(Received(e, p, n, m, b), e, p, n, n + m, b)
  BY <1>3, ReceivedHeap
<1>5. PICK g : g = Received(e, p, n, m, b)
  OBVIOUS
<1>6. Delivered(g, e, p, n, n + m, b)
  BY <1>4, <1>5
<1>7. g[q] = e[q]
  BY <1>6 DEF Delivered
<1>8. DeliveredTwo(g, h, p, n, b, q, m, d)
  BY <1>2, <1>6, <1>7 DEF Delivered, DeliveredTwo
<1> QED BY <1>1, <1>5, <1>8

\* pbuf_chain adds to the tot_len of the chain in front and to the reference
\* count of the one behind, and touches nothing else.
LEMMA ChainedHeap ==
    ASSUME NEW h \in Heaps, NEW s \in Seq(Pbufs), NEW t \in Seq(Pbufs), t # <<>>,
           Members(s) \cap Members(t) = {}, Members(t) \subseteq Allocated(h)
    PROVE  /\ pbuf_chain(h, s, t) \in Heaps
           /\ Allocated(pbuf_chain(h, s, t)) = Allocated(h)
           /\ \A q \in Pbufs : /\ pbuf_chain(h, s, t)[q].len = h[q].len
                               /\ pbuf_chain(h, s, t)[q].body = h[q].body
                               /\ pbuf_chain(h, s, t)[q].tot =
                                      IF q \in Members(s) THEN h[q].tot + h[t[1]].tot ELSE h[q].tot
                               /\ q \notin Members(s) \cup Members(t) => pbuf_chain(h, s, t)[q] = h[q]
<1> DEFINE k == h[t[1]].tot
           g == pbuf_cat(h, s, t)
           e == pbuf_chain(h, s, t)
<1>1. t[1] \in Pbufs /\ Head(t) = t[1] /\ t[1] \in Members(t) /\ k \in Nat /\ h[t[1]].ref > 0
  BY MembersArePbufs DEF Heaps, PbufRecord, Allocated
<1>2. g = [q \in Pbufs |-> IF q \in Members(s) THEN [h[q] EXCEPT !.tot = @ + k] ELSE h[q]]
  BY <1>1 DEF pbuf_cat
<1>3. e = [g EXCEPT ![t[1]].ref = @ + 1]
  BY <1>1 DEF pbuf_chain, pbuf_ref
<1> HIDE DEF k, g, e
<1>4. ASSUME NEW q \in Pbufs
      PROVE  /\ e[q] \in PbufRecord /\ e[q].len = h[q].len /\ e[q].body = h[q].body
             /\ e[q].tot = IF q \in Members(s) THEN h[q].tot + k ELSE h[q].tot
             /\ e[q].ref = IF q = t[1] THEN h[q].ref + 1 ELSE h[q].ref
             /\ q \notin Members(s) \cup Members(t) => e[q] = h[q]
  <2>1. h[q] \in PbufRecord
    BY DEF Heaps
  <2>2. CASE q \in Members(s)
    <3>1. q # t[1]
      BY <1>1, <2>2
    <3>2. e[q] = [h[q] EXCEPT !.tot = @ + k]
      BY <1>2, <1>3, <2>2, <3>1
    <3>3. e[q] \in PbufRecord /\ e[q].tot = h[q].tot + k
      BY <1>1, <2>1, <3>2, TotUp
    <3>4. e[q].len = h[q].len /\ e[q].body = h[q].body /\ e[q].ref = h[q].ref
      BY <2>1, <3>2 DEF PbufRecord
    <3> QED BY <1>1, <2>2, <3>1, <3>3, <3>4
  <2>3. CASE q = t[1]
    <3>1. q \notin Members(s) /\ q \in Members(t)
      BY <1>1, <2>3
    <3>2. e[q] = [h[q] EXCEPT !.ref = @ + 1]
      BY <1>2, <1>3, <2>3, <3>1
    <3> QED BY <2>1, <2>3, <3>1, <3>2 DEF PbufRecord
  <2>4. CASE q \notin Members(s) /\ q # t[1]
    <3>1. e[q] = h[q]
      BY <1>2, <1>3, <2>4
    <3> QED BY <2>1, <2>4, <3>1 DEF PbufRecord
  <2> QED BY <2>2, <2>3, <2>4
<1>5. e = [q \in Pbufs |-> e[q]]
  BY <1>2, <1>3
<1>6. e \in Heaps
  BY <1>4, <1>5 DEF Heaps
<1>7. Allocated(e) = Allocated(h)
  <2>1. \A q \in Pbufs : h[q].ref \in Nat
    BY DEF Heaps, PbufRecord
  <2>2. \A q \in Pbufs : e[q].ref > 0 <=> h[q].ref > 0
    BY <1>1, <1>4, <2>1
  <2> QED BY <2>2 DEF Allocated
<1> QED BY <1>4, <1>6, <1>7 DEF e, k

-----------------------------------------------------------------------------
(* What is left of a chain from its i-th pbuf on.                          *)

LEMMA RestOfTail ==
    ASSUME NEW s \in Seq(Pbufs), s # <<>>, NEW i \in 1 .. Len(Tail(s))
    PROVE  /\ i + 1 \in 1 .. Len(s) /\ Tail(s)[i] = s[i + 1]
           /\ SubSeq(Tail(s), i, Len(Tail(s))) = SubSeq(s, i + 1, Len(s))
<1> DEFINE t == Tail(s)
<1>1. /\ t \in Seq(Pbufs) /\ Len(t) = Len(s) - 1 /\ Len(s) \in Nat \ {0}
      /\ \A j \in 1 .. Len(t) : t[j] = s[j + 1]
  OBVIOUS
<1> HIDE DEF t
<1>2. i \in 1 .. Len(t) /\ i + 1 \in 1 .. Len(s)
  BY <1>1 DEF t
<1>3. SubSeq(t, i, Len(t)) = SubSeq(s, i + 1, Len(s))
  <2>1. /\ SubSeq(t, i, Len(t)) \in Seq(Pbufs) /\ Len(SubSeq(t, i, Len(t))) = Len(t) - i + 1
        /\ \A j \in 1 .. Len(t) - i + 1 : SubSeq(t, i, Len(t))[j] = t[i + j - 1]
    BY <1>1, <1>2, SubSeqProperties
  <2>2. /\ SubSeq(s, i + 1, Len(s)) \in Seq(Pbufs)
        /\ Len(SubSeq(s, i + 1, Len(s))) = Len(s) - (i + 1) + 1
        /\ \A j \in 1 .. Len(s) - (i + 1) + 1 : SubSeq(s, i + 1, Len(s))[j] = s[(i + 1) + j - 1]
    BY <1>1, <1>2, SubSeqProperties
  <2>3. ASSUME NEW j \in 1 .. Len(t) - i + 1
        PROVE  SubSeq(t, i, Len(t))[j] = SubSeq(s, i + 1, Len(s))[j]
    <3>1. i + j - 1 \in 1 .. Len(t) /\ (i + j - 1) + 1 = (i + 1) + j - 1
      BY <1>1, <1>2
    <3>2. t[i + j - 1] = s[(i + 1) + j - 1]
      BY <1>1, <3>1
    <3> QED BY <1>1, <1>2, <2>1, <2>2, <3>2
  <2>4. Len(t) - i + 1 = Len(s) - (i + 1) + 1
    BY <1>1, <1>2
  <2> QED BY <2>1, <2>2, <2>3, <2>4, SeqEqual
<1> QED BY <1>1, <1>2, <1>3 DEF t

LEMMA SuffixType ==
    ASSUME NEW s \in Seq(Pbufs), NEW i \in 1 .. Len(s)
    PROVE  /\ SubSeq(s, i, Len(s)) \in Seq(Pbufs)
           /\ Len(SubSeq(s, i, Len(s))) = Len(s) - i + 1
           /\ \A j \in 1 .. Len(s) - i + 1 : SubSeq(s, i, Len(s))[j] = s[i + j - 1]
<1>1. Len(s) \in Nat /\ \A j \in i .. Len(s) : s[j] \in Pbufs
  BY LenProperties
<1>2. SubSeq(s, i, Len(s)) \in Seq(Pbufs) /\ Len(SubSeq(s, i, Len(s))) = Len(s) - i + 1
  BY <1>1, SubSeqProperties
<1>3. ASSUME NEW j \in 1 .. Len(s) - i + 1 PROVE SubSeq(s, i, Len(s))[j] = s[i + j - 1]
  BY <1>1, SubSeqProperties
<1> QED BY <1>2, <1>3

LEMMA RestOfFront ==
    ASSUME NEW s \in Seq(Pbufs), NEW t \in Seq(Pbufs), NEW i \in 1 .. Len(s)
    PROVE  SubSeq(s \o t, i, Len(s) + Len(t)) = SubSeq(s, i, Len(s)) \o t
<1> DEFINE u == s \o t
           a == SubSeq(s, i, Len(s))
           l == SubSeq(u, i, Len(u))
           r == a \o t
<1>1. /\ u \in Seq(Pbufs) /\ Len(u) = Len(s) + Len(t) /\ Len(s) \in Nat /\ Len(t) \in Nat
      /\ \A j \in 1 .. Len(s) + Len(t) : u[j] = IF j <= Len(s) THEN s[j] ELSE t[j - Len(s)]
  BY ConcatProperties
<1>2. /\ a \in Seq(Pbufs) /\ Len(a) = Len(s) - i + 1
      /\ \A j \in 1 .. Len(s) - i + 1 : a[j] = s[i + j - 1]
  BY SuffixType
<1> HIDE DEF u, a
<1>3. i \in 1 .. Len(u)
  BY <1>1
<1>4. l \in Seq(Pbufs) /\ Len(l) = Len(u) - i + 1 /\ \A j \in 1 .. Len(u) - i + 1 : l[j] = u[i + j - 1]
  BY <1>1, <1>3, SuffixType
<1>5. /\ r \in Seq(Pbufs) /\ Len(r) = Len(a) + Len(t)
      /\ \A j \in 1 .. Len(a) + Len(t) : r[j] = IF j <= Len(a) THEN a[j] ELSE t[j - Len(a)]
  BY <1>2, ConcatProperties
<1> HIDE DEF l, r
<1>6. Len(l) = Len(r)
  BY <1>1, <1>2, <1>4, <1>5
<1>7. ASSUME NEW j \in 1 .. Len(l) PROVE l[j] = r[j]
  <2>1. l[j] = u[i + j - 1] /\ i + j - 1 \in 1 .. Len(s) + Len(t)
    BY <1>1, <1>3, <1>4
  <2>2. CASE j <= Len(a)
    <3>1. i + j - 1 <= Len(s) /\ j \in 1 .. Len(s) - i + 1
      BY <1>1, <1>2, <2>2
    <3>2. u[i + j - 1] = s[i + j - 1]
      BY <1>1, <2>1, <3>1
    <3>3. r[j] = a[j]
      <4>1. j \in 1 .. Len(a) + Len(t)
        BY <1>5, <1>6
      <4> QED BY <1>5, <2>2, <4>1
    <3>4. a[j] = s[i + j - 1]
      BY <1>2, <3>1
    <3> QED BY <2>1, <3>2, <3>3, <3>4
  <2>3. CASE j > Len(a)
    <3>1. i + j - 1 > Len(s) /\ (i + j - 1) - Len(s) = j - Len(a) /\ j \in 1 .. Len(a) + Len(t)
      BY <1>1, <1>2, <1>4, <1>5, <1>6, <2>3
    <3>2. u[i + j - 1] = t[(i + j - 1) - Len(s)]
      <4> DEFINE k == i + j - 1
      <4>1. k \in 1 .. Len(s) + Len(t) /\ ~ (k <= Len(s))
        BY <1>1, <2>1, <3>1
      <4> HIDE DEF k
      <4>2. u[k] = t[k - Len(s)]
        BY <1>1, <4>1
      <4> QED BY <4>2 DEF k
    <3>3. r[j] = t[j - Len(a)]
      <4>1. ~ (j <= Len(a))
        BY <1>1, <1>2, <2>3
      <4> QED BY <1>5, <3>1, <4>1
    <3> QED BY <2>1, <3>1, <3>2, <3>3
  <2> QED BY <1>1, <1>2, <2>2, <2>3
<1>8. l = r
  BY <1>4, <1>5, <1>6, <1>7, SeqEqual
<1> QED BY <1>1, <1>8 DEF u, l, r, a

LEMMA RestOfBack ==
    ASSUME NEW s \in Seq(Pbufs), NEW t \in Seq(Pbufs), NEW i \in Len(s) + 1 .. Len(s) + Len(t)
    PROVE  /\ i - Len(s) \in 1 .. Len(t) /\ (s \o t)[i] = t[i - Len(s)]
           /\ SubSeq(s \o t, i, Len(s) + Len(t)) = SubSeq(t, i - Len(s), Len(t))
<1>1. Len(s) \in Nat /\ Len(t) \in Nat
  BY LenProperties
<1>2. i - Len(s) \in 1 .. Len(t) /\ Len(s) + Len(t) \in Len(s) + 1 .. Len(s) + Len(t)
      /\ (Len(s) + Len(t)) - Len(s) = Len(t)
  BY <1>1
<1>3. (s \o t)[i] = t[i - Len(s)]
  BY <1>1, ConcatProperties
<1>4. SubSeq(s \o t, i, Len(s) + Len(t)) = SubSeq(t, i - Len(s), (Len(s) + Len(t)) - Len(s))
  BY <1>2, SubSeqOfConcat2
<1> QED BY <1>2, <1>3, <1>4
=============================================================================
