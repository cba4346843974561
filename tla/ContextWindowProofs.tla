------------------------ MODULE ContextWindowProofs ------------------------
(***************************************************************************)
(* Proofs about the context window (module ContextWindow) for every budget *)
(* and all messages: that the selection from a stream is the one select()  *)
(* makes, that both are what is promised, and that the payloads held while *)
(* a history is scanned are bounded by the budget.                         *)
(***************************************************************************)
EXTENDS ContextWindow, SequenceTheorems, FiniteSetTheorems, WellFoundedInduction, TLAPS

-----------------------------------------------------------------------------
(* Recursion over 0 .. n.                                                    *)

LEMMA Least ==
  ASSUME NEW T \in SUBSET Nat, T # {} PROVE \E n \in T : \A k \in T : n <= k
<1> DEFINE R == {ss \in Nat \X Nat : ss[1] < ss[2]}
<1>0. IsWellFoundedOn(R, Nat)
  BY NatLessThanWellFounded DEF OpToRel
<1> HIDE DEF R
<1>1. PICK n \in T : \A k \in T : ~ (<<k, n>> \in R)
  BY <1>0, WFMin
<1>2. \A k \in T : ~ (k < n)
  BY <1>1 DEF R
<1>3. QED BY <1>2

LEMMA Induction ==
  ASSUME NEW T, 0 \in T, \A n \in Nat : n \in T => n + 1 \in T
  PROVE  Nat \subseteq T
<1> SUFFICES ASSUME Nat \ T # {} PROVE FALSE
  OBVIOUS
<1>1. PICK n \in Nat \ T : \A k \in Nat \ T : n <= k
  BY Least
<1>2. n # 0 /\ n - 1 \in Nat /\ n - 1 + 1 = n
  BY <1>1
<1>3. n - 1 \in T
  BY <1>1, <1>2
<1>4. QED BY <1>1, <1>2, <1>3

\* Two functions that begin alike and go on alike are alike.
Alike(f, g, N) ==
  f[0] = g[0] /\ \A k \in 1 .. N : f[k - 1] = g[k - 1] => f[k] = g[k]

LEMMA Agree ==
  ASSUME NEW N \in Nat, NEW f, NEW g, Alike(f, g, N)
  PROVE  \A k \in 0 .. N : f[k] = g[k]
<1> USE DEF Alike
<1> DEFINE T == {n \in Nat : n <= N => f[n] = g[n]}
<1>1. 0 \in T
  OBVIOUS
<1>2. ASSUME NEW n \in Nat, n \in T PROVE n + 1 \in T
  <2>1. CASE n + 1 <= N
    <3>1. n + 1 \in 1 .. N /\ n + 1 - 1 = n /\ n <= N
      BY <2>1
    <3>2. f[n] = g[n]
      BY <1>2, <3>1
    <3>3. QED BY <3>1, <3>2
  <2>2. QED BY <2>1
<1> HIDE DEF T
<1>3. Nat \subseteq T
  BY <1>1, <1>2, Induction
<1>4. QED BY <1>3 DEF T

Recurs(f, base, step, N) == f[0] = base /\ \A k \in 1 .. N : f[k] = step[<<f[k - 1], k>>]

LEMMA Recursion ==
  ASSUME NEW S, NEW base \in S, NEW N \in Nat, NEW step, step \in [S \X (1 .. N) -> S]
  PROVE  \E f \in [0 .. N -> S] : Recurs(f, base, step, N)
<1> USE DEF Recurs
<1> DEFINE Good(n, f) == Recurs(f, base, step, n)
           T == {n \in Nat : n <= N => \E f \in [0 .. n -> S] : Good(n, f)}
<1>1. 0 \in T
  <2>1. [k \in 0 .. 0 |-> base] \in [0 .. 0 -> S] /\ Good(0, [k \in 0 .. 0 |-> base])
    OBVIOUS
  <2>2. QED BY <2>1
<1>2. ASSUME NEW n \in Nat, n \in T PROVE n + 1 \in T
  <2> SUFFICES ASSUME n + 1 <= N
               PROVE  \E f \in [0 .. n + 1 -> S] : Good(n + 1, f)
    OBVIOUS
  <2>1. PICK f \in [0 .. n -> S] : Good(n, f)
    BY <1>2
  <2> DEFINE g == [k \in 0 .. n + 1 |-> IF k = n + 1 THEN step[<<f[n], n + 1>>] ELSE f[k]]
  <2>2. step[<<f[n], n + 1>>] \in S
    <3>1. <<f[n], n + 1>> \in S \X (1 .. N)
      OBVIOUS
    <3>2. QED BY <3>1
  <2>3. g \in [0 .. n + 1 -> S]
    BY <2>2
  <2>4. g[0] = base
    BY <2>1
  <2>5. ASSUME NEW k \in 1 .. n + 1 PROVE g[k] = step[<<g[k - 1], k>>]
    <3>1. k - 1 \in 0 .. n /\ g[k - 1] = f[k - 1]
      OBVIOUS
    <3>2. CASE k = n + 1
      <4>1. g[k] = step[<<f[n], n + 1>>] /\ k - 1 = n
        BY <3>2
      <4>2. <<f[n], n + 1>> = <<g[k - 1], k>>
        BY <3>1, <3>2, <4>1
      <4> HIDE DEF g
      <4>3. QED BY <4>1, <4>2
    <3>3. CASE k # n + 1
      <4>1. k \in 1 .. n /\ g[k] = f[k]
        BY <3>3
      <4>2. QED BY <2>1, <3>1, <4>1
    <3>4. QED BY <3>2, <3>3
  <2>6. QED BY <2>3, <2>4, <2>5
<1> HIDE DEF T
<1>3. N \in T
  BY <1>1, <1>2, Induction
<1>4. QED BY <1>3 DEF T

-----------------------------------------------------------------------------
(* Sums.                                                                     *)

IsSum(sum, f, n) == sum = [k \in 0 .. n |-> IF k = 0 THEN 0 ELSE sum[k - 1] + f[k]]
Numbers(f, n) == \A k \in 1 .. n : f[k] \in Nat

LEMMA TotalIsSum ==
  ASSUME NEW f, NEW n PROVE Total(f, n) = (CHOOSE sum : IsSum(sum, f, n))[n]
BY Zenon DEF Total, IsSum

Sums(sum, f, n) == sum[0] = 0 /\ \A k \in 1 .. n : sum[k] = sum[k - 1] + f[k]

LEMMA Summed ==
  ASSUME NEW n \in Nat, NEW f, Numbers(f, n)
  PROVE  \E sum \in [0 .. n -> Nat] : Sums(sum, f, n) /\ Total(f, n) = sum[n]
<1> DEFINE step == [p \in Nat \X (1 .. n) |-> p[1] + f[p[2]]]
<1>1. step \in [Nat \X (1 .. n) -> Nat]
  BY DEF Numbers
<1>2. \A a \in Nat, k \in 1 .. n : step[<<a, k>>] = a + f[k]
  OBVIOUS
<1> HIDE DEF step
<1>3. PICK sum \in [0 .. n -> Nat] : Recurs(sum, 0, step, n)
  BY <1>1, Recursion
<1>4. sum[0] = 0 /\ \A k \in 1 .. n : sum[k] = sum[k - 1] + f[k]
  <2>1. \A k \in 1 .. n : k - 1 \in 0 .. n /\ sum[k - 1] \in Nat
    OBVIOUS
  <2>2. sum[0] = 0 /\ \A k \in 1 .. n : sum[k] = step[<<sum[k - 1], k>>]
    BY <1>3 DEF Recurs
  <2>3. QED BY <1>2, <2>1, <2>2
<1>5. IsSum(sum, f, n)
  <2>1. \A k \in 0 .. n : sum[k] = IF k = 0 THEN 0 ELSE sum[k - 1] + f[k]
    <3>1. \A k \in 0 .. n : k = 0 \/ k \in 1 .. n
      OBVIOUS
    <3>2. QED BY <1>4, <3>1
  <2>2. QED BY <2>1 DEF IsSum
<1> DEFINE chosen == CHOOSE x : IsSum(x, f, n)
<1>6. IsSum(chosen, f, n)
  BY <1>5
<1>7. Total(f, n) = chosen[n]
  BY TotalIsSum
<1> HIDE DEF chosen
<1>8. chosen[0] = 0 /\ \A k \in 1 .. n : chosen[k] = chosen[k - 1] + f[k]
  <2>1. \A k \in 0 .. n : chosen[k] = IF k = 0 THEN 0 ELSE chosen[k - 1] + f[k]
    BY <1>6, Zenon DEF IsSum
  <2>2. QED BY <2>1
<1>9. Alike(sum, chosen, n)
  BY <1>4, <1>8 DEF Alike
<1>10. \A k \in 0 .. n : sum[k] = chosen[k]
  BY <1>9, Agree
<1>11. QED BY <1>4, <1>7, <1>10 DEF Sums

LEMMA TotalNat ==
  ASSUME NEW n \in Nat, NEW f, Numbers(f, n) PROVE Total(f, n) \in Nat
BY Summed

LEMMA TotalNone == ASSUME NEW f PROVE Total(f, 0) = 0
<1>1. 0 \in Nat /\ Numbers(f, 0)
  BY DEF Numbers
<1>2. PICK sum \in [0 .. 0 -> Nat] : Sums(sum, f, 0) /\ Total(f, 0) = sum[0]
  BY <1>1, Summed
<1>3. QED BY <1>2 DEF Sums

LEMMA SumsAgree ==
  ASSUME NEW n \in Nat, NEW a, NEW b, NEW f, NEW g, Sums(a, f, n), Sums(b, g, n),
         \A k \in 1 .. n : f[k] = g[k]
  PROVE  a[n] = b[n]
<1>1. Alike(a, b, n)
  BY DEF Sums, Alike
<1>2. QED BY <1>1, Agree

LEMMA TotalSame ==
  ASSUME NEW n \in Nat, NEW f, NEW g, Numbers(f, n), \A k \in 1 .. n : f[k] = g[k]
  PROVE  Total(f, n) = Total(g, n)
<1>1. Numbers(g, n)
  BY DEF Numbers
<1>2. PICK a \in [0 .. n -> Nat] : Sums(a, f, n) /\ Total(f, n) = a[n]
  BY Summed
<1>3. PICK b \in [0 .. n -> Nat] : Sums(b, g, n) /\ Total(g, n) = b[n]
  BY <1>1, Summed
<1>4. a[n] = b[n]
  BY <1>2, <1>3, SumsAgree
<1>5. QED BY <1>2, <1>3, <1>4

LEMMA TotalNext ==
  ASSUME NEW n \in Nat, NEW f, Numbers(f, n + 1)
  PROVE  Total(f, n + 1) = Total(f, n) + f[n + 1]
<1>1. Numbers(f, n) /\ n + 1 \in Nat
  BY DEF Numbers
<1>2. PICK a \in [0 .. n -> Nat] : Sums(a, f, n) /\ Total(f, n) = a[n]
  BY <1>1, Summed
<1>3. PICK b \in [0 .. n + 1 -> Nat] : Sums(b, f, n + 1) /\ Total(f, n + 1) = b[n + 1]
  BY <1>1, Summed
<1>4. Sums(b, f, n)
  BY <1>3 DEF Sums
<1>5. a[n] = b[n]
  BY <1>2, <1>4, SumsAgree
<1>6. n + 1 \in 1 .. n + 1 /\ n + 1 - 1 = n /\ b[n + 1] = b[n + 1 - 1] + f[n + 1]
  BY <1>3 DEF Sums
<1>7. QED BY <1>2, <1>3, <1>5, <1>6

LEMMA Regroup ==
  ASSUME NEW n \in Nat, NEW m \in Nat, NEW j \in Nat, NEW k \in Nat
  PROVE  (n + m) + (j + k) = (n + j) + (m + k)
OBVIOUS

LEMMA TotalPlus ==
  ASSUME NEW n \in Nat, NEW f, NEW g, NEW h, Numbers(f, n), Numbers(g, n),
         \A k \in 1 .. n : h[k] = f[k] + g[k]
  PROVE  Total(h, n) = Total(f, n) + Total(g, n)
<1>1. Numbers(h, n)
  BY DEF Numbers
<1>2. PICK a \in [0 .. n -> Nat] : Sums(a, f, n) /\ Total(f, n) = a[n]
  BY Summed
<1>3. PICK b \in [0 .. n -> Nat] : Sums(b, g, n) /\ Total(g, n) = b[n]
  BY Summed
<1>4. PICK c \in [0 .. n -> Nat] : Sums(c, h, n) /\ Total(h, n) = c[n]
  BY <1>1, Summed
<1> DEFINE d == [k \in 0 .. n |-> a[k] + b[k]]
<1>5. Sums(d, h, n)
  <2>1. d[0] = 0
    BY <1>2, <1>3 DEF Sums
  <2>2. ASSUME NEW k \in 1 .. n PROVE d[k] = d[k - 1] + h[k]
    <3>1. k - 1 \in 0 .. n /\ k \in 0 .. n
      OBVIOUS
    <3>2. a[k] = a[k - 1] + f[k] /\ b[k] = b[k - 1] + g[k]
      BY <1>2, <1>3 DEF Sums
    <3>3. /\ f[k] \in Nat /\ g[k] \in Nat /\ h[k] = f[k] + g[k]
          /\ a[k - 1] \in Nat /\ b[k - 1] \in Nat
      BY <3>1 DEF Numbers
    <3>4. d[k] = a[k] + b[k] /\ d[k - 1] = a[k - 1] + b[k - 1]
      BY <3>1
    <3>5. (a[k - 1] + f[k]) + (b[k - 1] + g[k]) = (a[k - 1] + b[k - 1]) + (f[k] + g[k])
      BY <3>3, Regroup
    <3> HIDE DEF d
    <3>6. QED BY <3>2, <3>3, <3>4, <3>5, Zenon
  <2>3. QED BY <2>1, <2>2 DEF Sums
<1>6. d[n] = a[n] + b[n]
  OBVIOUS
<1> HIDE DEF d
<1>7. d[n] = c[n]
  BY <1>4, <1>5, SumsAgree
<1>8. QED BY <1>2, <1>3, <1>4, <1>6, <1>7

-----------------------------------------------------------------------------
(* The bytes of some messages of a sequence.  With each goes one more, for   *)
(* the comma behind it or the bracket.                                       *)

Cost(s, places) == Sized(s, places) + Cardinality(places)
SizesOf(s, places) == [i \in DOMAIN s |-> IF i \in places THEN s[i].size ELSE 0]

LEMMA SeqFacts ==
  ASSUME NEW S, NEW s \in Seq(S)
  PROVE  /\ Len(s) \in Nat /\ DOMAIN s = 1 .. Len(s) /\ \A i \in 1 .. Len(s) : s[i] \in S
BY LenProperties, ElementOfSeq

LEMMA AppendFacts ==
  ASSUME NEW S, NEW s \in Seq(S), NEW m \in S
  PROVE  /\ Append(s, m) \in Seq(S) /\ Len(Append(s, m)) = Len(s) + 1
         /\ \A i \in 1 .. Len(s) : Append(s, m)[i] = s[i]
         /\ Append(s, m)[Len(s) + 1] = m
BY AppendProperties

LEMMA PlacesFinite ==
  ASSUME NEW n \in Nat, NEW P \in SUBSET (1 .. n)
  PROVE  /\ IsFiniteSet(P) /\ Cardinality(P) \in Nat /\ Cardinality(P) <= n
         /\ Cardinality(P) = 0 <=> P = {}
<1>1. IsFiniteSet(1 .. n) /\ Cardinality(1 .. n) = n
  BY FS_Interval
<1>2. IsFiniteSet(P) /\ Cardinality(P) <= n
  BY <1>1, FS_Subset
<1>3. Cardinality(P) \in Nat
  BY <1>2, FS_CardinalityType
<1>4. Cardinality(P) = 0 <=> P = {}
  BY <1>2, FS_EmptySet
<1>5. QED BY <1>2, <1>3, <1>4

\* Disjoint sets of places are counted apart.
LEMMA CountPlus ==
  ASSUME NEW n \in Nat, NEW P \in SUBSET (1 .. n), NEW Q \in SUBSET (1 .. n), P \cap Q = {}
  PROVE  Cardinality(P \cup Q) = Cardinality(P) + Cardinality(Q)
<1>1. IsFiniteSet(P) /\ IsFiniteSet(Q) /\ Cardinality(P) \in Nat /\ Cardinality(Q) \in Nat
  BY PlacesFinite
<1>2. Cardinality(P \cup Q) = Cardinality(P) + Cardinality(Q) - Cardinality(P \cap Q)
  BY <1>1, FS_Union
<1>3. Cardinality(P \cap Q) = 0
  BY FS_EmptySet
<1>4. QED BY <1>1, <1>2, <1>3

LEMMA SizesFacts ==
  ASSUME NEW s \in Seq(Message), NEW P
  PROVE  /\ Numbers(SizesOf(s, P), Len(s)) /\ Len(s) \in Nat
         /\ Sized(s, P) = Total(SizesOf(s, P), Len(s))
         /\ Sized(s, P) \in Nat
<1>1. Len(s) \in Nat /\ DOMAIN s = 1 .. Len(s) /\ \A i \in 1 .. Len(s) : s[i] \in Message
  BY SeqFacts
<1>2. \A i \in 1 .. Len(s) : s[i].size \in Nat
  BY <1>1 DEF Message
<1>3. Numbers(SizesOf(s, P), Len(s))
  BY <1>1, <1>2 DEF SizesOf, Numbers
<1>4. Sized(s, P) = Total(SizesOf(s, P), Len(s))
  BY Zenon DEF Sized, SizesOf
<1>5. QED BY <1>1, <1>3, <1>4, TotalNat

LEMMA CostNat ==
  ASSUME NEW s \in Seq(Message), NEW P \in SUBSET (1 .. Len(s))
  PROVE  /\ Cost(s, P) \in Nat /\ Cardinality(P) \in Nat /\ Sized(s, P) \in Nat
         /\ Cost(s, P) >= Cardinality(P)
<1>1. Sized(s, P) \in Nat /\ Len(s) \in Nat
  BY SizesFacts
<1>2. Cardinality(P) \in Nat
  BY <1>1, PlacesFinite
<1>3. QED BY <1>1, <1>2 DEF Cost

LEMMA CostNone ==
  ASSUME NEW s \in Seq(Message), NEW P \in SUBSET (1 .. Len(s))
  PROVE  Cost(s, P) = 0 <=> P = {}
<1>1. Cost(s, P) \in Nat /\ Cardinality(P) \in Nat /\ Cost(s, P) >= Cardinality(P)
  BY CostNat
<1>2. Cardinality(P) = 0 <=> P = {}
  BY SizesFacts, PlacesFinite
<1>3. ASSUME P = {} PROVE Cost(s, P) = 0
  <2>1. Len(s) \in Nat /\ Numbers(SizesOf(s, P), Len(s)) /\ Sized(s, P) \in Nat
        /\ Sized(s, P) = Total(SizesOf(s, P), Len(s))
    BY SizesFacts
  <2> DEFINE sizes == SizesOf(s, P)
  <2>2. \A k \in 1 .. Len(s) : sizes[k] = sizes[k] + sizes[k]
    <3>1. \A k \in 1 .. Len(s) : sizes[k] = 0
      BY <1>3, SeqFacts DEF SizesOf
    <3>2. QED BY <3>1
  <2> HIDE DEF sizes
  <2>3. Total(sizes, Len(s)) = Total(sizes, Len(s)) + Total(sizes, Len(s))
    BY <2>1, <2>2, TotalPlus DEF sizes
  <2>4. Sized(s, P) = Sized(s, P) + Sized(s, P)
    BY <2>1, <2>3 DEF sizes
  <2>5. Sized(s, P) = 0
    BY <2>1, <2>4
  <2>6. QED BY <1>2, <1>3, <2>5 DEF Cost
<1>4. QED BY <1>1, <1>2, <1>3

LEMMA CostPlus ==
  ASSUME NEW s \in Seq(Message), NEW P \in SUBSET (1 .. Len(s)),
         NEW Q \in SUBSET (1 .. Len(s)), P \cap Q = {}
  PROVE  /\ Cost(s, P \cup Q) = Cost(s, P) + Cost(s, Q)
         /\ Sized(s, P \cup Q) = Sized(s, P) + Sized(s, Q)
<1>1. Len(s) \in Nat /\ DOMAIN s = 1 .. Len(s)
  BY SeqFacts
<1> DEFINE p == SizesOf(s, P)
           q == SizesOf(s, Q)
           r == SizesOf(s, P \cup Q)
<1>2. /\ Numbers(p, Len(s)) /\ Numbers(q, Len(s))
      /\ Sized(s, P) = Total(p, Len(s)) /\ Sized(s, Q) = Total(q, Len(s))
      /\ Sized(s, P \cup Q) = Total(r, Len(s))
      /\ Sized(s, P) \in Nat /\ Sized(s, Q) \in Nat
  BY SizesFacts
<1>3. \A k \in 1 .. Len(s) : r[k] = p[k] + q[k]
  <2>1. ASSUME NEW k \in 1 .. Len(s) PROVE r[k] = p[k] + q[k]
    <3>1. s[k].size \in Nat
      <4>1. s[k] \in Message
        BY SeqFacts
      <4>2. QED BY <4>1 DEF Message
    <3>2. /\ p[k] = IF k \in P THEN s[k].size ELSE 0
          /\ q[k] = IF k \in Q THEN s[k].size ELSE 0
          /\ r[k] = IF k \in P \cup Q THEN s[k].size ELSE 0
      BY <1>1 DEF SizesOf
    <3>3. ~ (k \in P /\ k \in Q)
      OBVIOUS
    <3> HIDE DEF p, q, r
    <3>4. QED BY <3>1, <3>2, <3>3
  <2>2. QED BY <2>1
<1> HIDE DEF p, q, r
<1>4. Sized(s, P \cup Q) = Sized(s, P) + Sized(s, Q)
  BY <1>1, <1>2, <1>3, TotalPlus
<1>5. Cardinality(P \cup Q) = Cardinality(P) + Cardinality(Q)
  BY <1>1, CountPlus
<1>6. Cardinality(P) \in Nat /\ Cardinality(Q) \in Nat
  BY <1>1, PlacesFinite
<1>7. QED BY <1>2, <1>4, <1>5, <1>6 DEF Cost

LEMMA CostLess ==
  ASSUME NEW s \in Seq(Message), NEW Q \in SUBSET (1 .. Len(s)), NEW P \in SUBSET Q
  PROVE  Cost(s, P) <= Cost(s, Q)
<1>1. Q = P \cup (Q \ P) /\ P \cap (Q \ P) = {}
  OBVIOUS
<1>2. Cost(s, Q) = Cost(s, P) + Cost(s, Q \ P)
  <2>1. P \in SUBSET (1 .. Len(s)) /\ Q \ P \in SUBSET (1 .. Len(s))
    OBVIOUS
  <2>2. QED BY <1>1, <2>1, CostPlus
<1>3. Cost(s, P) \in Nat /\ Cost(s, Q \ P) \in Nat
  BY CostNat
<1>4. QED BY <1>2, <1>3

\* One more message changes nothing of the costs before it.
LEMMA CostAppend ==
  ASSUME NEW s \in Seq(Message), NEW m \in Message, NEW P \in SUBSET (1 .. Len(s))
  PROVE  /\ Cost(Append(s, m), P) = Cost(s, P)
         /\ Cost(Append(s, m), P \cup {Len(s) + 1}) = Cost(s, P) + m.size + 1
<1> DEFINE n == Len(s)
           t == Append(s, m)
<1>1. /\ n \in Nat /\ DOMAIN s = 1 .. n /\ t \in Seq(Message) /\ Len(t) = n + 1
      /\ DOMAIN t = 1 .. n + 1
      /\ \A i \in 1 .. n : t[i] = s[i]
      /\ t[n + 1] = m
  BY SeqFacts, AppendFacts
<1>2. /\ m.size \in Nat
  BY DEF Message
<1> HIDE DEF n, t
<1>3. ASSUME NEW Q \in {P, P \cup {n + 1}}
      PROVE  Sized(t, Q) = Sized(s, P) + (IF n + 1 \in Q THEN m.size ELSE 0)
  <2> DEFINE p == SizesOf(s, P)
             q == SizesOf(t, Q)
  <2>1. /\ Numbers(p, n) /\ Sized(s, P) = Total(p, n) /\ Sized(s, P) \in Nat
    BY SizesFacts DEF n
  <2>2. /\ Numbers(q, n + 1) /\ Sized(t, Q) = Total(q, n + 1)
    BY <1>1, SizesFacts
  <2>3. \A k \in 1 .. n : p[k] = q[k]
    BY <1>1 DEF SizesOf
  <2>4. q[n + 1] = IF n + 1 \in Q THEN m.size ELSE 0
    BY <1>1 DEF SizesOf
  <2> HIDE DEF p, q
  <2>5. Total(q, n + 1) = Total(q, n) + q[n + 1]
    BY <1>1, <2>2, TotalNext
  <2>6. Total(p, n) = Total(q, n)
    BY <1>1, <2>1, <2>3, TotalSame
  <2>7. QED BY <2>1, <2>2, <2>4, <2>5, <2>6
<1>4. n + 1 \notin P
  BY <1>1 DEF n
<1>5. Cardinality(P \cup {n + 1}) = Cardinality(P) + 1 /\ Cardinality(P) \in Nat
  <2>1. IsFiniteSet(P) /\ Cardinality(P) \in Nat
    BY <1>1, PlacesFinite DEF n
  <2>2. QED BY <1>4, <2>1, FS_AddElement
<1>6. Sized(t, P) = Sized(s, P) /\ Sized(t, P \cup {n + 1}) = Sized(s, P) + m.size
  <2>1. Sized(s, P) \in Nat
    BY SizesFacts
  <2>2. Sized(t, P) = Sized(s, P) + 0
    BY <1>3, <1>4
  <2>3. QED BY <1>3, <2>1, <2>2
<1>7. Sized(s, P) \in Nat
  BY SizesFacts
<1>8. QED BY <1>2, <1>5, <1>6, <1>7 DEF Cost, n, t

LEMMA BytesAreCost ==
  ASSUME NEW s \in Seq(Message), NEW P \in SUBSET (1 .. Len(s))
  PROVE  /\ Bytes(s, P) = ListBytes(Cost(s, P)) /\ Bytes(s, P) \in Nat
         /\ Bytes(s, P) <= MaxBytes <=> Fits(Cost(s, P))
         /\ P # {} => Bytes(s, P) = Cost(s, P) + 1
         /\ P = {} => Bytes(s, P) = 2
<1>1. Cost(s, P) \in Nat /\ Cardinality(P) \in Nat /\ Sized(s, P) \in Nat
  BY CostNat
<1>2. Cost(s, P) = 0 <=> P = {}
  BY CostNone
<1>3. Cardinality(P) = 0 <=> P = {}
  BY SizesFacts, PlacesFinite
<1>4. Cost(s, P) = Sized(s, P) + Cardinality(P)
  BY DEF Cost
<1>5. P = {} => Sized(s, P) = 0
  BY <1>1, <1>2, <1>3, <1>4
<1>6. Bytes(s, P) = IF P = {} THEN 2 ELSE Cost(s, P) + 1
  BY <1>1, <1>3, <1>4, <1>5, SMTT(30) DEF Bytes
<1> DEFINE cost == Cost(s, P)
<1> HIDE DEF cost
<1>7. Bytes(s, P) = IF cost = 0 THEN 2 ELSE cost + 1
  BY <1>2, <1>6 DEF cost
<1>8. cost \in Nat
  BY <1>1 DEF cost
<1>9. Bytes(s, P) = ListBytes(cost) /\ (Bytes(s, P) <= MaxBytes <=> Fits(cost))
  BY <1>7 DEF ListBytes, Fits
<1>10. Bytes(s, P) \in Nat
  BY <1>7, <1>8
<1>11. QED BY <1>6, <1>9, <1>10 DEF cost

LEMMA FitsLess ==
  ASSUME NEW n \in Nat, NEW m \in Nat, n <= m, Fits(m) PROVE Fits(n)
BY BudgetAssumption DEF Fits

-----------------------------------------------------------------------------
(* The scan for groups.                                                      *)

\* Groups i + 1 to j.
Span(groups, i, j) == UNION {groups[g] : g \in i + 1 .. j}

Ordered(groups, n) ==
  /\ groups \in Seq(SUBSET (1 .. n))
  /\ \A g \in 1 .. Len(groups) : groups[g] # {}
  /\ \A g, h \in 1 .. Len(groups) : g < h => \A i \in groups[g], j \in groups[h] : i < j

ScanState(n) == [groups : Seq(SUBSET (1 .. n)), group : SUBSET (1 .. n), open : SUBSET STRING,
                 error : {"none", "encoding", "exchange"}]

\* The first n messages are in the groups, in order, all but the system messages.
WellScanned(a, s, n) ==
  /\ a \in ScanState(n)
  /\ Ordered(Groups(a), n)
  /\ a.error = "none" => {i \in 1 .. n : s[i].role # "system"}
                           = Span(a.groups, 0, Len(a.groups)) \cup a.group

LEMMA SpanFacts ==
  ASSUME NEW n \in Nat, NEW groups \in Seq(SUBSET (1 .. n)), NEW i \in Nat, NEW j \in Nat,
         i <= j, j <= Len(groups)
  PROVE  /\ Span(groups, i, j) \in SUBSET (1 .. n)
         /\ Span(groups, i, i) = {}
<1>1. Len(groups) \in Nat /\ \A g \in 1 .. Len(groups) : groups[g] \subseteq 1 .. n
  BY SeqFacts
<1>2. \A g \in i + 1 .. j : g \in 1 .. Len(groups)
  BY <1>1
<1>3. Span(groups, i, j) \in SUBSET (1 .. n)
  BY <1>1, <1>2 DEF Span
<1>4. Span(groups, i, i) = {}
  BY DEF Span
<1>5. QED BY <1>3, <1>4

LEMMA SpanSplit ==
  ASSUME NEW groups
  PROVE  \A i, k, j \in Nat : i <= k /\ k <= j =>
           Span(groups, i, j) = Span(groups, i, k) \cup Span(groups, k, j)
<1> SUFFICES ASSUME NEW i \in Nat, NEW k \in Nat, NEW j \in Nat, i <= k, k <= j
             PROVE  Span(groups, i, j) = Span(groups, i, k) \cup Span(groups, k, j)
  OBVIOUS
<1>1. \A g : g \in i + 1 .. j <=> g \in i + 1 .. k \/ g \in k + 1 .. j
  OBVIOUS
<1>2. QED BY <1>1, Zenon DEF Span

LEMMA SpanOne ==
  ASSUME NEW groups, NEW k \in Nat
  PROVE  Span(groups, k - 1, k) = groups[k] /\ Span(groups, k, k + 1) = groups[k + 1]
<1>1. (\A g : g \in k - 1 + 1 .. k <=> g = k) /\ (\A g : g \in k + 1 .. k + 1 <=> g = k + 1)
  OBVIOUS
<1>2. QED BY <1>1, Zenon DEF Span

LEMMA SpansApart ==
  ASSUME NEW n \in Nat, NEW groups, Ordered(groups, n), NEW i \in Nat, NEW j \in Nat,
         NEW k \in Nat, i <= j, j <= k, k <= Len(groups)
  PROVE  Span(groups, i, j) \cap Span(groups, j, k) = {}
<1>1. groups \in Seq(SUBSET (1 .. n)) /\ Len(groups) \in Nat
  BY LenProperties DEF Ordered
<1>2. ASSUME NEW x \in Span(groups, i, j), NEW y \in Span(groups, j, k) PROVE x < y
  <2>1. PICK g \in i + 1 .. j : x \in groups[g]
    BY DEF Span
  <2>2. PICK h \in j + 1 .. k : y \in groups[h]
    BY DEF Span
  <2>3. g \in 1 .. Len(groups) /\ h \in 1 .. Len(groups) /\ g < h
    BY <1>1
  <2>4. QED BY <2>1, <2>2, <2>3 DEF Ordered
<1>3. Span(groups, i, j) \subseteq 1 .. n
  BY <1>1, SpanFacts
<1>4. QED BY <1>2, <1>3

\* A group behind all others is one more.
LEMMA OrderedAppend ==
  ASSUME NEW n \in Nat, NEW groups, Ordered(groups, n), NEW P \in SUBSET (1 .. n), P # {},
         \A x \in Span(groups, 0, Len(groups)), y \in P : x < y
  PROVE  /\ Ordered(Append(groups, P), n)
         /\ Len(Append(groups, P)) = Len(groups) + 1
         /\ \A g \in 1 .. Len(groups) : Append(groups, P)[g] = groups[g]
         /\ Append(groups, P)[Len(groups) + 1] = P
<1>1. groups \in Seq(SUBSET (1 .. n)) /\ Len(groups) \in Nat
  BY LenProperties DEF Ordered
<1> DEFINE more == Append(groups, P)
<1>2. /\ more \in Seq(SUBSET (1 .. n)) /\ Len(more) = Len(groups) + 1
      /\ \A g \in 1 .. Len(groups) : more[g] = groups[g]
      /\ more[Len(groups) + 1] = P
  BY <1>1, AppendFacts
<1> HIDE DEF more
<1>3. \A g \in 1 .. Len(more) : g \in 1 .. Len(groups) \/ g = Len(groups) + 1
  BY <1>1, <1>2
<1>4. \A g \in 1 .. Len(more) : more[g] # {}
  BY <1>2, <1>3 DEF Ordered
<1>5. ASSUME NEW g \in 1 .. Len(more), NEW h \in 1 .. Len(more), g < h,
             NEW x \in more[g], NEW y \in more[h]
      PROVE  x < y
  <2>1. g \in 1 .. Len(groups) /\ x \in groups[g]
    BY <1>1, <1>2, <1>3, <1>5
  <2>2. CASE h \in 1 .. Len(groups)
    BY <1>2, <1>5, <2>1, <2>2 DEF Ordered
  <2>3. CASE h = Len(groups) + 1
    <3>1. x \in Span(groups, 0, Len(groups))
      BY <2>1 DEF Span
    <3>2. QED BY <1>2, <1>5, <2>3, <3>1
  <2>4. QED BY <1>3, <2>2, <2>3
<1>6. QED BY <1>2, <1>4, <1>5 DEF Ordered, more

LEMMA SpanSame ==
  ASSUME NEW f, NEW g, NEW i, NEW j, \A k \in i + 1 .. j : f[k] = g[k]
  PROVE  Span(f, i, j) = Span(g, i, j)
<1>1. \A x : (\E k \in i + 1 .. j : x \in f[k]) <=> (\E k \in i + 1 .. j : x \in g[k])
  OBVIOUS
<1>2. QED BY <1>1 DEF Span

LEMMA GroupsFacts ==
  ASSUME NEW n \in Nat, NEW a \in ScanState(n), Ordered(Groups(a), n)
  PROVE  /\ Ordered(a.groups, n) /\ Len(a.groups) \in Nat
         /\ \A x \in Span(a.groups, 0, Len(a.groups)), y \in a.group : x < y
         /\ Span(Groups(a), 0, Len(Groups(a))) = Span(a.groups, 0, Len(a.groups)) \cup a.group
         /\ a.group = {} => Groups(a) = a.groups
         /\ a.group # {} =>
              /\ Groups(a) = Append(a.groups, a.group) /\ Len(Groups(a)) = Len(a.groups) + 1
              /\ Closed(a) = [a EXCEPT !.groups = Groups(a), !.group = {}]
              /\ \A g \in 1 .. Len(a.groups) : Groups(a)[g] = a.groups[g]
              /\ Groups(a)[Len(a.groups) + 1] = a.group
<1>1. a.groups \in Seq(SUBSET (1 .. n)) /\ a.group \in SUBSET (1 .. n)
  BY DEF ScanState
<1>2. Len(a.groups) \in Nat
  BY <1>1, LenProperties
<1>3. CASE a.group = {}
  BY <1>2, <1>3 DEF Groups
<1>4. CASE a.group # {}
  <2> DEFINE old == a.groups
             more == Groups(a)
  <2>1. Closed(a) = [a EXCEPT !.groups = Append(a.groups, a.group), !.group = {}]
    BY DEF Closed
  <2>2. more = Append(old, a.group)
    BY <1>4, <2>1 DEF Groups, ScanState
  <2>3. /\ Len(more) = Len(old) + 1 /\ \A g \in 1 .. Len(old) : more[g] = old[g]
        /\ more[Len(old) + 1] = a.group /\ more \in Seq(SUBSET (1 .. n))
    BY <1>1, <2>2, AppendFacts
  <2> HIDE DEF more
  <2>4. Ordered(old, n)
    <3>1. \A g \in 1 .. Len(old) : g \in 1 .. Len(more) /\ more[g] = old[g]
      BY <1>2, <2>3
    <3>2. /\ \A g \in 1 .. Len(more) : more[g] # {}
          /\ \A g, h \in 1 .. Len(more) : g < h => \A i \in more[g], j \in more[h] : i < j
      BY DEF Ordered, more
    <3>3. \A g \in 1 .. Len(old) : old[g] # {}
      BY <3>1, <3>2
    <3>4. \A g, h \in 1 .. Len(old) : g < h => \A i \in old[g], j \in old[h] : i < j
      BY <3>1, <3>2
    <3>5. QED BY <1>1, <3>3, <3>4 DEF Ordered
  <2>5. ASSUME NEW x \in Span(old, 0, Len(old)), NEW y \in a.group PROVE x < y
    <3>1. PICK g \in 1 .. Len(old) : x \in old[g]
      BY DEF Span
    <3>2. g \in 1 .. Len(more) /\ Len(old) + 1 \in 1 .. Len(more) /\ g < Len(old) + 1
      BY <1>2, <2>3
    <3>3. x \in more[g] /\ y \in more[Len(old) + 1]
      BY <2>3, <3>1
    <3>4. QED BY <3>2, <3>3 DEF Ordered, more
  <2>6. Span(more, 0, Len(more)) = Span(old, 0, Len(old)) \cup a.group
    <3>1. /\ Span(more, 0, Len(more)) = Span(more, 0, Len(old)) \cup Span(more, Len(old), Len(more))
          /\ Span(more, Len(old), Len(more)) = more[Len(more)]
      <4>1. /\ 0 \in Nat /\ Len(more) \in Nat /\ 0 <= Len(old) /\ Len(old) <= Len(more)
            /\ Len(more) - 1 = Len(old)
        BY <1>2, <2>3
      <4>2. Span(more, 0, Len(more)) = Span(more, 0, Len(old)) \cup Span(more, Len(old), Len(more))
        <5>1. \A i, k, j \in Nat : i <= k /\ k <= j =>
                Span(more, i, j) = Span(more, i, k) \cup Span(more, k, j)
          BY SpanSplit
        <5>2. QED BY <1>2, <4>1, <5>1
      <4>3. Span(more, Len(more) - 1, Len(more)) = more[Len(more)]
        BY <4>1, SpanOne
      <4>4. QED BY <4>1, <4>2, <4>3
    <3>2. Span(more, 0, Len(old)) = Span(old, 0, Len(old))
      <4>1. \A k \in 0 + 1 .. Len(old) : more[k] = old[k]
        BY <2>3
      <4>2. QED BY <4>1, SpanSame
    <3>3. QED BY <2>3, <3>1, <3>2
  <2>7. QED BY <1>2, <1>4, <2>1, <2>2, <2>3, <2>4, <2>5, <2>6 DEF more
<1>5. QED BY <1>3, <1>4

LEMMA ClosedFacts ==
  ASSUME NEW n \in Nat, NEW a \in ScanState(n), a.group # {}, Ordered(Groups(a), n)
  PROVE  /\ Closed(a) \in ScanState(n)
         /\ Closed(a).groups = Groups(a) /\ Closed(a).group = {}
         /\ Closed(a).open = a.open /\ Closed(a).error = a.error
         /\ Groups(Closed(a)) = Groups(a)
         /\ Span(Closed(a).groups, 0, Len(Closed(a).groups)) \cup Closed(a).group
              = Span(a.groups, 0, Len(a.groups)) \cup a.group
<1>1. Closed(a) = [a EXCEPT !.groups = Groups(a), !.group = {}]
  BY GroupsFacts
<1>2. Groups(a) \in Seq(SUBSET (1 .. n))
  BY DEF Ordered
<1>3. /\ Closed(a) \in ScanState(n)
      /\ Closed(a).groups = Groups(a) /\ Closed(a).group = {}
      /\ Closed(a).open = a.open /\ Closed(a).error = a.error
  BY <1>1, <1>2 DEF ScanState
<1>4. Groups(Closed(a)) = Groups(a)
  BY <1>3 DEF Groups
<1>5. Span(Groups(a), 0, Len(Groups(a))) = Span(a.groups, 0, Len(a.groups)) \cup a.group
  BY GroupsFacts
<1>6. QED BY <1>3, <1>4, <1>5

\* A message is scanned.
LEMMA ScannedWell ==
  ASSUME NEW s \in Seq(Message), NEW n \in Nat, n + 1 <= Len(s), NEW a,
         WellScanned(a, s, n), NEW boundary \in BOOLEAN
  PROVE  WellScanned(Scanned(a, s[n + 1], n + 1, boundary), s, n + 1)
<1> DEFINE m == s[n + 1]
           b == IF Closes(a, m, boundary) THEN Closed(a) ELSE a
           new == Scanned(a, m, n + 1, boundary)
<1>1. /\ a \in ScanState(n) /\ Ordered(Groups(a), n)
      /\ a.error = "none" => {i \in 1 .. n : s[i].role # "system"}
                               = Span(a.groups, 0, Len(a.groups)) \cup a.group
  BY DEF WellScanned
<1>2. /\ m \in Message /\ n + 1 \in Nat
  <2>1. n + 1 \in 1 .. Len(s)
    BY SeqFacts
  <2>2. QED BY <2>1, SeqFacts
<1>3. /\ b \in ScanState(n) /\ b.open = a.open /\ b.error = a.error
      /\ Groups(b) = Groups(a)
      /\ Span(b.groups, 0, Len(b.groups)) \cup b.group
           = Span(a.groups, 0, Len(a.groups)) \cup a.group
  <2>1. CASE Closes(a, m, boundary)
    <3>1. a.group # {}
      BY <2>1 DEF Closes
    <3>2. QED BY <1>1, <2>1, <3>1, ClosedFacts
  <2>2. CASE ~ Closes(a, m, boundary)
    BY <1>1, <2>2
  <2>3. QED BY <2>1, <2>2
<1> HIDE DEF b
<1>4. /\ Ordered(b.groups, n) /\ Len(b.groups) \in Nat
      /\ \A x \in Span(b.groups, 0, Len(b.groups)), y \in b.group : x < y
  BY <1>1, <1>3, GroupsFacts
\* What holds up to n holds up to n + 1.
<1>5. ASSUME NEW c \in ScanState(n) PROVE c \in ScanState(n + 1)
  <2>1. SUBSET (1 .. n) \subseteq SUBSET (1 .. n + 1)
    OBVIOUS
  <2>2. c.groups \in Seq(SUBSET (1 .. n + 1))
    BY <2>1, SeqMonotonic DEF ScanState
  <2>3. QED BY <2>1, <2>2 DEF ScanState
<1>6. ASSUME NEW groups, Ordered(groups, n) PROVE Ordered(groups, n + 1)
  <2>1. SUBSET (1 .. n) \subseteq SUBSET (1 .. n + 1)
    OBVIOUS
  <2>2. groups \in Seq(SUBSET (1 .. n + 1))
    BY <1>6, <2>1, SeqMonotonic DEF Ordered
  <2>3. QED BY <1>6, <2>2 DEF Ordered
<1>7. \A i \in 1 .. n + 1 : i \in 1 .. n \/ i = n + 1
  OBVIOUS
<1>8. CASE a.error # "none" /\ new = a
  BY <1>1, <1>5, <1>6, <1>8 DEF WellScanned
<1>9. ASSUME NEW why \in {"encoding", "exchange"}, new = [a EXCEPT !.error = why]
      PROVE  WellScanned(new, s, n + 1)
  <2>1. new \in ScanState(n) /\ new.groups = a.groups /\ new.group = a.group /\ new.error # "none"
    BY <1>1, <1>9 DEF ScanState
  <2>2. Groups(new) = Groups(a)
    <3>1. a.group = {} => Groups(new) = Groups(a)
      BY <2>1 DEF Groups
    <3>2. a.group # {} => Groups(new) = Groups(a)
      BY <1>1, <2>1 DEF Groups, Closed, ScanState
    <3>3. QED BY <3>1, <3>2
  <2>3. QED BY <1>1, <1>5, <1>6, <2>1, <2>2 DEF WellScanned
<1>10. CASE a.error = "none" /\ m.role = "system" /\ new = b
  <2>1. {i \in 1 .. n + 1 : s[i].role # "system"} = {i \in 1 .. n : s[i].role # "system"}
    BY <1>7, <1>10
  <2>2. QED BY <1>1, <1>3, <1>5, <1>6, <1>10, <2>1 DEF WellScanned
<1>11. CASE /\ a.error = "none" /\ m.role # "system"
            /\ new = [b EXCEPT !.group = @ \cup {n + 1}, !.open = Open(m, @)]
  <2>1. Open(m, b.open) \in SUBSET STRING
    <3>1. ToSet(m.ids) \subseteq STRING
      <4>1. m.ids \in Seq(STRING)
        BY <1>2 DEF Message
      <4>2. \A i \in DOMAIN m.ids : m.ids[i] \in STRING
        BY <4>1, SeqFacts
      <4>3. QED BY <4>2 DEF ToSet
    <3>2. QED BY <1>3, <3>1 DEF Open, ScanState
  <2>2. b \in ScanState(n + 1)
    BY <1>3, <1>5
  <2>3. b.group \subseteq 1 .. n /\ b.error = "none"
    BY <1>3, <1>11 DEF ScanState
  <2> DEFINE grown == b.group \cup {n + 1}
             opened == Open(m, b.open)
  <2>4a. grown \in SUBSET (1 .. n + 1) /\ grown # {}
    BY <2>3
  <2>4b. new = [b EXCEPT !.group = grown, !.open = opened]
    BY <1>11
  <2> HIDE DEF new, grown, opened
  <2>4. /\ new \in ScanState(n + 1) /\ new.groups = b.groups
        /\ new.group = grown /\ new.error = "none"
    BY <2>1, <2>2, <2>3, <2>4a, <2>4b DEF ScanState, opened
  <2>5. Groups(new) = Append(b.groups, grown)
    BY <2>4, <2>4a DEF Groups, Closed, ScanState
  <2>6. Span(b.groups, 0, Len(b.groups)) \subseteq 1 .. n
    <3>1. b.groups \in Seq(SUBSET (1 .. n)) /\ 0 \in Nat /\ 0 <= Len(b.groups)
      BY <1>4 DEF Ordered
    <3>2. QED BY <1>4, <3>1, SpanFacts
  <2>7. \A x \in Span(b.groups, 0, Len(b.groups)), y \in grown : x < y
    BY <1>4, <2>6 DEF grown
  <2>8. Ordered(Groups(new), n + 1)
    <3>1. Ordered(b.groups, n + 1)
      BY <1>4, <1>6
    <3>2. Ordered(Append(b.groups, grown), n + 1)
      BY <1>2, <2>7, <2>4a, <3>1, OrderedAppend
    <3>3. QED BY <2>5, <3>2
  <2>9. {i \in 1 .. n + 1 : s[i].role # "system"}
          = {i \in 1 .. n : s[i].role # "system"} \cup {n + 1}
    BY <1>7, <1>11
  <2>10. Span(new.groups, 0, Len(new.groups)) \cup new.group
           = {i \in 1 .. n + 1 : s[i].role # "system"}
    BY <1>1, <1>3, <1>11, <2>4, <2>9 DEF grown
  <2>11. QED BY <2>4, <2>8, <2>10 DEF WellScanned, new
<1>12. QED
  BY <1>3, <1>8, <1>9, <1>10, <1>11 DEF Scanned, b

LEMMA ScannedType ==
  ASSUME NEW n \in Nat, NEW a \in ScanState(n), NEW m \in Message, NEW place \in 1 .. n,
         NEW boundary \in BOOLEAN
  PROVE  Scanned(a, m, place, boundary) \in ScanState(n)
<1> DEFINE b == IF Closes(a, m, boundary) THEN Closed(a) ELSE a
<1>1. b \in ScanState(n)
  <2>1. Append(a.groups, a.group) \in Seq(SUBSET (1 .. n))
    BY AppendFacts DEF ScanState
  <2>2. Closed(a) \in ScanState(n)
    BY <2>1 DEF Closed, ScanState
  <2>3. QED BY <2>2
<1>2. Open(m, b.open) \in SUBSET STRING
  <2>1. m.ids \in Seq(STRING)
    BY DEF Message
  <2>2. \A i \in DOMAIN m.ids : m.ids[i] \in STRING
    BY <2>1, SeqFacts
  <2>3. QED BY <1>1, <2>2 DEF Open, ScanState, ToSet
<1> HIDE DEF b
<1> DEFINE opened == Open(m, b.open)
           grown == b.group \cup {place}
<1>3. grown \in SUBSET (1 .. n)
  BY <1>1 DEF ScanState
<1> HIDE DEF opened, grown
<1>4. [b EXCEPT !.group = grown, !.open = opened] \in ScanState(n)
  BY <1>1, <1>2, <1>3 DEF ScanState, opened
<1>5. \A why \in {"encoding", "exchange"} : [a EXCEPT !.error = why] \in ScanState(n)
  BY DEF ScanState
<1>6. QED BY <1>1, <1>4, <1>5 DEF Scanned, b, grown, opened

IsScan(f, s, given) ==
  f = [k \in 0 .. Len(s) |->
         IF k = 0 THEN Unscanned ELSE Scanned(f[k - 1], s[k], k, k = given + 1)]

LEMMA ScanSteps ==
  ASSUME NEW s \in Seq(Message), NEW given \in Nat
  PROVE  /\ Scan(s, given)[0] = Unscanned
         /\ \A k \in 1 .. Len(s) :
              Scan(s, given)[k] = Scanned(Scan(s, given)[k - 1], s[k], k, k = given + 1)
<1> DEFINE N == Len(s)
           step == [p \in ScanState(N) \X (1 .. N) |->
                      Scanned(p[1], s[p[2]], p[2], p[2] = given + 1)]
<1>1. N \in Nat /\ \A k \in 1 .. N : s[k] \in Message
  BY SeqFacts
<1> HIDE DEF N
<1>2. \A a \in ScanState(N), k \in 1 .. N :
        /\ Scanned(a, s[k], k, k = given + 1) \in ScanState(N)
        /\ step[<<a, k>>] = Scanned(a, s[k], k, k = given + 1)
  <2>1. ASSUME NEW a \in ScanState(N), NEW k \in 1 .. N
        PROVE  /\ Scanned(a, s[k], k, k = given + 1) \in ScanState(N)
               /\ step[<<a, k>>] = Scanned(a, s[k], k, k = given + 1)
    <3>1. (k = given + 1) \in BOOLEAN
      OBVIOUS
    <3>2. Scanned(a, s[k], k, k = given + 1) \in ScanState(N)
      BY <1>1, <3>1, ScannedType
    <3>3. <<a, k>> \in ScanState(N) \X (1 .. N) /\ <<a, k>>[1] = a /\ <<a, k>>[2] = k
      OBVIOUS
    <3>4. step[<<a, k>>] = Scanned(a, s[k], k, k = given + 1)
      BY <3>3, Zenon
    <3>5. QED BY <3>2, <3>4
  <2>2. QED BY <2>1
<1>3. step \in [ScanState(N) \X (1 .. N) -> ScanState(N)]
  <2>1. \A p \in ScanState(N) \X (1 .. N) :
          Scanned(p[1], s[p[2]], p[2], p[2] = given + 1) \in ScanState(N)
    <3>1. ASSUME NEW p \in ScanState(N) \X (1 .. N)
          PROVE  Scanned(p[1], s[p[2]], p[2], p[2] = given + 1) \in ScanState(N)
      <4>1. p[1] \in ScanState(N) /\ p[2] \in 1 .. N
        OBVIOUS
      <4>2. QED BY <1>2, <4>1, Zenon
    <3>2. QED BY <3>1, Zenon
  <2>2. QED BY <2>1, Zenon
<1> HIDE DEF step
<1>4. Unscanned \in ScanState(N)
  <2>1. <<>> \in Seq(SUBSET (1 .. N))
    OBVIOUS
  <2>2. QED BY <2>1 DEF Unscanned, ScanState
<1>5. PICK f \in [0 .. N -> ScanState(N)] : Recurs(f, Unscanned, step, N)
  BY <1>1, <1>3, <1>4, Recursion
<1>6. IsScan(f, s, given)
  <2>1. f[0] = Unscanned /\ \A k \in 1 .. N : f[k] = step[<<f[k - 1], k>>]
    BY <1>5 DEF Recurs
  <2>2. ASSUME NEW k \in 1 .. N PROVE f[k] = Scanned(f[k - 1], s[k], k, k = given + 1)
    <3>1. k - 1 \in 0 .. N
      BY <1>1
    <3>2. f[k - 1] \in ScanState(N)
      BY <3>1
    <3>3. QED BY <1>2, <2>1, <3>2
  <2>3. ASSUME NEW k \in 0 .. N
        PROVE  f[k] = IF k = 0 THEN Unscanned ELSE Scanned(f[k - 1], s[k], k, k = given + 1)
    <3>1. k = 0 \/ k \in 1 .. N
      BY <1>1
    <3>2. CASE k = 0
      BY <2>1, <3>2
    <3>3. CASE k # 0
      <4>1. k \in 1 .. N
        BY <3>1, <3>3
      <4>2. QED BY <2>2, <3>3, <4>1, Zenon
    <3>4. QED BY <3>2, <3>3
  <2>4. QED BY <2>3, Zenon DEF IsScan, N
<1> DEFINE g == CHOOSE x : IsScan(x, s, given)
<1>7. Scan(s, given) = g
  BY Zenon DEF Scan, IsScan
<1>8. IsScan(g, s, given)
  BY <1>6, Zenon
<1> HIDE DEF g
<1>9. \A k \in 0 .. N : g[k] = IF k = 0 THEN Unscanned
                               ELSE Scanned(g[k - 1], s[k], k, k = given + 1)
  BY <1>8, Zenon DEF IsScan, N
<1>10. 0 \in 0 .. N /\ \A k \in 1 .. N : k \in 0 .. N /\ k # 0
  BY <1>1
<1>11. QED BY <1>7, <1>9, <1>10, Zenon DEF N

LEMMA ScanWell ==
  ASSUME NEW s \in Seq(Message), NEW given \in Nat, NEW n \in 0 .. Len(s)
  PROVE  WellScanned(Scan(s, given)[n], s, n)
<1> DEFINE T == {k \in Nat : k <= Len(s) => WellScanned(Scan(s, given)[k], s, k)}
<1>1. WellScanned(Unscanned, s, 0)
  <2>1. <<>> \in Seq(SUBSET (1 .. 0)) /\ Len(<<>>) = 0
    OBVIOUS
  <2>2. Unscanned \in ScanState(0) /\ Groups(Unscanned) = <<>>
    BY <2>1 DEF Unscanned, ScanState, Groups
  <2>3. Ordered(<<>>, 0)
    BY <2>1 DEF Ordered
  <2>4. Span(<<>>, 0, Len(<<>>)) = {}
    BY <2>1 DEF Span
  <2>5. {i \in 1 .. 0 : s[i].role # "system"} = {}
    OBVIOUS
  <2>6. Unscanned.groups = <<>> /\ Unscanned.group = {}
    BY DEF Unscanned
  <2>7. QED BY <2>2, <2>3, <2>4, <2>5, <2>6 DEF WellScanned
<1>2. 0 \in T
  BY <1>1, ScanSteps
<1>3. ASSUME NEW k \in Nat, k \in T PROVE k + 1 \in T
  <2> SUFFICES ASSUME k + 1 <= Len(s) PROVE WellScanned(Scan(s, given)[k + 1], s, k + 1)
    OBVIOUS
  <2>1. k + 1 \in 1 .. Len(s) /\ k + 1 - 1 = k /\ k <= Len(s)
    BY SeqFacts
  <2>2. Scan(s, given)[k + 1]
          = Scanned(Scan(s, given)[k], s[k + 1], k + 1, k + 1 = given + 1)
    BY <2>1, ScanSteps
  <2>3. WellScanned(Scan(s, given)[k], s, k)
    BY <1>3, <2>1
  <2>4. (k + 1 = given + 1) \in BOOLEAN
    OBVIOUS
  <2>5. QED BY <2>2, <2>3, <2>4, ScannedWell
<1> HIDE DEF T
<1>4. Nat \subseteq T
  BY <1>2, <1>3, Induction
<1>5. n \in Nat /\ n <= Len(s)
  BY SeqFacts
<1>6. QED BY <1>4, <1>5 DEF T

\* One more message changes nothing of the scan before it.
LEMMA ScanAppend ==
  ASSUME NEW s \in Seq(Message), NEW m \in Message, NEW given \in Nat, NEW later \in Nat,
         \A k \in 1 .. Len(s) : k = given + 1 <=> k = later + 1
  PROVE  /\ \A k \in 0 .. Len(s) : Scan(Append(s, m), later)[k] = Scan(s, given)[k]
         /\ Scan(Append(s, m), later)[Len(s) + 1]
              = Scanned(Scan(s, given)[Len(s)], m, Len(s) + 1, Len(s) = later)
<1> DEFINE t == Append(s, m)
<1>1. /\ t \in Seq(Message) /\ Len(t) = Len(s) + 1 /\ Len(s) \in Nat
      /\ \A i \in 1 .. Len(s) : t[i] = s[i]
      /\ t[Len(s) + 1] = m
  BY AppendFacts, SeqFacts
<1> HIDE DEF t
<1> DEFINE f == Scan(t, later)
           g == Scan(s, given)
<1>2. /\ f[0] = Unscanned
      /\ \A k \in 1 .. Len(t) : f[k] = Scanned(f[k - 1], t[k], k, k = later + 1)
  BY <1>1, ScanSteps
<1>3. /\ g[0] = Unscanned
      /\ \A k \in 1 .. Len(s) : g[k] = Scanned(g[k - 1], s[k], k, k = given + 1)
  BY ScanSteps
<1> HIDE DEF f, g
<1>4. Alike(f, g, Len(s))
  <2>1. ASSUME NEW k \in 1 .. Len(s), f[k - 1] = g[k - 1] PROVE f[k] = g[k]
    <3>1. k \in 1 .. Len(t) /\ t[k] = s[k] /\ (k = later + 1) = (k = given + 1)
      BY <1>1
    <3>2. QED BY <1>2, <1>3, <2>1, <3>1
  <2>2. QED BY <1>2, <1>3, <2>1 DEF Alike
<1>5. \A k \in 0 .. Len(s) : f[k] = g[k]
  BY <1>1, <1>4, Agree
<1>6. f[Len(s) + 1] = Scanned(f[Len(s)], m, Len(s) + 1, Len(s) = later)
  <2>1. /\ Len(s) + 1 \in 1 .. Len(t) /\ Len(s) + 1 - 1 = Len(s)
        /\ (Len(s) + 1 = later + 1) = (Len(s) = later)
    BY <1>1
  <2>2. QED BY <1>1, <1>2, <2>1
<1>7. Len(s) \in 0 .. Len(s)
  BY <1>1
<1>8. QED BY <1>5, <1>6, <1>7 DEF f, g, t

-----------------------------------------------------------------------------
(* What the stream keeps of the groups.                                      *)

KeptGroup == [entries : SUBSET Nat, cost : Nat, count : Nat, given : Nat, mandatory : BOOLEAN]
WindowType ==
  [group : KeptGroup, optional : Seq(KeptGroup), optional_cost : Nat,
   required : SUBSET Nat, required_cost : Nat, required_given : Nat, overflow : BOOLEAN,
   mandatory_groups : Nat, groups : Nat, open : SUBSET STRING, total : Nat,
   failure : {"none", "encoding", "exchange"}]

MirrorsGroup(g, P, s, given) ==
  /\ g.cost = Cost(s, P) /\ g.count = Cardinality(P)
  /\ g.given = Cardinality(P \cap 1 .. given)
  /\ g.mandatory <=> ~ (P \subseteq 1 .. given)
  /\ g.entries = IF Fits(Cost(s, P)) THEN P ELSE {}

\* The groups after m are mandatory; of those before, the ones after j are kept.
Split(x, groups, given, m, j) ==
  /\ m \in 0 .. Len(groups) /\ j \in 0 .. m
  /\ \A g \in 1 .. m : groups[g] \subseteq 1 .. given
  /\ \A g \in m + 1 .. Len(groups) : ~ (groups[g] \subseteq 1 .. given)
  /\ x.groups = Len(groups) /\ x.mandatory_groups = Len(groups) - m
  /\ Len(x.optional) = m - j
\* Those kept are whole, and one more would not fit.
MirrorsOptional(x, groups, s, m, j) ==
  /\ \A i \in 1 .. m - j : /\ x.optional[i].entries = groups[j + i]
                           /\ x.optional[i].cost = Cost(s, groups[j + i])
                           /\ x.optional[i].given = Cardinality(groups[j + i])
  /\ x.optional_cost = Cost(s, Span(groups, j, m))
  /\ j > 0 => ~ Fits(x.required_cost + Cost(s, Span(groups, j - 1, m)))
MirrorsRequired(x, R, s, given) ==
  /\ x.required_cost = Cost(s, R)
  /\ x.required_given = Cardinality(R \cap 1 .. given)
  /\ x.overflow <=> ~ Fits(Cost(s, R))
  /\ Fits(Cost(s, R)) => x.required = R
  /\ x.required \subseteq R /\ Fits(Cost(s, x.required))
\* The system messages and the mandatory groups.
Required(s, n, groups, m) ==
  {i \in 1 .. n : s[i].role = "system"} \cup Span(groups, m, Len(groups))

Loose(x, groups, s, n, given, m, j) ==
  /\ x \in WindowType
  /\ Split(x, groups, given, m, j)
  /\ MirrorsOptional(x, groups, s, m, j)
  /\ MirrorsRequired(x, Required(s, n, groups, m), s, given)
Tight(x, groups, s, n, given, m, j) ==
  /\ Loose(x, groups, s, n, given, m, j)
  /\ j = m \/ Fits(x.required_cost + x.optional_cost)

\* A measure of places that counts disjoint sets apart.
Additive(measure, n) ==
  /\ measure \in [SUBSET (1 .. n) -> Nat]
  /\ \A P, Q \in SUBSET (1 .. n) :
       P \cap Q = {} => measure[P \cup Q] = measure[P] + measure[Q]

LEMMA Measures ==
  ASSUME NEW s \in Seq(Message), NEW n \in 0 .. Len(s)
  PROVE  /\ Additive([P \in SUBSET (1 .. n) |-> Cost(s, P)], n)
         /\ Additive([P \in SUBSET (1 .. n) |-> Cardinality(P)], n)
<1>1. Len(s) \in Nat /\ n \in Nat /\ SUBSET (1 .. n) \subseteq SUBSET (1 .. Len(s))
  BY SeqFacts
<1>2. \A P \in SUBSET (1 .. n) : Cost(s, P) \in Nat /\ Cardinality(P) \in Nat
  BY <1>1, CostNat
<1>3. \A P, Q \in SUBSET (1 .. n) : P \cap Q = {} => Cost(s, P \cup Q) = Cost(s, P) + Cost(s, Q)
  BY <1>1, CostPlus
<1>4. \A P, Q \in SUBSET (1 .. n) :
        P \cap Q = {} => Cardinality(P \cup Q) = Cardinality(P) + Cardinality(Q)
  BY <1>1, CountPlus
<1>5. QED BY <1>2, <1>3, <1>4 DEF Additive

\* What a span measures is the sum of what its groups do.
LEMMA SpanTotal ==
  ASSUME NEW n \in Nat, NEW groups, Ordered(groups, n), NEW measure, Additive(measure, n),
         NEW j \in Nat, NEW size \in Nat, j + size <= Len(groups), NEW f,
         \A i \in 1 .. size : f[i] = measure[groups[j + i]]
  PROVE  Total(f, size) = measure[Span(groups, j, j + size)] /\ Numbers(f, size)
<1> DEFINE T == {k \in Nat : k <= size => Total(f, k) = measure[Span(groups, j, j + k)]}
<1>1. groups \in Seq(SUBSET (1 .. n)) /\ Len(groups) \in Nat
      /\ \A g \in 1 .. Len(groups) : groups[g] \in SUBSET (1 .. n)
  BY SeqFacts DEF Ordered
<1>2. Numbers(f, size)
  <2>1. \A i \in 1 .. size : j + i \in 1 .. Len(groups)
    BY <1>1
  <2>2. \A i \in 1 .. size : measure[groups[j + i]] \in Nat
    BY <1>1, <2>1 DEF Additive
  <2>3. QED BY <2>2 DEF Numbers
<1>3. 0 \in T
  <2>1. measure[{}] = 0
    <3>1. {} \in SUBSET (1 .. n) /\ {} \cap {} = {} /\ {} \cup {} = {}
      OBVIOUS
    <3>2. measure[{}] \in Nat /\ measure[{}] = measure[{}] + measure[{}]
      BY <3>1 DEF Additive
    <3>3. QED BY <3>2
  <2>2. Span(groups, j, j + 0) = {}
    BY DEF Span
  <2>3. QED BY <2>1, <2>2, TotalNone
<1>4. ASSUME NEW k \in Nat, k \in T PROVE k + 1 \in T
  <2> SUFFICES ASSUME k + 1 <= size
               PROVE  Total(f, k + 1) = measure[Span(groups, j, j + (k + 1))]
    OBVIOUS
  <2>1. Total(f, k) = measure[Span(groups, j, j + k)]
    BY <1>4
  <2>2. Total(f, k + 1) = Total(f, k) + f[k + 1]
    <3>1. Numbers(f, k + 1)
      BY <1>2 DEF Numbers
    <3>2. QED BY <3>1, TotalNext
  <2>3. f[k + 1] = measure[groups[j + (k + 1)]]
    OBVIOUS
  <2> DEFINE P == Span(groups, j, j + k)
             Q == Span(groups, j + k, j + (k + 1))
  <2>4. Q = groups[j + (k + 1)]
    <3>1. j + k \in Nat /\ (j + k) + 1 = j + (k + 1)
      OBVIOUS
    <3>2. Span(groups, j + k, (j + k) + 1) = groups[(j + k) + 1]
      BY <3>1, SpanOne
    <3>3. QED BY <3>1, <3>2
  <2>5. Span(groups, j, j + (k + 1)) = P \cup Q
    <3>1. \A a, b, c \in Nat : a <= b /\ b <= c =>
            Span(groups, a, c) = Span(groups, a, b) \cup Span(groups, b, c)
      BY SpanSplit
    <3>2. QED BY <3>1
  <2>6. P \cap Q = {}
    <3>1. j + k \in Nat /\ j + (k + 1) \in Nat /\ j <= j + k /\ j + k <= j + (k + 1)
          /\ j + (k + 1) <= Len(groups)
      BY <1>1
    <3>2. QED BY <3>1, SpansApart
  <2>7. P \in SUBSET (1 .. n) /\ Q \in SUBSET (1 .. n)
    <3>1. /\ j + k \in Nat /\ j <= j + k /\ j + k <= Len(groups)
          /\ j + (k + 1) \in 1 .. Len(groups)
      BY <1>1
    <3>2. P \in SUBSET (1 .. n)
      BY <1>1, <3>1, SpanFacts
    <3>3. QED BY <1>1, <2>4, <3>1, <3>2
  <2> HIDE DEF P, Q
  <2>8. measure[P \cup Q] = measure[P] + measure[Q]
    BY <2>6, <2>7 DEF Additive
  <2>9. QED BY <2>1, <2>2, <2>3, <2>4, <2>5, <2>8 DEF P
<1> HIDE DEF T
<1>5. Nat \subseteq T
  BY <1>3, <1>4, Induction
<1>6. QED BY <1>2, <1>5 DEF T

\* The groups an optional queue lists, and their costs, in the order of the queue.
LEMMA OptionalCosts ==
  ASSUME NEW s \in Seq(Message), NEW n \in 0 .. Len(s), NEW groups, Ordered(groups, n),
         NEW given, NEW m, NEW j, NEW x, Loose(x, groups, s, n, given, m, j),
         NEW k \in 0 .. m - j
  PROVE  /\ CostOf(SubSeq(x.optional, 1, k)) = Cost(s, Span(groups, j, j + k))
         /\ x.optional_cost = Cost(s, Span(groups, j, j + k)) + Cost(s, Span(groups, j + k, m))
<1>1. /\ m \in 0 .. Len(groups) /\ j \in 0 .. m /\ Len(x.optional) = m - j
      /\ \A i \in 1 .. m - j : x.optional[i].cost = Cost(s, groups[j + i])
      /\ x.optional_cost = Cost(s, Span(groups, j, m))
  BY DEF Loose, Split, MirrorsOptional
<1>2. /\ groups \in Seq(SUBSET (1 .. n)) /\ Len(groups) \in Nat /\ n \in Nat
      /\ \A g \in 1 .. Len(groups) : groups[g] \in SUBSET (1 .. n)
  BY SeqFacts DEF Ordered
<1>3. x.optional \in Seq(KeptGroup)
  BY DEF Loose, WindowType
<1> DEFINE first == SubSeq(x.optional, 1, k)
           costs == [g \in DOMAIN first |-> first[g].cost]
           measure == [P \in SUBSET (1 .. n) |-> Cost(s, P)]
<1>4. /\ Len(first) = k /\ DOMAIN first = 1 .. k
      /\ \A i \in 1 .. k : first[i] = x.optional[i]
  <2>1. \A i \in 1 .. k : x.optional[i] \in KeptGroup
    BY <1>1, <1>3, SeqFacts
  <2>2. /\ first \in Seq(KeptGroup)
        /\ Len(first) = IF 1 <= k THEN k - 1 + 1 ELSE 0
        /\ \A i \in 1 .. k - 1 + 1 : first[i] = x.optional[1 + i - 1]
    BY <1>1, <2>1, SubSeqProperties
  <2>3. Len(first) = k /\ DOMAIN first = 1 .. Len(first)
    BY <1>1, <2>2, SeqFacts
  <2>4. \A i \in 1 .. k : i \in 1 .. k - 1 + 1 /\ 1 + i - 1 = i
    BY <1>1
  <2>5. QED BY <2>2, <2>3, <2>4
<1>5. CostOf(first) = Total(costs, k)
  BY <1>4, Zenon DEF CostOf
<1>6. Additive(measure, n)
  BY Measures
<1>7. \A i \in 1 .. k : costs[i] = measure[groups[j + i]]
  <2>1. ASSUME NEW i \in 1 .. k PROVE costs[i] = measure[groups[j + i]]
    <3>1. i \in 1 .. m - j /\ j + i \in 1 .. Len(groups)
      BY <1>1, <1>2
    <3>2. costs[i] = first[i].cost
      BY <1>4
    <3>3. measure[groups[j + i]] = Cost(s, groups[j + i])
      BY <1>2, <3>1
    <3>4. QED BY <1>1, <1>4, <3>1, <3>2, <3>3
  <2>2. QED BY <2>1
<1> HIDE DEF measure, costs
<1>8. j \in Nat /\ k \in Nat /\ m \in Nat /\ j + k \in Nat /\ j + k <= m /\ m <= Len(groups)
      /\ j <= j + k /\ j + k <= Len(groups)
  BY <1>1, <1>2
<1>9. Total(costs, k) = measure[Span(groups, j, j + k)]
  BY <1>2, <1>6, <1>7, <1>8, SpanTotal
<1>10. Span(groups, j, j + k) \in SUBSET (1 .. n) /\ Span(groups, j + k, m) \in SUBSET (1 .. n)
  BY <1>2, <1>8, SpanFacts
<1>11. Cost(s, Span(groups, j, m))
        = Cost(s, Span(groups, j, j + k)) + Cost(s, Span(groups, j + k, m))
  <2>1. Span(groups, j, m) = Span(groups, j, j + k) \cup Span(groups, j + k, m)
    <3>1. \A a, b, c \in Nat : a <= b /\ b <= c =>
            Span(groups, a, c) = Span(groups, a, b) \cup Span(groups, b, c)
      BY SpanSplit
    <3>2. QED BY <1>8, <3>1
  <2>2. Span(groups, j, j + k) \cap Span(groups, j + k, m) = {}
    BY <1>2, <1>8, SpansApart
  <2>3. SUBSET (1 .. n) \subseteq SUBSET (1 .. Len(s))
    BY SeqFacts
  <2>4. QED BY <1>10, <2>1, <2>2, <2>3, CostPlus
<1>12. measure[Span(groups, j, j + k)] = Cost(s, Span(groups, j, j + k))
  BY <1>10 DEF measure
<1>13. QED BY <1>1, <1>5, <1>9, <1>11, <1>12

Trims(x, groups, s, n, given, m) ==
  /\ \E i : Tight(Trimmed(x), groups, s, n, given, m, i)
  /\ Trimmed(x) = [x EXCEPT !.optional = Trimmed(x).optional,
                            !.optional_cost = Trimmed(x).optional_cost]

\* _trim() keeps what is kept whole, and makes it fit.
LEMMA TrimTightens ==
  ASSUME NEW s \in Seq(Message), NEW n \in 0 .. Len(s), NEW groups, Ordered(groups, n),
         NEW given \in Nat, NEW m, NEW j, NEW x, Loose(x, groups, s, n, given, m, j)
  PROVE  Trims(x, groups, s, n, given, m)
<1>1. /\ m \in 0 .. Len(groups) /\ j \in 0 .. m /\ Len(x.optional) = m - j
      /\ m \in Nat /\ j \in Nat /\ Len(groups) \in Nat /\ n \in Nat
  BY LenProperties DEF Loose, Split, Ordered
<1>2. groups \in Seq(SUBSET (1 .. n)) /\ x \in WindowType
  BY DEF Loose, Ordered
<1> DEFINE K == m - j
           left(k) == x.optional_cost - CostOf(SubSeq(x.optional, 1, k))
           Enough(k) == k = K \/ Fits(x.required_cost + left(k))
           T == {k \in 0 .. K : Enough(k)}
           cut == CHOOSE k \in 0 .. K : Enough(k) /\ \A i \in 0 .. k - 1 :
                                          ~ Fits(x.required_cost + left(i))
           rest == SubSeq(x.optional, cut + 1, K)
<1>3. ASSUME NEW k \in 0 .. K
      PROVE  left(k) = Cost(s, Span(groups, j + k, m)) /\ left(k) \in Nat
  <2>1. /\ CostOf(SubSeq(x.optional, 1, k)) = Cost(s, Span(groups, j, j + k))
        /\ x.optional_cost = Cost(s, Span(groups, j, j + k)) + Cost(s, Span(groups, j + k, m))
    BY OptionalCosts
  <2>2. Cost(s, Span(groups, j, j + k)) \in Nat /\ Cost(s, Span(groups, j + k, m)) \in Nat
    <3>1. j + k \in Nat /\ j <= j + k /\ j + k <= Len(groups) /\ j + k <= m /\ m <= Len(groups)
      BY <1>1
    <3>2. /\ Span(groups, j, j + k) \in SUBSET (1 .. n)
          /\ Span(groups, j + k, m) \in SUBSET (1 .. n)
      BY <1>1, <1>2, <3>1, SpanFacts
    <3>3. SUBSET (1 .. n) \subseteq SUBSET (1 .. Len(s))
      BY SeqFacts
    <3>4. QED BY <3>2, <3>3, CostNat
  <2>3. QED BY <2>1, <2>2
<1> HIDE DEF left
<1>4. \E k \in 0 .. K : Enough(k) /\ \A i \in 0 .. k - 1 : ~ Fits(x.required_cost + left(i))
  <2>1. K \in T /\ T \in SUBSET Nat
    BY <1>1
  <2>2. PICK k \in T : \A i \in T : k <= i
    <3> HIDE DEF T
    <3>1. T # {}
      BY <2>1
    <3>2. QED BY <2>1, <3>1, Least
  <2>3. \A i \in 0 .. k - 1 : i \in 0 .. K /\ i \notin T
    BY <1>1, <2>2
  <2>4. QED BY <2>2, <2>3
<1>5. /\ cut \in 0 .. K /\ Enough(cut)
      /\ \A i \in 0 .. cut - 1 : ~ Fits(x.required_cost + left(i))
  BY <1>4, Zenon
<1>6. Trimmed(x) = [x EXCEPT !.optional = rest, !.optional_cost = left(cut)]
  BY <1>1, Zenon DEF Trimmed, left
<1> HIDE DEF cut
<1>7. /\ rest \in Seq(KeptGroup) /\ Len(rest) = K - cut
      /\ \A i \in 1 .. K - cut : rest[i] = x.optional[cut + i]
  <2>1. x.optional \in Seq(KeptGroup)
    BY <1>2 DEF WindowType
  <2>2. \A i \in cut + 1 .. K : x.optional[i] \in KeptGroup
    BY <1>1, <1>5, <2>1, SeqFacts
  <2>3. cut + 1 \in Int /\ K \in Int /\ cut \in Nat
    BY <1>1, <1>5
  <2>4. /\ rest \in Seq(KeptGroup)
        /\ Len(rest) = IF cut + 1 <= K THEN K - (cut + 1) + 1 ELSE 0
        /\ \A i \in 1 .. K - (cut + 1) + 1 : rest[i] = x.optional[(cut + 1) + i - 1]
    BY <2>2, <2>3, SubSeqProperties
  <2>5. Len(rest) = K - cut
    BY <1>1, <1>5, <2>4
  <2>6. \A i \in 1 .. K - cut : i \in 1 .. K - (cut + 1) + 1 /\ (cut + 1) + i - 1 = cut + i
    BY <1>1, <1>5
  <2>7. QED BY <2>4, <2>5, <2>6
<1> HIDE DEF rest
<1> DEFINE y == Trimmed(x)
           i == j + cut
<1>8. /\ y \in WindowType /\ y.optional = rest /\ y.optional_cost = left(cut)
      /\ y.group = x.group /\ y.required = x.required /\ y.required_cost = x.required_cost
      /\ y.required_given = x.required_given /\ y.overflow = x.overflow
      /\ y.mandatory_groups = x.mandatory_groups /\ y.groups = x.groups
  <2>1. left(cut) \in Nat
    BY <1>3, <1>5
  <2>2. QED BY <1>2, <1>6, <1>7, <2>1 DEF WindowType
<1> HIDE DEF y
<1>9. i \in j .. m /\ m - i = K - cut
  BY <1>1, <1>5
<1>10. Split(y, groups, given, m, i)
  <2>1. Split(x, groups, given, m, j)
    BY DEF Loose
  <2>2. i \in 0 .. m
    BY <1>1, <1>9
  <2>3. QED BY <1>7, <1>8, <1>9, <2>1, <2>2 DEF Split
<1>11. MirrorsOptional(y, groups, s, m, i)
  <2>1. MirrorsOptional(x, groups, s, m, j)
    BY DEF Loose
  <2>2. ASSUME NEW k \in 1 .. m - i
        PROVE  /\ y.optional[k].entries = groups[i + k]
               /\ y.optional[k].cost = Cost(s, groups[i + k])
               /\ y.optional[k].given = Cardinality(groups[i + k])
    <3>1. y.optional[k] = x.optional[cut + k] /\ cut + k \in 1 .. m - j /\ j + (cut + k) = i + k
      BY <1>1, <1>5, <1>7, <1>8, <1>9
    <3>2. QED BY <2>1, <3>1 DEF MirrorsOptional
  <2>3. y.optional_cost = Cost(s, Span(groups, i, m))
    BY <1>3, <1>5, <1>8
  <2>4. ASSUME i > 0 PROVE ~ Fits(y.required_cost + Cost(s, Span(groups, i - 1, m)))
    <3>1. CASE cut = 0
      BY <1>1, <1>8, <2>1, <2>4, <3>1 DEF MirrorsOptional
    <3>2. CASE cut # 0
      <4>1. cut - 1 \in 0 .. K /\ cut - 1 \in 0 .. cut - 1 /\ j + (cut - 1) = i - 1
        BY <1>1, <1>5, <3>2
      <4>2. left(cut - 1) = Cost(s, Span(groups, i - 1, m))
        BY <1>3, <4>1
      <4>3. QED BY <1>5, <1>8, <4>1, <4>2
    <3>3. QED BY <3>1, <3>2
  <2>5. QED BY <2>2, <2>3, <2>4 DEF MirrorsOptional
<1>12. MirrorsRequired(y, Required(s, n, groups, m), s, given)
  BY <1>8 DEF Loose, MirrorsRequired
<1>13. i = m \/ Fits(y.required_cost + y.optional_cost)
  BY <1>1, <1>5, <1>8
<1>14. Tight(y, groups, s, n, given, m, i)
  BY <1>8, <1>10, <1>11, <1>12, <1>13 DEF Tight, Loose
<1>15. y = [x EXCEPT !.optional = y.optional, !.optional_cost = y.optional_cost]
  BY <1>6, <1>8 DEF y
<1>16. QED BY <1>14, <1>15 DEF y, Trims

\* One more group.
LEMMA SpansGrow ==
  ASSUME NEW s \in Seq(Message), NEW n \in 0 .. Len(s), NEW a \in ScanState(n),
         Ordered(Groups(a), n), a.group # {}, NEW i \in 0 .. Len(a.groups)
  PROVE  /\ \A k \in 0 .. Len(a.groups) : Span(Groups(a), i, k) = Span(a.groups, i, k)
         /\ Span(Groups(a), i, Len(a.groups) + 1) = Span(a.groups, i, Len(a.groups)) \cup a.group
         /\ Span(a.groups, i, Len(a.groups)) \cap a.group = {}
         /\ Span(a.groups, i, Len(a.groups)) \in SUBSET (1 .. n)
         /\ Cost(s, Span(Groups(a), i, Len(a.groups) + 1))
              = Cost(s, Span(a.groups, i, Len(a.groups))) + Cost(s, a.group)
<1> DEFINE old == a.groups
           more == Groups(a)
           P == a.group
           L == Len(old)
<1>1. /\ Ordered(old, n) /\ L \in Nat /\ Len(more) = L + 1 /\ more[L + 1] = P
      /\ \A g \in 1 .. L : more[g] = old[g]
      /\ \A x \in Span(old, 0, L), y \in P : x < y
      /\ n \in Nat
  <2>1. n \in Nat
    BY SeqFacts
  <2>2. QED BY <2>1, GroupsFacts
<1>2. old \in Seq(SUBSET (1 .. n)) /\ P \in SUBSET (1 .. n)
  BY DEF ScanState
<1> HIDE DEF old, more, P, L
<1>3. ASSUME NEW k \in 0 .. L PROVE Span(more, i, k) = Span(old, i, k)
  <2>1. \A g \in i + 1 .. k : more[g] = old[g]
    BY <1>1 DEF L, old
  <2>2. QED BY <2>1, SpanSame
<1>4. i \in Nat /\ i <= L /\ L \in 0 .. L /\ L + 1 \in Nat
  BY <1>1 DEF L, old
<1>5. Span(more, i, L + 1) = Span(old, i, L) \cup P
  <2>1. \A x, y, z \in Nat : x <= y /\ y <= z =>
          Span(more, x, z) = Span(more, x, y) \cup Span(more, y, z)
    BY SpanSplit
  <2>2. Span(more, i, L + 1) = Span(more, i, L) \cup Span(more, L, L + 1)
    BY <1>1, <1>4, <2>1
  <2>3. Span(more, L, L + 1) = P
    BY <1>1, SpanOne
  <2>4. QED BY <1>3, <1>4, <2>2, <2>3
<1>6. Span(old, i, L) \in SUBSET (1 .. n)
  BY <1>1, <1>2, <1>4, SpanFacts DEF L
<1>7. Span(old, i, L) \cap P = {}
  <2>1. Span(old, i, L) \subseteq Span(old, 0, L)
    BY <1>4 DEF Span
  <2>2. \A x \in P : ~ (x < x)
    BY <1>2
  <2>3. QED BY <1>1, <2>1, <2>2
<1>8. Cost(s, Span(more, i, L + 1)) = Cost(s, Span(old, i, L)) + Cost(s, P)
  <2>1. SUBSET (1 .. n) \subseteq SUBSET (1 .. Len(s))
    BY SeqFacts
  <2>2. Span(old, i, L) \in SUBSET (1 .. Len(s)) /\ P \in SUBSET (1 .. Len(s))
    BY <1>2, <1>6, <2>1
  <2>3. Cost(s, Span(old, i, L) \cup P) = Cost(s, Span(old, i, L)) + Cost(s, P)
    BY <1>7, <2>2, CostPlus
  <2>4. QED BY <1>5, <2>3
<1>9. QED BY <1>3, <1>5, <1>6, <1>7, <1>8 DEF old, more, P, L

\* What holds when a group is closed.
Closing(x, a, s, n, given, m, j) ==
  /\ a \in ScanState(n) /\ Ordered(Groups(a), n) /\ a.group # {}
  /\ \A i \in a.group : s[i].role # "system"
  /\ Tight(x, a.groups, s, n, given, m, j)
  /\ MirrorsGroup(x.group, a.group, s, given)

\* What is required and a group.
Apart(x, s, n, R, P) ==
  /\ R \in SUBSET (1 .. n) /\ P \in SUBSET (1 .. n) /\ R \cap P = {}
  /\ x.required_cost = Cost(s, R) /\ x.group.cost = Cost(s, P)
  /\ Cost(s, R) \in Nat /\ Cost(s, P) \in Nat
  /\ Cost(s, R \cup P) = Cost(s, R) + Cost(s, P)
  /\ Fits(Cost(s, R) + Cost(s, P)) => Fits(Cost(s, R)) /\ Fits(Cost(s, P))
  /\ x.group.count > 0
OneMore(more, old, P, m, j) ==
  /\ m \in 0 .. Len(old) /\ j \in 0 .. m /\ Len(old) \in Nat /\ m \in Nat /\ j \in Nat
  /\ Len(more) = Len(old) + 1 /\ more[Len(old) + 1] = P
  /\ \A g \in 1 .. Len(old) : more[g] = old[g]

LEMMA ClosingFacts ==
  ASSUME NEW s \in Seq(Message), NEW n \in 0 .. Len(s), NEW a, NEW given \in Nat, NEW m,
         NEW j, NEW x, Closing(x, a, s, n, given, m, j)
  PROVE  Apart(x, s, n, Required(s, n, a.groups, m), a.group)
         /\ OneMore(Groups(a), a.groups, a.group, m, j)
<1> DEFINE R == Required(s, n, a.groups, m)
           P == a.group
<1>1. a \in ScanState(n) /\ Ordered(Groups(a), n) /\ P # {} /\ n \in Nat /\ Len(s) \in Nat
      /\ \A i \in P : s[i].role # "system"
  BY SeqFacts DEF Closing
<1>2. /\ m \in 0 .. Len(a.groups) /\ j \in 0 .. m
      /\ x.required_cost = Cost(s, R) /\ x.group.cost = Cost(s, P)
      /\ x.group.count = Cardinality(P)
  BY DEF Closing, Tight, Loose, Split, MirrorsRequired, MirrorsGroup
<1>3. /\ Len(a.groups) \in Nat /\ Len(Groups(a)) = Len(a.groups) + 1
      /\ Groups(a)[Len(a.groups) + 1] = P
      /\ \A g \in 1 .. Len(a.groups) : Groups(a)[g] = a.groups[g]
  BY <1>1, GroupsFacts
<1>4. P \in SUBSET (1 .. n) /\ P \in SUBSET (1 .. Len(s))
  BY <1>1 DEF ScanState
<1>5. /\ Span(a.groups, m, Len(a.groups)) \in SUBSET (1 .. n)
      /\ Span(a.groups, m, Len(a.groups)) \cap P = {}
  BY <1>1, <1>2, SpansGrow
<1>6. R \in SUBSET (1 .. n) /\ R \cap P = {}
  BY <1>1, <1>5 DEF Required
<1>7. R \in SUBSET (1 .. Len(s))
  BY <1>1, <1>6
<1> HIDE DEF R
<1>8. Cost(s, R) \in Nat /\ Cost(s, P) \in Nat /\ Cost(s, R \cup P) = Cost(s, R) + Cost(s, P)
  BY <1>4, <1>6, <1>7, CostNat, CostPlus
<1>9. Fits(Cost(s, R) + Cost(s, P)) => Fits(Cost(s, R)) /\ Fits(Cost(s, P))
  <2>1. /\ Cost(s, R) + Cost(s, P) \in Nat /\ Cost(s, R) <= Cost(s, R) + Cost(s, P)
        /\ Cost(s, P) <= Cost(s, R) + Cost(s, P)
    BY <1>8
  <2>2. QED BY <1>8, <2>1, FitsLess
<1>10. x.group.count > 0
  BY <1>1, <1>2, <1>4, PlacesFinite
<1>11. m \in Nat /\ j \in Nat
  BY <1>2, <1>3
<1>12. Apart(x, s, n, R, P)
  BY <1>2, <1>4, <1>6, <1>8, <1>9, <1>10 DEF Apart
<1>13. OneMore(Groups(a), a.groups, P, m, j)
  BY <1>2, <1>3, <1>11 DEF OneMore
<1>14. QED BY <1>12, <1>13 DEF R

\* A mandatory group is closed.
LEMMA CloseMandatory ==
  ASSUME NEW s \in Seq(Message), NEW n \in 0 .. Len(s), NEW a, NEW given \in Nat, NEW m,
         NEW j, NEW x, Closing(x, a, s, n, given, m, j), x.group.mandatory
  PROVE  LET cost == x.required_cost + x.group.cost
             y == [x EXCEPT !.groups = @ + 1, !.group = NewGroup, !.mandatory_groups = @ + 1,
                            !.required_cost = cost,
                            !.required_given = @ + x.group.given,
                            !.required = IF Fits(cost) THEN @ \cup x.group.entries ELSE @,
                            !.overflow = @ \/ ~ Fits(cost)]
         IN Loose(y, Groups(a), s, n, given, m, j)
<1> DEFINE old == a.groups
           more == Groups(a)
           L == Len(old)
           P == a.group
           R == Required(s, n, old, m)
           cost == x.required_cost + x.group.cost
           fitting == IF Fits(cost) THEN x.required \cup x.group.entries ELSE x.required
           y == [x EXCEPT !.groups = @ + 1, !.group = NewGroup, !.mandatory_groups = @ + 1,
                          !.required_cost = cost,
                          !.required_given = @ + x.group.given,
                          !.required = fitting,
                          !.overflow = @ \/ ~ Fits(cost)]
<1>1. /\ a \in ScanState(n) /\ Ordered(more, n) /\ P # {}
      /\ Tight(x, old, s, n, given, m, j) /\ MirrorsGroup(x.group, P, s, given)
      /\ x \in WindowType /\ Split(x, old, given, m, j)
      /\ MirrorsOptional(x, old, s, m, j) /\ MirrorsRequired(x, R, s, given)
  BY DEF Closing, Tight, Loose
<1>2. /\ R \in SUBSET (1 .. n) /\ P \in SUBSET (1 .. n) /\ R \cap P = {}
      /\ x.required_cost = Cost(s, R) /\ x.group.cost = Cost(s, P)
      /\ Cost(s, R) \in Nat /\ Cost(s, P) \in Nat
      /\ Cost(s, R \cup P) = Cost(s, R) + Cost(s, P)
      /\ Fits(Cost(s, R) + Cost(s, P)) => Fits(Cost(s, R)) /\ Fits(Cost(s, P))
      /\ m \in 0 .. L /\ j \in 0 .. m /\ L \in Nat /\ m \in Nat /\ j \in Nat
      /\ Len(more) = L + 1 /\ more[L + 1] = P /\ \A g \in 1 .. L : more[g] = old[g]
  <2>1. Apart(x, s, n, R, P) /\ OneMore(more, old, P, m, j)
    BY ClosingFacts
  <2> HIDE DEF R, P, old, more
  <2>2. QED BY <2>1 DEF Apart, OneMore
<1> HIDE DEF R, P, old, more, L
<1>3. Required(s, n, more, m) = R \cup P
  <2>1. Span(more, m, L + 1) = Span(old, m, L) \cup P
    BY <1>1, <1>2, SpansGrow DEF more, old, L, P
  <2>2. QED BY <1>2, <2>1 DEF Required, R, L
<1>4. /\ P \cap 1 .. given \in SUBSET (1 .. n) /\ R \cap 1 .. given \in SUBSET (1 .. n)
      /\ n \in Nat
  BY <1>2, SeqFacts
<1>5. /\ x.group.given = Cardinality(P \cap 1 .. given)
      /\ ~ (P \subseteq 1 .. given)
      /\ x.group.entries = IF Fits(Cost(s, P)) THEN P ELSE {}
  BY <1>1 DEF MirrorsGroup
<1>6. cost = Cost(s, R \cup P) /\ cost \in Nat
  BY <1>2
<1> HIDE DEF cost
<1>7. /\ x.required_given = Cardinality(R \cap 1 .. given)
      /\ x.overflow <=> ~ Fits(Cost(s, R))
      /\ Fits(Cost(s, R)) => x.required = R
      /\ x.required \subseteq R /\ Fits(Cost(s, x.required))
  BY <1>1 DEF MirrorsRequired
<1>8. /\ Fits(cost) => fitting = R \cup P
      /\ fitting \subseteq R \cup P /\ Fits(Cost(s, fitting))
  BY <1>2, <1>5, <1>6, <1>7
<1> HIDE DEF fitting
<1>9. /\ y \in WindowType
      /\ y.groups = x.groups + 1 /\ y.mandatory_groups = x.mandatory_groups + 1
      /\ y.required_cost = cost /\ y.required_given = x.required_given + x.group.given
      /\ y.required = fitting /\ y.overflow = (x.overflow \/ ~ Fits(cost))
      /\ y.optional = x.optional /\ y.optional_cost = x.optional_cost
  <2>1. fitting \in SUBSET Nat
    BY <1>2, <1>4, <1>8
  <2>2. NewGroup \in KeptGroup
    BY DEF NewGroup, KeptGroup
  <2>3. x.required_given + x.group.given \in Nat /\ x.groups + 1 \in Nat
        /\ x.mandatory_groups + 1 \in Nat
    BY <1>1 DEF WindowType, KeptGroup
  <2>4. (x.overflow \/ ~ Fits(cost)) \in BOOLEAN
    OBVIOUS
  <2>5. QED BY <1>1, <1>6, <2>1, <2>2, <2>3, <2>4 DEF WindowType
<1> HIDE DEF y
<1>10. Split(y, more, given, m, j)
  <2>1. /\ \A g \in 1 .. m : more[g] \subseteq 1 .. given
        /\ \A g \in m + 1 .. L : ~ (more[g] \subseteq 1 .. given)
    <3>1. /\ \A g \in 1 .. m : old[g] \subseteq 1 .. given
          /\ \A g \in m + 1 .. L : ~ (old[g] \subseteq 1 .. given)
      BY <1>1 DEF Split, L
    <3>2. \A g \in 1 .. m : more[g] = old[g]
      BY <1>2
    <3>3. \A g \in m + 1 .. L : more[g] = old[g]
      BY <1>2
    <3>4. QED BY <3>1, <3>2, <3>3
  <2>2. \A g \in m + 1 .. L + 1 : g \in m + 1 .. L \/ g = L + 1
    BY <1>2
  <2>3. \A g \in m + 1 .. L + 1 : ~ (more[g] \subseteq 1 .. given)
    BY <1>2, <1>5, <2>1, <2>2
  <2>4. /\ y.groups = L + 1 /\ y.mandatory_groups = L + 1 - m /\ Len(y.optional) = m - j
        /\ m \in 0 .. L + 1
    BY <1>1, <1>2, <1>9 DEF Split, L
  <2>5. QED BY <1>2, <2>1, <2>3, <2>4 DEF Split
<1>11. MirrorsOptional(y, more, s, m, j)
  <2>1. ASSUME NEW i \in 1 .. m - j PROVE more[j + i] = old[j + i]
    <3>1. j + i \in 1 .. L
      BY <1>2
    <3>2. QED BY <1>2, <3>1
  <2>2. ASSUME NEW i \in 0 .. L PROVE Span(more, i, m) = Span(old, i, m)
    <3>1. \A k \in 0 .. L : Span(more, i, k) = Span(old, i, k)
      BY <1>1, SpansGrow DEF more, old, L, P
    <3>2. QED BY <1>2, <3>1
  <2>3. Span(more, j, m) = Span(old, j, m)
    BY <1>2, <2>2
  <2>4. ASSUME j > 0 PROVE ~ Fits(y.required_cost + Cost(s, Span(more, j - 1, m)))
    <3>1. /\ j - 1 \in 0 .. L /\ j - 1 \in Nat /\ j - 1 <= m /\ m <= L
      BY <1>2, <2>4
    <3>2. Span(more, j - 1, m) = Span(old, j - 1, m)
      BY <2>2, <3>1
    <3>3. Cost(s, Span(old, j - 1, m)) \in Nat
      <4>1. old \in Seq(SUBSET (1 .. n))
        BY <1>1 DEF ScanState, old
      <4>2. Span(old, j - 1, m) \in SUBSET (1 .. n)
        BY <1>2, <1>4, <3>1, <4>1, SpanFacts DEF L
      <4>3. Span(old, j - 1, m) \in SUBSET (1 .. Len(s))
        BY <4>2, SeqFacts
      <4>4. QED BY <4>3, CostNat
    <3>4. ~ Fits(x.required_cost + Cost(s, Span(old, j - 1, m)))
      BY <1>1, <2>4 DEF MirrorsOptional
    <3>5. x.required_cost <= cost /\ x.required_cost \in Nat
      BY <1>2 DEF cost
    <3> DEFINE less == x.required_cost + Cost(s, Span(old, j - 1, m))
               most == cost + Cost(s, Span(old, j - 1, m))
    <3>6. less \in Nat /\ most \in Nat /\ less <= most
      BY <1>6, <3>3, <3>5
    <3> HIDE DEF less, most
    <3>7. Fits(most) => Fits(less)
      BY <3>6, FitsLess
    <3>8. QED BY <1>9, <3>2, <3>4, <3>7 DEF less, most
  <2>5. QED BY <1>1, <1>9, <2>1, <2>3, <2>4 DEF MirrorsOptional
<1>12. MirrorsRequired(y, R \cup P, s, given)
  <2>1. (R \cup P) \cap 1 .. given = (R \cap 1 .. given) \cup (P \cap 1 .. given)
        /\ (R \cap 1 .. given) \cap (P \cap 1 .. given) = {}
    BY <1>2
  <2>2. Cardinality((R \cup P) \cap 1 .. given)
          = Cardinality(R \cap 1 .. given) + Cardinality(P \cap 1 .. given)
    <3> DEFINE r == R \cap 1 .. given
               p == P \cap 1 .. given
    <3>1. r \in SUBSET (1 .. n) /\ p \in SUBSET (1 .. n) /\ r \cap p = {}
      BY <1>4, <2>1
    <3> HIDE DEF r, p
    <3>2. Cardinality(r \cup p) = Cardinality(r) + Cardinality(p)
      BY <1>4, <3>1, CountPlus
    <3>3. QED BY <2>1, <3>2 DEF r, p
  <2>3. y.overflow <=> ~ Fits(cost)
    BY <1>2, <1>6, <1>7, <1>9
  <2>4. QED BY <1>5, <1>6, <1>7, <1>8, <1>9, <2>2, <2>3 DEF MirrorsRequired
<1>13. Loose(y, more, s, n, given, m, j)
  BY <1>3, <1>9, <1>10, <1>11, <1>12 DEF Loose
<1>14. QED BY <1>13 DEF y, more, fitting, cost

\* A group that is not mandatory closes before any that is.
LEMMA OptionalIsLast ==
  ASSUME NEW s \in Seq(Message), NEW n \in 0 .. Len(s), NEW a, NEW given \in Nat, NEW m,
         NEW j, NEW x, Closing(x, a, s, n, given, m, j), ~ x.group.mandatory
  PROVE  /\ m = Len(a.groups) /\ a.group \subseteq 1 .. given
         /\ Required(s, n, Groups(a), m + 1) = Required(s, n, a.groups, m)
         /\ \A g \in 1 .. m + 1 : Groups(a)[g] \subseteq 1 .. given
<1> DEFINE old == a.groups
           more == Groups(a)
           L == Len(old)
           P == a.group
<1>1. /\ a \in ScanState(n) /\ Ordered(more, n) /\ P # {}
      /\ Split(x, old, given, m, j) /\ MirrorsGroup(x.group, P, s, given)
  BY DEF Closing, Tight, Loose
<1>2. P \subseteq 1 .. given /\ P \in SUBSET (1 .. n)
  BY <1>1 DEF MirrorsGroup, ScanState
<1>3. OneMore(more, old, P, m, j)
  BY ClosingFacts
<1>4. /\ Ordered(old, n) /\ \A y \in Span(old, 0, L), z \in P : y < z
  <2>1. n \in Nat
    BY SeqFacts
  <2>2. QED BY <1>1, <2>1, GroupsFacts
<1> HIDE DEF P, old, more
<1>5. m = L
  <2> SUFFICES ASSUME m # L PROVE FALSE
    OBVIOUS
  <2>1. L \in m + 1 .. L /\ L \in 1 .. L
    BY <1>3 DEF OneMore
  <2>2. old[L] \subseteq 1 .. n /\ ~ (old[L] \subseteq 1 .. given)
    BY <1>1, <1>4, <2>1, SeqFacts DEF Split, Ordered
  <2>3. PICK e \in old[L] : e \notin 1 .. given
    BY <2>2
  <2>4. PICK p \in P : TRUE
    BY <1>1
  <2>5. e \in Span(old, 0, L)
    BY <2>1, <2>3 DEF Span
  <2>6. e < p /\ p <= given /\ e \in Nat /\ e >= 1 /\ p \in Nat
    BY <1>2, <1>4, <2>2, <2>3, <2>4, <2>5
  <2>7. QED BY <2>3, <2>6
<1>6. Span(more, m + 1, Len(more)) = {} /\ Span(old, m, L) = {}
  <2>1. Len(more) = m + 1 /\ m \in Nat
    BY <1>3, <1>5 DEF OneMore
  <2>2. m + 1 + 1 .. Len(more) = {} /\ m + 1 .. L = {}
    BY <1>5, <2>1
  <2>3. QED BY <2>2 DEF Span
<1>7. ASSUME NEW g \in 1 .. m + 1 PROVE more[g] \subseteq 1 .. given
  <2>1. g \in 1 .. m \/ g = m + 1
    BY <1>3 DEF OneMore
  <2>2. CASE g \in 1 .. m
    BY <1>1, <1>3, <1>5, <2>2 DEF Split, OneMore
  <2>3. CASE g = m + 1
    BY <1>2, <1>3, <1>5, <2>3 DEF OneMore
  <2>4. QED BY <2>1, <2>2, <2>3
<1>8. QED BY <1>2, <1>5, <1>6, <1>7 DEF Required, P, old, more

\* A group that cannot fit shuts out all before it.
LEMMA CloseTooLarge ==
  ASSUME NEW s \in Seq(Message), NEW n \in 0 .. Len(s), NEW a, NEW given \in Nat, NEW m,
         NEW j, NEW x, Closing(x, a, s, n, given, m, j), ~ x.group.mandatory,
         ~ Fits(x.required_cost + x.group.cost)
  PROVE  LET y == [x EXCEPT !.groups = @ + 1, !.group = NewGroup, !.optional = <<>>,
                            !.optional_cost = 0]
         IN Tight(y, Groups(a), s, n, given, m + 1, m + 1)
<1> DEFINE old == a.groups
           more == Groups(a)
           P == a.group
           R == Required(s, n, old, m)
           y == [x EXCEPT !.groups = @ + 1, !.group = NewGroup, !.optional = <<>>,
                          !.optional_cost = 0]
<1>1. /\ x \in WindowType /\ Split(x, old, given, m, j) /\ MirrorsRequired(x, R, s, given)
  BY DEF Closing, Tight, Loose
<1>2. /\ m = Len(old) /\ Required(s, n, more, m + 1) = R
      /\ \A g \in 1 .. m + 1 : more[g] \subseteq 1 .. given
  BY OptionalIsLast
<1>3. OneMore(more, old, P, m, j) /\ Apart(x, s, n, R, P)
  BY ClosingFacts
<1> HIDE DEF P, old, more, R
<1>4. /\ y \in WindowType
      /\ y.groups = x.groups + 1 /\ y.mandatory_groups = x.mandatory_groups
      /\ y.required_cost = x.required_cost /\ y.required_given = x.required_given
      /\ y.required = x.required /\ y.overflow = x.overflow
      /\ y.optional = <<>> /\ y.optional_cost = 0
  <2>1. NewGroup \in KeptGroup /\ <<>> \in Seq(KeptGroup)
    BY DEF NewGroup, KeptGroup
  <2>2. x.groups + 1 \in Nat /\ 0 \in Nat
    BY <1>1 DEF WindowType
  <2>3. QED BY <1>1, <2>1, <2>2 DEF WindowType
<1> HIDE DEF y
<1>5. Split(y, more, given, m + 1, m + 1)
  <2>1. /\ m \in Nat /\ Len(more) = m + 1 /\ y.groups = m + 1 /\ y.mandatory_groups = 0
        /\ Len(y.optional) = 0
    BY <1>1, <1>2, <1>3, <1>4 DEF Split, OneMore
  <2>2. QED BY <1>2, <2>1 DEF Split
<1>6. MirrorsOptional(y, more, s, m + 1, m + 1)
  <2>1. m \in Nat
    BY <1>3 DEF OneMore
  <2>2. Span(more, m + 1, m + 1) = {}
    BY <2>1 DEF Span
  <2>3. Cost(s, {}) = 0
    BY CostNone
  <2>4. Span(more, (m + 1) - 1, m + 1) = P
    <3>1. \A k \in Nat : Span(more, k, k + 1) = more[k + 1]
      BY SpanOne
    <3>2. Span(more, m, m + 1) = more[m + 1] /\ (m + 1) - 1 = m
      BY <2>1, <3>1
    <3>3. QED BY <1>2, <1>3, <3>2 DEF OneMore
  <2>5. ~ Fits(y.required_cost + Cost(s, P))
    BY <1>3, <1>4 DEF Apart
  <2>6. 1 .. (m + 1) - (m + 1) = {}
    BY <2>1
  <2>7. y.optional_cost = Cost(s, Span(more, m + 1, m + 1))
    BY <1>4, <2>2, <2>3
  <2>8. ~ Fits(y.required_cost + Cost(s, Span(more, (m + 1) - 1, m + 1)))
    BY <2>4, <2>5
  <2> DEFINE k == m + 1
  <2>9. \A i : i \notin 1 .. k - k
    BY <2>1
  <2>10. y.optional_cost = Cost(s, Span(more, k, k))
    BY <2>7
  <2>11. ~ Fits(y.required_cost + Cost(s, Span(more, k - 1, k)))
    BY <2>8
  <2> HIDE DEF k
  <2>12. MirrorsOptional(y, more, s, k, k)
    BY <2>9, <2>10, <2>11, Zenon DEF MirrorsOptional
  <2>13. QED BY <2>12 DEF k
<1>7. MirrorsRequired(y, R, s, given)
  BY <1>1, <1>4 DEF MirrorsRequired
<1>8. Tight(y, more, s, n, given, m + 1, m + 1)
  BY <1>2, <1>4, <1>5, <1>6, <1>7 DEF Tight, Loose
<1>9. QED BY <1>8 DEF y, more

LEMMA CloseOptional ==
  ASSUME NEW s \in Seq(Message), NEW n \in 0 .. Len(s), NEW a, NEW given \in Nat, NEW m,
         NEW j, NEW x, Closing(x, a, s, n, given, m, j), ~ x.group.mandatory,
         Fits(x.required_cost + x.group.cost)
  PROVE  LET y == [x EXCEPT !.groups = @ + 1, !.group = NewGroup,
                            !.optional = Append(@, x.group),
                            !.optional_cost = @ + x.group.cost]
         IN Loose(y, Groups(a), s, n, given, m + 1, j)
<1> DEFINE old == a.groups
           more == Groups(a)
           P == a.group
           R == Required(s, n, old, m)
           kept == Append(x.optional, x.group)
           y == [x EXCEPT !.groups = @ + 1, !.group = NewGroup, !.optional = kept,
                          !.optional_cost = @ + x.group.cost]
<1>1. /\ x \in WindowType /\ Split(x, old, given, m, j) /\ MirrorsRequired(x, R, s, given)
      /\ MirrorsOptional(x, old, s, m, j) /\ MirrorsGroup(x.group, P, s, given)
      /\ a \in ScanState(n) /\ Ordered(more, n) /\ P # {}
  BY DEF Closing, Tight, Loose
<1>2. /\ m = Len(old) /\ Required(s, n, more, m + 1) = R /\ P \subseteq 1 .. given
      /\ \A g \in 1 .. m + 1 : more[g] \subseteq 1 .. given
  BY OptionalIsLast
<1>3. OneMore(more, old, P, m, j) /\ Apart(x, s, n, R, P)
  BY ClosingFacts
<1>4. /\ \A i \in 0 .. m :
           /\ Cost(s, Span(more, i, m + 1)) = Cost(s, Span(old, i, m)) + Cost(s, P)
           /\ Span(old, i, m) \in SUBSET (1 .. n)
  <2>1. ASSUME NEW i \in 0 .. Len(old)
        PROVE  /\ Cost(s, Span(more, i, Len(old) + 1))
                    = Cost(s, Span(old, i, Len(old))) + Cost(s, P)
               /\ Span(old, i, Len(old)) \in SUBSET (1 .. n)
    BY <1>1, SpansGrow
  <2> HIDE DEF P, old, more
  <2>2. QED BY <1>2, <2>1
<1> HIDE DEF P, old, more, R
<1>5. /\ kept \in Seq(KeptGroup) /\ Len(kept) = m - j + 1
      /\ \A i \in 1 .. m - j : kept[i] = x.optional[i]
      /\ kept[m - j + 1] = x.group
  <2>1. x.optional \in Seq(KeptGroup) /\ x.group \in KeptGroup /\ Len(x.optional) = m - j
    BY <1>1 DEF WindowType, Split
  <2>2. QED BY <2>1, AppendFacts
<1> HIDE DEF kept
<1>6. /\ y \in WindowType
      /\ y.groups = x.groups + 1 /\ y.mandatory_groups = x.mandatory_groups
      /\ y.required_cost = x.required_cost /\ y.required_given = x.required_given
      /\ y.required = x.required /\ y.overflow = x.overflow
      /\ y.optional = kept /\ y.optional_cost = x.optional_cost + x.group.cost
  <2>1. NewGroup \in KeptGroup
    BY DEF NewGroup, KeptGroup
  <2>2. x.optional_cost + x.group.cost \in Nat /\ x.groups + 1 \in Nat
    BY <1>1 DEF WindowType, KeptGroup
  <2>3. QED BY <1>1, <1>5, <2>1, <2>2 DEF WindowType
<1> HIDE DEF y
<1>7. m \in Nat /\ j \in Nat /\ j \in 0 .. m /\ Len(more) = m + 1 /\ more[m + 1] = P
      /\ \A g \in 1 .. m : more[g] = old[g]
  BY <1>2, <1>3 DEF OneMore
<1>8. Split(y, more, given, m + 1, j)
  <2>1. /\ y.groups = m + 1 /\ y.mandatory_groups = 0 /\ Len(y.optional) = (m + 1) - j
    BY <1>1, <1>2, <1>5, <1>6, <1>7 DEF Split
  <2>2. j \in 0 .. m + 1 /\ m + 1 \in 0 .. Len(more)
    BY <1>7
  <2>3. QED BY <1>2, <1>7, <2>1, <2>2 DEF Split
<1>9. MirrorsOptional(y, more, s, m + 1, j)
  <2>1. ASSUME NEW i \in 1 .. (m + 1) - j
        PROVE  /\ y.optional[i].entries = more[j + i]
               /\ y.optional[i].cost = Cost(s, more[j + i])
               /\ y.optional[i].given = Cardinality(more[j + i])
    <3>1. i \in 1 .. m - j \/ i = m - j + 1
      BY <1>7
    <3>2. CASE i \in 1 .. m - j
      <4>1. j + i \in 1 .. m
        BY <1>7, <3>2
      <4>2. more[j + i] = old[j + i] /\ y.optional[i] = x.optional[i]
        BY <1>5, <1>6, <1>7, <3>2, <4>1
      <4>3. QED BY <1>1, <3>2, <4>2 DEF MirrorsOptional
    <3>3. CASE i = m - j + 1
      <4>1. more[j + i] = P /\ y.optional[i] = x.group
        BY <1>5, <1>6, <1>7, <3>3
      <4>2. /\ x.group.cost = Cost(s, P)
            /\ x.group.given = Cardinality(P \cap 1 .. given)
            /\ x.group.entries = IF Fits(Cost(s, P)) THEN P ELSE {}
        BY <1>1 DEF MirrorsGroup
      <4>3. Fits(Cost(s, P)) /\ P \cap 1 .. given = P
        BY <1>2, <1>3 DEF Apart
      <4>4. QED BY <4>1, <4>2, <4>3
    <3>4. QED BY <3>1, <3>2, <3>3
  <2>2. y.optional_cost = Cost(s, Span(more, j, m + 1))
    BY <1>1, <1>3, <1>4, <1>6, <1>7 DEF MirrorsOptional, Apart
  <2>3. ASSUME j > 0 PROVE ~ Fits(y.required_cost + Cost(s, Span(more, j - 1, m + 1)))
    <3>1. j - 1 \in 0 .. m
      BY <1>7, <2>3
    <3> DEFINE span == Span(old, j - 1, m)
    <3>2. Cost(s, Span(more, j - 1, m + 1)) = Cost(s, span) + Cost(s, P)
          /\ span \in SUBSET (1 .. n)
      BY <1>4, <3>1
    <3>3. ~ Fits(x.required_cost + Cost(s, span))
      BY <1>1, <2>3 DEF MirrorsOptional
    <3> HIDE DEF span
    <3>4. Cost(s, span) \in Nat /\ Cost(s, P) \in Nat /\ x.required_cost \in Nat
      <4>1. span \in SUBSET (1 .. Len(s))
        BY <3>2, SeqFacts
      <4>2. QED BY <1>3, <4>1, CostNat DEF Apart
    <3> DEFINE less == x.required_cost + Cost(s, span)
               most == x.required_cost + (Cost(s, span) + Cost(s, P))
    <3>5. less \in Nat /\ most \in Nat /\ less <= most
      BY <3>4
    <3> HIDE DEF less, most
    <3>6. Fits(most) => Fits(less)
      BY <3>5, FitsLess
    <3>7. QED BY <1>6, <3>2, <3>3, <3>6 DEF less, most
  <2>4. QED BY <2>1, <2>2, <2>3 DEF MirrorsOptional
<1>10. MirrorsRequired(y, R, s, given)
  BY <1>1, <1>6 DEF MirrorsRequired
<1>11. Loose(y, more, s, n, given, m + 1, j)
  BY <1>2, <1>6, <1>8, <1>9, <1>10 DEF Loose
<1>12. QED BY <1>11 DEF y, more, kept

ClosesWell(x, a, s, n, given) ==
  /\ \E k, i : Tight(CloseGroup(x), Groups(a), s, n, given, k, i)
  /\ CloseGroup(x).open = x.open /\ CloseGroup(x).total = x.total
  /\ CloseGroup(x).failure = x.failure
  /\ CloseGroup(x).group = IF a.group = {} THEN x.group ELSE NewGroup

\* A group is closed, or there is none to close.
LEMMA CloseTightens ==
  ASSUME NEW s \in Seq(Message), NEW n \in 0 .. Len(s), NEW a, WellScanned(a, s, n),
         a.error = "none", NEW given \in Nat, NEW m, NEW j, NEW x,
         Tight(x, a.groups, s, n, given, m, j), MirrorsGroup(x.group, a.group, s, given)
  PROVE  ClosesWell(x, a, s, n, given)
<1> DEFINE more == Groups(a)
<1>1. /\ a \in ScanState(n) /\ Ordered(more, n) /\ a.group \in SUBSET (1 .. n) /\ n \in Nat
      /\ \A i \in a.group : s[i].role # "system"
  BY SeqFacts DEF WellScanned, ScanState
<1>2. x \in WindowType /\ x.group.count = Cardinality(a.group)
  BY DEF Tight, Loose, MirrorsGroup
<1>3. x.group.count = 0 <=> a.group = {}
  BY <1>1, <1>2, PlacesFinite
<1>4. CASE a.group = {}
  <2>1. CloseGroup(x) = x
    BY <1>3, <1>4 DEF CloseGroup
  <2>2. more = a.groups
    BY <1>4 DEF Groups
  <2>3. QED BY <1>4, <2>1, <2>2 DEF ClosesWell
<1>5. CASE a.group # {}
  <2>1. Closing(x, a, s, n, given, m, j)
    BY <1>1, <1>5 DEF Closing
  <2> DEFINE cost == x.required_cost + x.group.cost
             fitting == IF Fits(cost) THEN x.required \cup x.group.entries ELSE x.required
             mandatory == [x EXCEPT !.groups = @ + 1, !.group = NewGroup,
                                    !.mandatory_groups = @ + 1, !.required_cost = cost,
                                    !.required_given = @ + x.group.given,
                                    !.required = IF Fits(cost) THEN @ \cup x.group.entries
                                                 ELSE @,
                                    !.overflow = @ \/ ~ Fits(cost)]
             tooLarge == [x EXCEPT !.groups = @ + 1, !.group = NewGroup, !.optional = <<>>,
                                   !.optional_cost = 0]
             optional == [x EXCEPT !.groups = @ + 1, !.group = NewGroup,
                                   !.optional = Append(@, x.group),
                                   !.optional_cost = @ + x.group.cost]
  <2>2. CASE x.group.mandatory
    <3>1. CloseGroup(x) = Trimmed(mandatory)
      BY <1>2, <1>3, <1>5, <2>2 DEF CloseGroup, WindowType
    <3>2. Loose(mandatory, more, s, n, given, m, j)
      BY <2>1, <2>2, CloseMandatory
    <3>3. /\ mandatory.open = x.open /\ mandatory.total = x.total
          /\ mandatory.failure = x.failure /\ mandatory.group = NewGroup
      BY <1>2 DEF WindowType
    <3>4. mandatory \in WindowType
      BY <3>2 DEF Loose
    <3> HIDE DEF mandatory, more
    <3>5. Trims(mandatory, more, s, n, given, m)
      BY <1>1, <3>2, TrimTightens
    <3>6. /\ Trimmed(mandatory).open = x.open /\ Trimmed(mandatory).total = x.total
          /\ Trimmed(mandatory).failure = x.failure /\ Trimmed(mandatory).group = NewGroup
      BY <3>3, <3>4, <3>5 DEF WindowType, Trims
    <3>7. QED BY <1>5, <3>1, <3>5, <3>6 DEF more, Trims, ClosesWell
  <2>3. CASE ~ x.group.mandatory /\ ~ Fits(cost)
    <3>1. CloseGroup(x) = tooLarge
      BY <1>2, <1>3, <1>5, <2>3 DEF CloseGroup, WindowType
    <3>2. Tight(tooLarge, more, s, n, given, m + 1, m + 1)
      BY <2>1, <2>3, CloseTooLarge
    <3>3. /\ tooLarge.open = x.open /\ tooLarge.total = x.total
          /\ tooLarge.failure = x.failure /\ tooLarge.group = NewGroup
      BY <1>2 DEF WindowType
    <3> HIDE DEF tooLarge
    <3>4. QED BY <1>5, <3>1, <3>2, <3>3 DEF ClosesWell
  <2>4. CASE ~ x.group.mandatory /\ Fits(cost)
    <3>1. CloseGroup(x) = Trimmed(optional)
      BY <1>2, <1>3, <1>5, <2>4 DEF CloseGroup, WindowType
    <3>2. Loose(optional, more, s, n, given, m + 1, j)
      BY <2>1, <2>4, CloseOptional
    <3>3. /\ optional.open = x.open /\ optional.total = x.total
          /\ optional.failure = x.failure /\ optional.group = NewGroup
      BY <1>2 DEF WindowType
    <3>4. optional \in WindowType
      BY <3>2 DEF Loose
    <3> HIDE DEF optional, more
    <3>5. Trims(optional, more, s, n, given, m + 1)
      BY <1>1, <3>2, TrimTightens
    <3>6. /\ Trimmed(optional).open = x.open /\ Trimmed(optional).total = x.total
          /\ Trimmed(optional).failure = x.failure /\ Trimmed(optional).group = NewGroup
      BY <3>3, <3>4, <3>5 DEF WindowType, Trims
    <3>7. QED BY <1>5, <3>1, <3>5, <3>6 DEF more, Trims, ClosesWell
  <2>5. QED BY <1>2, <2>2, <2>3, <2>4
<1>6. QED BY <1>4, <1>5

Reached(a, m, boundary) == IF Closes(a, m, boundary) THEN Closed(a) ELSE a
Ready(x, m, boundary) == IF StartsGroup(x, m, boundary) THEN CloseGroup(x) ELSE x

StartsWell(x, y, b, s, n, given) ==
  /\ \E k, i : Tight(y, b.groups, s, n, given, k, i)
  /\ MirrorsGroup(y.group, b.group, s, given)
  /\ y.open = x.open /\ y.total = x.total /\ y.failure = x.failure

\* A message that starts a group closes the one before it, in both.
LEMMA StartTightens ==
  ASSUME NEW s \in Seq(Message), NEW n \in 0 .. Len(s), NEW a, WellScanned(a, s, n),
         a.error = "none", NEW given \in Nat, NEW x, NEW k, NEW i,
         Tight(x, a.groups, s, n, given, k, i), MirrorsGroup(x.group, a.group, s, given),
         x.open = a.open, NEW m, NEW boundary
  PROVE  StartsWell(x, Ready(x, m, boundary), Reached(a, m, boundary), s, n, given)
<1>1. /\ a \in ScanState(n) /\ Ordered(Groups(a), n) /\ n \in Nat /\ {} \in SUBSET (1 .. Len(s))
  BY SeqFacts DEF WellScanned
<1>2. MirrorsGroup(NewGroup, {}, s, given)
  <2>1. Cost(s, {}) = 0 /\ Cardinality({}) = 0 /\ {} \cap 1 .. given = {}
    BY <1>1, CostNone, FS_EmptySet
  <2>2. QED BY <2>1 DEF MirrorsGroup, NewGroup
<1>3. ClosesWell(x, a, s, n, given)
  BY CloseTightens
<1>4. CASE ~ StartsGroup(x, m, boundary)
  <2>1. Ready(x, m, boundary) = x /\ Reached(a, m, boundary) = a
    BY <1>4 DEF StartsGroup, Closes, Ready, Reached
  <2>2. QED BY <2>1 DEF StartsWell
<1>5. CASE StartsGroup(x, m, boundary) /\ a.group = {}
  <2>1. /\ Ready(x, m, boundary) = CloseGroup(x) /\ Reached(a, m, boundary) = a
        /\ Groups(a) = a.groups
    BY <1>5 DEF Closes, Groups, Ready, Reached
  <2>2. QED BY <1>3, <1>5, <2>1 DEF ClosesWell, StartsWell
<1>6. CASE StartsGroup(x, m, boundary) /\ a.group # {}
  <2>1. Ready(x, m, boundary) = CloseGroup(x) /\ Reached(a, m, boundary) = Closed(a)
    BY <1>6 DEF StartsGroup, Closes, Ready, Reached
  <2>2. Closed(a).groups = Groups(a) /\ Closed(a).group = {}
    BY <1>1, <1>6, ClosedFacts
  <2>3. QED BY <1>2, <1>3, <1>6, <2>1, <2>2 DEF ClosesWell, StartsWell
<1>7. QED BY <1>4, <1>5, <1>6

-----------------------------------------------------------------------------
(* One more message.                                                         *)

\* The places of one sequence are, up to n, those of the other, with the same costs.
SameUpTo(s, t, n, given, later) ==
  /\ \A P \in SUBSET (1 .. n) : /\ Cost(t, P) = Cost(s, P)
                                /\ P \cap 1 .. later = P \cap 1 .. given
                                /\ P \subseteq 1 .. later <=> P \subseteq 1 .. given
  /\ \A i \in 1 .. n : t[i] = s[i]

LEMMA AppendSame ==
  ASSUME NEW s \in Seq(Message), NEW m \in Message, NEW given \in Nat, NEW later \in Nat,
         \A i \in 1 .. Len(s) : i <= given <=> i <= later
  PROVE  SameUpTo(s, Append(s, m), Len(s), given, later)
<1>1. \A P \in SUBSET (1 .. Len(s)) : Cost(Append(s, m), P) = Cost(s, P)
  BY CostAppend
<1>2. \A i \in 1 .. Len(s) : i \in 1 .. given <=> i \in 1 .. later
  BY SeqFacts
<1>3. \A i \in 1 .. Len(s) : Append(s, m)[i] = s[i]
  BY AppendFacts
<1>4. QED BY <1>1, <1>2, <1>3 DEF SameUpTo

LEMMA TightSame ==
  ASSUME NEW s \in Seq(Message), NEW t, NEW n \in 0 .. Len(s), NEW given, NEW later,
         SameUpTo(s, t, n, given, later),
         NEW groups, Ordered(groups, n), NEW m, NEW j, NEW x, Tight(x, groups, s, n, given, m, j)
  PROVE  Tight(x, groups, t, n, later, m, j)
<1>1. /\ x \in WindowType /\ Split(x, groups, given, m, j)
      /\ MirrorsOptional(x, groups, s, m, j)
      /\ MirrorsRequired(x, Required(s, n, groups, m), s, given)
      /\ j = m \/ Fits(x.required_cost + x.optional_cost)
  BY DEF Tight, Loose
<1>2. /\ groups \in Seq(SUBSET (1 .. n)) /\ Len(groups) \in Nat /\ n \in Nat
      /\ \A g \in 1 .. Len(groups) : groups[g] \in SUBSET (1 .. n)
  BY SeqFacts DEF Ordered
<1>3. m \in 0 .. Len(groups) /\ j \in 0 .. m /\ m \in Nat /\ j \in Nat
  BY <1>1, <1>2 DEF Split
<1>4. ASSUME NEW i \in Nat, NEW k \in Nat, i <= k, k <= Len(groups)
      PROVE  Cost(t, Span(groups, i, k)) = Cost(s, Span(groups, i, k))
             /\ Span(groups, i, k) \in SUBSET (1 .. n)
  <2>1. Span(groups, i, k) \in SUBSET (1 .. n)
    BY <1>2, <1>4, SpanFacts
  <2>2. QED BY <2>1 DEF SameUpTo
<1>5. Split(x, groups, later, m, j)
  <2>1. \A g \in 1 .. m : g \in 1 .. Len(groups)
    BY <1>2, <1>3
  <2>2. \A g \in m + 1 .. Len(groups) : g \in 1 .. Len(groups)
    BY <1>2, <1>3
  <2>3. \A g \in 1 .. Len(groups) :
          groups[g] \subseteq 1 .. later <=> groups[g] \subseteq 1 .. given
    BY <1>2 DEF SameUpTo
  <2>4. QED BY <1>1, <2>1, <2>2, <2>3 DEF Split
<1>6. MirrorsOptional(x, groups, t, m, j)
  <2>1. \A i \in 1 .. m - j : j + i \in 1 .. Len(groups)
    BY <1>2, <1>3
  <2>2. \A i \in 1 .. m - j : Cost(t, groups[j + i]) = Cost(s, groups[j + i])
    BY <1>2, <2>1 DEF SameUpTo
  <2>3. Cost(t, Span(groups, j, m)) = Cost(s, Span(groups, j, m))
    BY <1>2, <1>3, <1>4
  <2>4. ASSUME j > 0
        PROVE  Cost(t, Span(groups, j - 1, m)) = Cost(s, Span(groups, j - 1, m))
    <3>1. j - 1 \in Nat /\ j - 1 <= m /\ m <= Len(groups)
      BY <1>2, <1>3, <2>4
    <3>2. QED BY <1>3, <1>4, <3>1
  <2>5. QED BY <1>1, <2>2, <2>3, <2>4 DEF MirrorsOptional
<1>7. Required(t, n, groups, m) = Required(s, n, groups, m)
  BY DEF Required, SameUpTo
<1>8. MirrorsRequired(x, Required(s, n, groups, m), t, later)
  <2> DEFINE R == Required(s, n, groups, m)
  <2>1. R \in SUBSET (1 .. n)
    BY <1>2, <1>3, <1>4 DEF Required
  <2> HIDE DEF R
  <2>2. MirrorsRequired(x, R, s, given)
    BY <1>1 DEF R
  <2>3. x.required \in SUBSET (1 .. n)
    BY <2>1, <2>2 DEF MirrorsRequired
  <2>4. /\ Cost(t, R) = Cost(s, R) /\ Cost(t, x.required) = Cost(s, x.required)
        /\ R \cap 1 .. later = R \cap 1 .. given
    BY <2>1, <2>3 DEF SameUpTo
  <2>5. MirrorsRequired(x, R, t, later)
    BY <2>2, <2>4 DEF MirrorsRequired
  <2>6. QED BY <2>5 DEF R
<1>9. QED BY <1>1, <1>5, <1>6, <1>7, <1>8 DEF Tight, Loose

LEMMA GroupSame ==
  ASSUME NEW s, NEW t, NEW n, NEW given, NEW later, SameUpTo(s, t, n, given, later),
         NEW P \in SUBSET (1 .. n), NEW g, MirrorsGroup(g, P, s, given)
  PROVE  MirrorsGroup(g, P, t, later)
<1>1. /\ Cost(t, P) = Cost(s, P) /\ P \cap 1 .. later = P \cap 1 .. given
      /\ P \subseteq 1 .. later <=> P \subseteq 1 .. given
  BY DEF SameUpTo
<1>2. QED BY <1>1 DEF MirrorsGroup

\* A place behind the others.
LEMMA OnePlace ==
  ASSUME NEW s \in Seq(Message), NEW m \in Message, NEW P \in SUBSET (1 .. Len(s)),
         NEW later \in Nat
  PROVE  /\ Cost(Append(s, m), P \cup {Len(s) + 1}) = Cost(Append(s, m), P) + m.size + 1
         /\ Cost(Append(s, m), P) \in Nat /\ m.size \in Nat
         /\ Cardinality(P \cup {Len(s) + 1}) = Cardinality(P) + 1
         /\ Cardinality(P) \in Nat /\ Cardinality(P \cap 1 .. later) \in Nat
         /\ Cardinality((P \cup {Len(s) + 1}) \cap 1 .. later)
              = Cardinality(P \cap 1 .. later) + (IF Len(s) + 1 > later THEN 0 ELSE 1)
<1> DEFINE n == Len(s)
           Q == P \cap 1 .. later
<1>1. n \in Nat /\ n + 1 \notin P /\ Q \in SUBSET (1 .. n)
  BY SeqFacts
<1>2. /\ Cost(Append(s, m), P) = Cost(s, P)
      /\ Cost(Append(s, m), P \cup {Len(s) + 1}) = Cost(s, P) + m.size + 1
      /\ Cost(s, P) \in Nat
  BY CostAppend, CostNat
<1>3. m.size \in Nat
  BY DEF Message
<1>4. /\ IsFiniteSet(P) /\ Cardinality(P) \in Nat
      /\ IsFiniteSet(Q) /\ Cardinality(Q) \in Nat
  BY <1>1, PlacesFinite
<1>5. Cardinality(P \cup {n + 1}) = Cardinality(P) + 1
  BY <1>1, <1>4, FS_AddElement
<1>6. Cardinality(Q \cup {n + 1}) = Cardinality(Q) + 1
  BY <1>1, <1>4, FS_AddElement
<1>7. (P \cup {n + 1}) \cap 1 .. later = IF n + 1 > later THEN Q ELSE Q \cup {n + 1}
  BY <1>1
<1> DEFINE K == (P \cup {n + 1}) \cap 1 .. later
<1> HIDE DEF n, Q, K
<1>8. Cardinality(K) = Cardinality(Q) + (IF n + 1 > later THEN 0 ELSE 1)
  <2>1. CASE n + 1 > later
    <3>1. K = Q
      BY <1>7, <2>1 DEF K
    <3>2. QED BY <1>4, <2>1, <3>1
  <2>2. CASE ~ (n + 1 > later)
    <3>1. K = Q \cup {n + 1}
      BY <1>7, <2>2 DEF K
    <3>2. QED BY <1>6, <2>2, <3>1
  <2>3. QED BY <2>1, <2>2
<1>9. QED BY <1>2, <1>3, <1>4, <1>5, <1>8 DEF n, Q, K

\* What is said of the groups closed does not depend on the rest.
LEMMA TightOn ==
  ASSUME NEW s, NEW n, NEW groups, NEW given, NEW m, NEW j, NEW x,
         Tight(x, groups, s, n, given, m, j), NEW y \in WindowType,
         y.optional = x.optional, y.optional_cost = x.optional_cost, y.required = x.required,
         y.required_cost = x.required_cost, y.required_given = x.required_given,
         y.overflow = x.overflow, y.groups = x.groups, y.mandatory_groups = x.mandatory_groups
  PROVE  Tight(y, groups, s, n, given, m, j)
BY DEF Tight, Loose, Split, MirrorsOptional, MirrorsRequired

AddsSystem(x, y, groups, t, n, later) ==
  /\ \E k, i : Tight(y, groups, t, n, later, k, i)
  /\ y.group = x.group /\ y.open = x.open /\ y.total = x.total /\ y.failure = x.failure

LEMMA SystemTightens ==
  ASSUME NEW s \in Seq(Message), NEW m \in Message, m.role = "system", NEW later \in Nat,
         NEW groups, Ordered(groups, Len(s)), Ordered(groups, Len(s) + 1), NEW x, NEW k, NEW i,
         Tight(x, groups, Append(s, m), Len(s), later, k, i)
  PROVE  AddsSystem(x, AddSystem(x, m, Len(s) + 1, Len(s) + 1 > later), groups, Append(s, m),
                    Len(s) + 1, later)
<1> DEFINE n == Len(s)
           t == Append(s, m)
           R == Required(t, n, groups, k)
           S == R \cup {n + 1}
           cost == x.required_cost + m.size + 1
           counted == x.required_given + (IF n + 1 > later THEN 0 ELSE 1)
           fitting == IF Fits(cost) THEN x.required \cup {n + 1} ELSE x.required
           over == x.overflow \/ ~ Fits(cost)
           y == [x EXCEPT !.required_cost = cost, !.required_given = counted,
                          !.required = fitting, !.overflow = over]
<1>1. /\ x \in WindowType /\ Split(x, groups, later, k, i)
      /\ MirrorsOptional(x, groups, t, k, i) /\ MirrorsRequired(x, R, t, later)
  BY DEF Tight, Loose
<1>2. /\ n \in Nat /\ t \in Seq(Message) /\ Len(t) = n + 1
      /\ t[n + 1] = m /\ groups \in Seq(SUBSET (1 .. n)) /\ Len(groups) \in Nat
  BY SeqFacts, AppendFacts DEF Ordered
<1>3. k \in 0 .. Len(groups) /\ i \in 0 .. k /\ k \in Nat /\ i \in Nat
  BY <1>1, <1>2 DEF Split
<1>4. AddSystem(x, m, n + 1, n + 1 > later) = Trimmed(y)
  BY <1>1 DEF AddSystem, WindowType
<1> HIDE DEF t, n
<1>5. R \in SUBSET (1 .. n)
  <2>1. k <= Len(groups) /\ Len(groups) <= Len(groups)
    BY <1>2, <1>3
  <2>2. Span(groups, k, Len(groups)) \in SUBSET (1 .. n)
    BY <1>2, <1>3, <2>1, SpanFacts
  <2>3. QED BY <2>2 DEF Required
<1>6. Required(t, n + 1, groups, k) = S
  <2>1. \A p \in 1 .. n + 1 : p \in 1 .. n \/ p = n + 1
    BY <1>2
  <2>2. t[n + 1].role = "system" /\ n + 1 \in 1 .. n + 1 /\ 1 .. n \subseteq 1 .. n + 1
    BY <1>2
  <2>3. {p \in 1 .. n + 1 : t[p].role = "system"}
          = {p \in 1 .. n : t[p].role = "system"} \cup {n + 1}
    BY <2>1, <2>2
  <2>4. QED BY <2>3 DEF Required
<1> HIDE DEF R
<1>7. /\ Cost(t, S) = Cost(t, R) + m.size + 1
      /\ Cost(t, R) \in Nat /\ m.size \in Nat
      /\ Cardinality(R \cap 1 .. later) \in Nat
      /\ Cardinality(S \cap 1 .. later)
           = Cardinality(R \cap 1 .. later) + (IF n + 1 > later THEN 0 ELSE 1)
  BY <1>5, OnePlace DEF n, t
<1> HIDE DEF S
<1>8. /\ x.required_cost = Cost(t, R)
      /\ x.required_given = Cardinality(R \cap 1 .. later)
      /\ x.overflow <=> ~ Fits(Cost(t, R))
      /\ Fits(Cost(t, R)) => x.required = R
      /\ x.required \subseteq R /\ Fits(Cost(t, x.required))
  BY <1>1 DEF MirrorsRequired
<1>9. /\ cost = Cost(t, S) /\ cost \in Nat /\ x.required_cost \in Nat /\ x.required_cost <= cost
      /\ counted = Cardinality(S \cap 1 .. later) /\ counted \in Nat
  BY <1>7, <1>8
<1> HIDE DEF cost, counted
<1>10. Fits(cost) => Fits(Cost(t, R))
  BY <1>8, <1>9, FitsLess
<1>11. /\ over <=> ~ Fits(cost)
       /\ Fits(cost) => fitting = S
       /\ fitting \subseteq S /\ Fits(Cost(t, fitting)) /\ S \subseteq 1 .. n + 1
  <2>1. S \subseteq 1 .. n + 1
    BY <1>2, <1>5 DEF S
  <2>2. QED BY <1>8, <1>9, <1>10, <2>1 DEF S
<1>12. /\ y \in WindowType
       /\ y.groups = x.groups /\ y.mandatory_groups = x.mandatory_groups
       /\ y.required_cost = cost /\ y.required_given = counted
       /\ y.required = fitting /\ y.overflow = over
       /\ y.optional = x.optional /\ y.optional_cost = x.optional_cost
       /\ y.group = x.group /\ y.open = x.open /\ y.total = x.total /\ y.failure = x.failure
  <2>1. over \in BOOLEAN
    BY <1>11
  <2> HIDE DEF fitting, over
  <2>2. 1 .. n + 1 \subseteq Nat
    BY <1>2
  <2>3. fitting \in SUBSET Nat
    BY <1>11, <2>2
  <2>4. QED BY <1>1, <1>9, <2>1, <2>3 DEF WindowType
<1> HIDE DEF y, fitting, over
<1>13. Split(y, groups, later, k, i)
  BY <1>1, <1>12 DEF Split
<1>14. MirrorsOptional(y, groups, t, k, i)
  <2>1. ASSUME i > 0 PROVE ~ Fits(y.required_cost + Cost(t, Span(groups, i - 1, k)))
    <3> DEFINE c == Cost(t, Span(groups, i - 1, k))
               less == x.required_cost + c
               most == cost + c
    <3>1. c \in Nat
      <4>1. i - 1 \in Nat /\ i - 1 <= k /\ k <= Len(groups)
        BY <1>2, <1>3, <2>1
      <4>2. Span(groups, i - 1, k) \in SUBSET (1 .. n)
        BY <1>2, <1>3, <4>1, SpanFacts
      <4>3. Span(groups, i - 1, k) \in SUBSET (1 .. Len(t))
        BY <1>2, <4>2
      <4>4. QED BY <1>2, <4>3, CostNat
    <3>2. ~ Fits(less)
      BY <1>1, <2>1 DEF MirrorsOptional
    <3> HIDE DEF c
    <3>3. less \in Nat /\ most \in Nat /\ less <= most
      BY <1>9, <3>1
    <3> HIDE DEF less, most
    <3>4. Fits(most) => Fits(less)
      BY <3>3, FitsLess
    <3>5. QED BY <1>12, <3>2, <3>4 DEF most, c
  <2>2. QED BY <1>1, <1>12, <2>1 DEF MirrorsOptional
<1>15. MirrorsRequired(y, S, t, later)
  BY <1>9, <1>11, <1>12 DEF MirrorsRequired
<1>16. Loose(y, groups, t, n + 1, later, k, i)
  BY <1>6, <1>12, <1>13, <1>14, <1>15 DEF Loose
<1>17. Trims(y, groups, t, n + 1, later, k)
  <2>1. n + 1 \in 0 .. Len(t) /\ Ordered(groups, n + 1)
    BY <1>2 DEF n
  <2>2. QED BY <1>2, <1>16, <2>1, TrimTightens
<1>18. /\ Trimmed(y).group = x.group /\ Trimmed(y).open = x.open
       /\ Trimmed(y).total = x.total /\ Trimmed(y).failure = x.failure
  BY <1>12, <1>17 DEF Trims, WindowType
<1>19. QED BY <1>4, <1>17, <1>18 DEF Trims, AddsSystem, n, t

\* A place joins the open group.
LEMMA GroupGrows ==
  ASSUME NEW s \in Seq(Message), NEW m \in Message, NEW later \in Nat,
         NEW P \in SUBSET (1 .. Len(s)), NEW x \in WindowType,
         MirrorsGroup(x.group, P, Append(s, m), later)
  PROVE  LET y == AddToGroup(x, m, Len(s) + 1, Len(s) + 1 > later)
         IN y.group \in KeptGroup /\ MirrorsGroup(y.group, P \cup {Len(s) + 1}, Append(s, m), later)
<1> DEFINE n == Len(s)
           t == Append(s, m)
           Q == P \cup {n + 1}
           g == x.group
           cost == g.cost + m.size + 1
           counted == g.given + (IF n + 1 > later THEN 0 ELSE 1)
           kept == Keep(g.entries, n + 1, cost)
           asked == g.mandatory \/ n + 1 > later
           h == [entries |-> kept, cost |-> cost, count |-> g.count + 1, given |-> counted,
                 mandatory |-> asked]
           y == AddToGroup(x, m, n + 1, n + 1 > later)
<1>1. n \in Nat /\ Q \subseteq 1 .. n + 1 /\ 1 .. n + 1 \subseteq Nat /\ n + 1 \in 1 .. n + 1
  <2>1. n \in Nat /\ P \subseteq 1 .. n
    BY SeqFacts
  <2> HIDE DEF n
  <2>2. QED BY <2>1
<1>2. y.group = h
  BY DEF AddToGroup, WindowType
<1>3. /\ g.cost = Cost(t, P) /\ g.count = Cardinality(P)
      /\ g.given = Cardinality(P \cap 1 .. later)
      /\ g.mandatory <=> ~ (P \subseteq 1 .. later)
      /\ g.entries = IF Fits(Cost(t, P)) THEN P ELSE {}
  BY DEF MirrorsGroup
<1>4. /\ Cost(t, Q) = Cost(t, P) + m.size + 1
      /\ Cost(t, P) \in Nat /\ m.size \in Nat
      /\ Cardinality(Q) = Cardinality(P) + 1
      /\ Cardinality(P) \in Nat /\ Cardinality(P \cap 1 .. later) \in Nat
      /\ Cardinality(Q \cap 1 .. later)
           = Cardinality(P \cap 1 .. later) + (IF n + 1 > later THEN 0 ELSE 1)
  BY OnePlace
<1>5. asked <=> ~ (Q \subseteq 1 .. later)
  BY <1>1, <1>3
<1> HIDE DEF t, n, g, y
<1>6. /\ cost = Cost(t, Q) /\ cost \in Nat /\ Cost(t, P) <= cost
      /\ counted = Cardinality(Q \cap 1 .. later) /\ counted \in Nat
      /\ g.count + 1 = Cardinality(Q) /\ g.count + 1 \in Nat
  BY <1>3, <1>4
<1> HIDE DEF cost, counted
<1>7. Fits(cost) => Fits(Cost(t, P))
  BY <1>4, <1>6, FitsLess
<1>8. kept = IF Fits(cost) THEN Q ELSE {}
  BY <1>3, <1>7 DEF Keep
<1>9. kept \in SUBSET Nat
  BY <1>1, <1>8
<1>10. asked \in BOOLEAN
  BY <1>5
<1> HIDE DEF kept, asked, Q
<1>11. /\ h \in KeptGroup /\ h.cost = cost /\ h.count = Cardinality(Q)
       /\ h.given = counted /\ h.mandatory = asked /\ h.entries = kept
  BY <1>6, <1>9, <1>10 DEF KeptGroup
<1> HIDE DEF h
<1>12. MirrorsGroup(h, Q, t, later)
  BY <1>5, <1>6, <1>8, <1>11 DEF MirrorsGroup
<1>13. QED BY <1>2, <1>11, <1>12 DEF y, n, t, Q

AddsMessage(x, y, m, P, groups, t, n, later) ==
  /\ \E k, i : Tight(y, groups, t, n, later, k, i)
  /\ MirrorsGroup(y.group, P, t, later)
  /\ y.total = x.total
  /\ y.open = IF Broken(m, x.open) THEN x.open ELSE Open(m, x.open)
  /\ y.failure = IF Broken(m, x.open) THEN "exchange" ELSE x.failure

LEMMA MessageTightens ==
  ASSUME NEW s \in Seq(Message), NEW m \in Message, m.role # "system", NEW later \in Nat,
         NEW groups, NEW x, NEW k, NEW i, NEW P \in SUBSET (1 .. Len(s)),
         Tight(x, groups, Append(s, m), Len(s), later, k, i),
         MirrorsGroup(x.group, P, Append(s, m), later)
  PROVE  AddsMessage(x, AddToGroup(x, m, Len(s) + 1, Len(s) + 1 > later), m,
                     P \cup {Len(s) + 1}, groups, Append(s, m), Len(s) + 1, later)
<1> DEFINE n == Len(s)
           t == Append(s, m)
           y == AddToGroup(x, m, n + 1, n + 1 > later)
           opened == IF Broken(m, x.open) THEN x.open ELSE Open(m, x.open)
           failed == IF Broken(m, x.open) THEN "exchange" ELSE x.failure
<1>1. x \in WindowType /\ n \in Nat /\ t[n + 1] = m
  BY SeqFacts, AppendFacts DEF Tight, Loose
<1>2. y.group \in KeptGroup /\ MirrorsGroup(y.group, P \cup {n + 1}, t, later)
  BY <1>1, GroupGrows
<1>3. opened \in SUBSET STRING
  <2>1. m.ids \in Seq(STRING) /\ x.open \in SUBSET STRING
    BY <1>1 DEF Message, WindowType
  <2>2. \A p \in DOMAIN m.ids : m.ids[p] \in STRING
    BY <2>1, SeqFacts
  <2>3. QED BY <2>1, <2>2 DEF Open, ToSet
<1>4. failed \in {"none", "encoding", "exchange"}
  BY <1>1 DEF WindowType
<1>5. /\ y.optional = x.optional /\ y.optional_cost = x.optional_cost
      /\ y.required = x.required /\ y.required_cost = x.required_cost
      /\ y.required_given = x.required_given /\ y.overflow = x.overflow
      /\ y.groups = x.groups /\ y.mandatory_groups = x.mandatory_groups
      /\ y.total = x.total /\ y.open = opened /\ y.failure = failed
      /\ y = [x EXCEPT !.group = y.group, !.open = opened, !.failure = failed]
  BY <1>1 DEF AddToGroup, WindowType
<1> HIDE DEF y, opened, failed
<1>6. y \in WindowType
  BY <1>1, <1>2, <1>3, <1>4, <1>5 DEF WindowType
<1>7. Tight(x, groups, t, n + 1, later, k, i)
  <2>1. \A p \in 1 .. n + 1 : p \in 1 .. n \/ p = n + 1
    BY <1>1
  <2>2. t[n + 1].role # "system" /\ 1 .. n \subseteq 1 .. n + 1
    BY <1>1
  <2> HIDE DEF t, n
  <2>3. {p \in 1 .. n + 1 : t[p].role = "system"} = {p \in 1 .. n : t[p].role = "system"}
    BY <2>1, <2>2
  <2>4. Required(t, n + 1, groups, k) = Required(t, n, groups, k)
    BY <2>3 DEF Required
  <2>5. Tight(x, groups, t, n, later, k, i)
    BY DEF n, t
  <2>6. QED BY <2>4, <2>5 DEF Tight, Loose
<1> HIDE DEF n, t
<1>8. Tight(y, groups, t, n + 1, later, k, i)
  BY <1>5, <1>6, <1>7, TightOn
<1>9. AddsMessage(x, y, m, P \cup {n + 1}, groups, t, n + 1, later)
  BY <1>2, <1>5, <1>8 DEF AddsMessage, opened, failed
<1>10. QED BY <1>9 DEF y, n, t

\* What the window stands for, as long as nothing has failed.
Mirrors(x, a, s, given) ==
  /\ \E k, i : Tight(x, a.groups, s, Len(s), given, k, i)
  /\ MirrorsGroup(x.group, a.group, s, given)
  /\ x.open = a.open
  /\ x.total = Cost(s, 1 .. Len(s))

\* The payloads held.
Entries(x) == x.required \cup UNION {g.entries : g \in ToSet(x.optional)}
Bounded(x, s) ==
  /\ Entries(x) \in SUBSET (1 .. Len(s)) /\ Fits(Cost(s, Entries(x)))
  /\ x.group.entries \in SUBSET (1 .. Len(s)) /\ Fits(Cost(s, x.group.entries))

Follows(x, a, s, given) ==
  /\ x \in WindowType
  /\ x.failure = a.error
  /\ Bounded(x, s)
  /\ a.error = "none" => Mirrors(x, a, s, given)

\* What is held: the required messages and the optional groups, if all that is required fits.
LEMMA EntriesAre ==
  ASSUME NEW s \in Seq(Message), NEW groups, Ordered(groups, Len(s)), NEW given \in Nat,
         NEW k, NEW i, NEW x, Tight(x, groups, s, Len(s), given, k, i)
  PROVE  /\ UNION {g.entries : g \in ToSet(x.optional)} = Span(groups, i, k)
         /\ ~ x.overflow => /\ x.required = Required(s, Len(s), groups, k)
                            /\ Entries(x) = x.required \cup Span(groups, i, k)
         /\ x.overflow => i = k
         /\ Entries(x) \in SUBSET (1 .. Len(s)) /\ Fits(Cost(s, Entries(x)))
         /\ Required(s, Len(s), groups, k) \in SUBSET (1 .. Len(s))
         /\ Span(groups, i, k) \in SUBSET (1 .. Len(s))
         /\ Required(s, Len(s), groups, k) \cap Span(groups, i, k)
              = {p \in Span(groups, i, k) : s[p].role = "system"}
<1> DEFINE n == Len(s)
           R == Required(s, n, groups, k)
           O == Span(groups, i, k)
<1>1. /\ x \in WindowType /\ Split(x, groups, given, k, i)
      /\ MirrorsOptional(x, groups, s, k, i) /\ MirrorsRequired(x, R, s, given)
      /\ i = k \/ Fits(x.required_cost + x.optional_cost)
  BY DEF Tight, Loose
<1>2. n \in Nat /\ groups \in Seq(SUBSET (1 .. n)) /\ Len(groups) \in Nat
  BY SeqFacts DEF Ordered
<1> HIDE DEF n
<1>3. /\ k \in 0 .. Len(groups) /\ i \in 0 .. k /\ k \in Nat /\ i \in Nat
      /\ i <= k /\ k <= Len(groups) /\ Len(groups) <= Len(groups)
  BY <1>1, <1>2 DEF Split
<1>4. Span(groups, i, k) \in SUBSET (1 .. n) /\ Span(groups, k, Len(groups)) \in SUBSET (1 .. n)
      /\ Span(groups, i, k) \cap Span(groups, k, Len(groups)) = {}
  BY <1>2, <1>3, SpanFacts, SpansApart DEF n
<1>5. R \in SUBSET (1 .. n) /\ R \cap O = {p \in O : s[p].role = "system"}
  BY <1>4 DEF Required
<1>6. UNION {g.entries : g \in ToSet(x.optional)} = O
  <2>1. DOMAIN x.optional = 1 .. k - i
    BY <1>1, SeqFacts DEF WindowType, Split
  <2>2. ToSet(x.optional) = {x.optional[g] : g \in 1 .. k - i}
    BY <2>1, Zenon DEF ToSet
  <2>3. {g.entries : g \in ToSet(x.optional)} = {x.optional[g].entries : g \in 1 .. k - i}
    BY <2>2
  <2>4. \A g \in 1 .. k - i : x.optional[g].entries = groups[i + g]
    BY <1>1 DEF MirrorsOptional
  <2>5. \A g \in i + 1 .. k : g - i \in 1 .. k - i /\ i + (g - i) = g
    BY <1>3
  <2>6. \A g \in 1 .. k - i : i + g \in i + 1 .. k
    BY <1>3
  <2>7. \A p : (\E g \in 1 .. k - i : p \in x.optional[g].entries)
                 <=> (\E g \in i + 1 .. k : p \in groups[g])
    BY <2>4, <2>5, <2>6
  <2>8. QED BY <2>3, <2>7 DEF Span
<1> HIDE DEF R, O
<1>7. /\ x.required_cost = Cost(s, R)
      /\ x.overflow <=> ~ Fits(Cost(s, R))
      /\ Fits(Cost(s, R)) => x.required = R
      /\ x.required \subseteq R /\ Fits(Cost(s, x.required))
  BY <1>1 DEF MirrorsRequired
<1>8. /\ x.optional_cost = Cost(s, O) /\ Cost(s, R) \in Nat /\ Cost(s, O) \in Nat
  <2>1. x.optional_cost = Cost(s, O)
    BY <1>1 DEF MirrorsOptional, O
  <2>2. QED BY <1>4, <1>5, <2>1, CostNat DEF n, O
<1>9. x.overflow => i = k
  <2>1. Cost(s, R) + Cost(s, O) \in Nat /\ Cost(s, R) <= Cost(s, R) + Cost(s, O)
    BY <1>8
  <2>2. Fits(Cost(s, R) + Cost(s, O)) => Fits(Cost(s, R))
    BY <1>8, <2>1, FitsLess
  <2>3. QED BY <1>1, <1>7, <1>8, <2>2
<1>10. Entries(x) = x.required \cup O
  BY <1>6 DEF Entries
<1>11. i = k => O = {}
  BY <1>2, <1>3, SpanFacts DEF O
<1>12. Entries(x) \in SUBSET (1 .. n)
  BY <1>4, <1>5, <1>7, <1>10 DEF O
<1>13. Fits(Cost(s, Entries(x)))
  <2>1. CASE i = k
    BY <1>7, <1>10, <1>11, <2>1
  <2>2. CASE i # k
    <3>1. x.required = R /\ Fits(Cost(s, R) + Cost(s, O))
      BY <1>1, <1>7, <1>8, <1>9, <2>2
    <3>2. R \cap O \in SUBSET (1 .. n) /\ O \ R \in SUBSET (1 .. n) /\ R \cap (O \ R) = {}
          /\ R \cup O = R \cup (O \ R) /\ O \ R \subseteq O
      BY <1>4, <1>5 DEF O
    <3>3. Cost(s, R \cup (O \ R)) = Cost(s, R) + Cost(s, O \ R)
      BY <1>5, <3>2, CostPlus DEF n
    <3>4. Cost(s, O \ R) <= Cost(s, O) /\ Cost(s, O \ R) \in Nat
      BY <1>4, <3>2, CostLess, CostNat DEF n, O
    <3> DEFINE less == Cost(s, R) + Cost(s, O \ R)
               most == Cost(s, R) + Cost(s, O)
    <3>5. less \in Nat /\ most \in Nat /\ less <= most
      BY <1>8, <3>4
    <3> HIDE DEF less, most
    <3>6. Fits(most) => Fits(less)
      BY <3>5, FitsLess
    <3>7. QED BY <1>10, <3>1, <3>2, <3>3, <3>6 DEF less, most
  <2>3. QED BY <2>1, <2>2
<1>14. QED BY <1>4, <1>5, <1>6, <1>7, <1>9, <1>10, <1>12, <1>13 DEF n, R, O

LEMMA MirrorsBounded ==
  ASSUME NEW s \in Seq(Message), NEW groups, Ordered(groups, Len(s)), NEW given \in Nat,
         NEW k, NEW i, NEW x, Tight(x, groups, s, Len(s), given, k, i),
         NEW P \in SUBSET (1 .. Len(s)), MirrorsGroup(x.group, P, s, given)
  PROVE  Bounded(x, s)
<1>1. Entries(x) \in SUBSET (1 .. Len(s)) /\ Fits(Cost(s, Entries(x)))
  BY EntriesAre
<1>2. x.group.entries = IF Fits(Cost(s, P)) THEN P ELSE {}
  BY DEF MirrorsGroup
<1>3. Fits(Cost(s, {}))
  <2>1. Cost(s, {}) = 0
    BY CostNone
  <2>2. QED BY <2>1, BudgetAssumption DEF Fits
<1>4. QED BY <1>1, <1>2, <1>3 DEF Bounded

LEMMA BoundedSame ==
  ASSUME NEW s \in Seq(Message), NEW m \in Message, NEW x, Bounded(x, s), NEW y,
         y.required = x.required, y.optional = x.optional, y.group = x.group
  PROVE  Bounded(y, Append(s, m))
<1>1. /\ Entries(y) = Entries(x) /\ y.group.entries = x.group.entries
      /\ Len(s) \in Nat /\ Len(Append(s, m)) = Len(s) + 1
  BY SeqFacts, AppendFacts DEF Entries
<1>2. SUBSET (1 .. Len(s)) \subseteq SUBSET (1 .. Len(Append(s, m)))
  BY <1>1
<1>3. \A P \in SUBSET (1 .. Len(s)) : Cost(Append(s, m), P) = Cost(s, P)
  BY CostAppend
<1>4. QED BY <1>1, <1>2, <1>3 DEF Bounded

\* add() and the scan, side by side.
LEMMA AddFollows ==
  ASSUME NEW s \in Seq(Message), NEW m \in Message, NEW given \in Nat, NEW later \in Nat,
         \A i \in 1 .. Len(s) : i <= given <=> i <= later,
         \A i \in 1 .. Len(s) : i = given + 1 <=> i = later + 1,
         NEW x, Follows(x, Scan(s, given)[Len(s)], s, given)
  PROVE  Follows(Add(x, m, Len(s) + 1, Len(s) + 1 > later, Len(s) = later),
                 Scan(Append(s, m), later)[Len(s) + 1], Append(s, m), later)
<1> DEFINE n == Len(s)
           t == Append(s, m)
           a == Scan(s, given)[n]
           c == Scan(t, later)[n + 1]
           asked == n + 1 > later
           boundary == n = later
           b == Reached(a, m, boundary)
           y == Ready(x, m, boundary)
           z == [y EXCEPT !.total = @ + m.size + 1]
           new == Add(x, m, n + 1, asked, boundary)
<1>1. /\ n \in Nat /\ t \in Seq(Message) /\ Len(t) = n + 1 /\ t[n + 1] = m
      /\ n \in 0 .. Len(s) /\ n + 1 \in 0 .. Len(t)
  BY SeqFacts, AppendFacts
<1>2. c = Scanned(a, m, n + 1, boundary)
  BY ScanAppend
<1>3. WellScanned(a, s, n) /\ WellScanned(c, t, n + 1)
  <2>1. WellScanned(a, s, n)
    BY <1>1, ScanWell
  <2>2. WellScanned(c, t, n + 1)
    <3> HIDE DEF t, n
    <3>1. QED BY <1>1, ScanWell
  <2>3. QED BY <2>1, <2>2
<1>4. SameUpTo(s, t, n, given, later)
  BY AppendSame
<1>5. /\ x \in WindowType /\ x.failure = a.error /\ Bounded(x, s)
      /\ a.error = "none" => Mirrors(x, a, s, given)
  BY DEF Follows
<1>6. a \in ScanState(n) /\ Ordered(Groups(a), n)
  BY <1>3 DEF WellScanned
<1> HIDE DEF t, n, a, c
<1>7. CASE a.error # "none"
  <2>1. c = a /\ new = x
    BY <1>2, <1>5, <1>7 DEF Scanned, Add
  <2>2. Bounded(x, t)
    BY <1>5, BoundedSame DEF t
  <2>3. Follows(x, a, t, later)
    BY <1>5, <1>7, <2>2 DEF Follows
  <2>4. QED BY <2>1, <2>3 DEF n, t, c
<1>8. CASE a.error = "none" /\ ~ m.plain
  <2>1. c = [a EXCEPT !.error = "encoding"] /\ new = [x EXCEPT !.failure = "encoding"]
    BY <1>2, <1>5, <1>8 DEF Scanned, Add
  <2>2. /\ new \in WindowType /\ new.failure = "encoding" /\ c.error = "encoding"
        /\ new.required = x.required /\ new.optional = x.optional /\ new.group = x.group
    BY <1>5, <1>6, <2>1 DEF WindowType, ScanState
  <2> HIDE DEF new
  <2>3. Bounded(new, t)
    BY <1>5, <2>2, BoundedSame DEF t
  <2>4. Follows(new, c, t, later)
    BY <2>2, <2>3 DEF Follows
  <2>5. QED BY <2>4 DEF n, t, c, new
<1>9. CASE a.error = "none" /\ m.plain
  <2>1. /\ \E k, i : Tight(y, b.groups, s, n, given, k, i)
        /\ MirrorsGroup(y.group, b.group, s, given)
        /\ y.open = x.open /\ y.total = x.total /\ y.failure = x.failure
    <3>1. PICK k, i : Tight(x, a.groups, s, n, given, k, i)
      BY <1>5, <1>9 DEF Mirrors, n
    <3>2. MirrorsGroup(x.group, a.group, s, given) /\ x.open = a.open
      BY <1>5, <1>9 DEF Mirrors
    <3>3. n \in 0 .. Len(s)
      BY <1>1
    <3>4. StartsWell(x, y, b, s, n, given)
      BY <1>3, <1>9, <3>1, <3>2, <3>3, StartTightens
    <3>5. QED BY <3>4 DEF StartsWell
  <2>2. /\ b \in ScanState(n) /\ Ordered(b.groups, n) /\ Ordered(Groups(b), n)
        /\ b.open = a.open /\ b.error = "none"
    <3>1. CASE Closes(a, m, boundary)
      <4>1. a.group # {}
        BY <3>1 DEF Closes
      <4>2. /\ b \in ScanState(n) /\ b.open = a.open /\ b.error = "none"
            /\ Groups(b) = Groups(a)
        BY <1>1, <1>6, <1>9, <3>1, <4>1, ClosedFacts DEF Reached
      <4>3. Ordered(b.groups, n)
        BY <1>1, <1>6, <4>2, GroupsFacts
      <4>4. QED BY <1>6, <4>2, <4>3
    <3>2. CASE ~ Closes(a, m, boundary)
      <4>1. b = a
        BY <3>2 DEF Reached
      <4>2. Ordered(a.groups, n)
        BY <1>1, <1>6, GroupsFacts
      <4>3. QED BY <1>6, <1>9, <4>1, <4>2
    <3>3. QED BY <3>1, <3>2
  <2>3. PICK k, i : Tight(y, b.groups, s, n, given, k, i)
    BY <2>1
  <2> DEFINE total == y.total + m.size + 1
  <2>4. total = Cost(t, 1 .. n + 1) /\ total \in Nat
    <3>1. y.total = Cost(s, 1 .. n)
      BY <1>5, <1>9, <2>1 DEF Mirrors, n
    <3>2. Cost(t, (1 .. n) \cup {n + 1}) = Cost(s, 1 .. n) + m.size + 1
      BY CostAppend DEF n, t
    <3>3. (1 .. n) \cup {n + 1} = 1 .. n + 1
      BY <1>1
    <3>4. 1 .. n + 1 \in SUBSET (1 .. Len(t))
      BY <1>1
    <3>5. Cost(t, 1 .. n + 1) \in Nat
      BY <1>1, <3>4, CostNat
    <3>6. QED BY <3>1, <3>2, <3>3, <3>5
  <2> HIDE DEF y, b
  <2>5. y \in WindowType
    BY <2>3 DEF Tight, Loose
  <2>6. /\ z \in WindowType /\ z.group = y.group /\ z.open = x.open /\ z.total = total
        /\ z.failure = "none"
        /\ z.optional = y.optional /\ z.optional_cost = y.optional_cost
        /\ z.required = y.required /\ z.required_cost = y.required_cost
        /\ z.required_given = y.required_given /\ z.overflow = y.overflow
        /\ z.groups = y.groups /\ z.mandatory_groups = y.mandatory_groups
    BY <1>5, <1>9, <2>1, <2>4, <2>5 DEF WindowType
  <2>7. new = IF m.role = "system" THEN AddSystem(z, m, n + 1, asked)
              ELSE AddToGroup(z, m, n + 1, asked)
    BY <1>5, <1>9 DEF Add, Ready, y
  <2>8. c = IF m.role = "system" THEN b
            ELSE IF Broken(m, a.open) THEN [a EXCEPT !.error = "exchange"]
            ELSE [b EXCEPT !.group = @ \cup {n + 1}, !.open = Open(m, @)]
    BY <1>2, <1>9 DEF Scanned, Reached, b
  <2> HIDE DEF z, new, total
  <2>9. Tight(z, b.groups, s, n, given, k, i)
    BY <2>3, <2>6, TightOn
  <2>10. Tight(z, b.groups, t, n, later, k, i)
    BY <1>1, <1>4, <2>2, <2>9, TightSame
  <2>11. MirrorsGroup(z.group, b.group, t, later) /\ b.group \in SUBSET (1 .. n)
    <3>1. b.group \in SUBSET (1 .. n)
      BY <2>2 DEF ScanState
    <3>2. QED BY <1>4, <2>1, <2>6, <3>1, GroupSame
  <2>12. Ordered(b.groups, n + 1)
    <3>1. SUBSET (1 .. n) \subseteq SUBSET (1 .. n + 1)
      BY <1>1
    <3>2. b.groups \in Seq(SUBSET (1 .. n + 1))
      BY <2>2, <3>1, SeqMonotonic DEF Ordered
    <3>3. QED BY <2>2, <3>2 DEF Ordered
  <2>13. CASE m.role = "system"
    <3>1. AddsSystem(z, new, b.groups, t, n + 1, later)
      BY <2>2, <2>7, <2>10, <2>12, <2>13, SystemTightens DEF n, t
    <3>2. /\ \E k2, i2 : Tight(new, b.groups, t, n + 1, later, k2, i2)
          /\ new.group = z.group /\ new.open = x.open /\ new.total = total /\ new.failure = "none"
      BY <2>6, <3>1 DEF AddsSystem
    <3>3. new \in WindowType
      BY <3>2 DEF Tight, Loose
    <3>4. c = b
      BY <2>8, <2>13
    <3>5. Mirrors(new, c, t, later)
      BY <1>1, <1>5, <1>9, <2>2, <2>4, <2>11, <3>2, <3>4 DEF Mirrors
    <3>6. Bounded(new, t)
      <4>1. b.group \in SUBSET (1 .. Len(t))
        BY <1>1, <2>11
      <4>2. MirrorsGroup(new.group, b.group, t, later)
        BY <2>11, <3>2
      <4>3. PICK k2, i2 : Tight(new, b.groups, t, Len(t), later, k2, i2)
        BY <1>1, <3>2
      <4>4. Ordered(b.groups, Len(t))
        BY <1>1, <2>12
      <4>5. QED BY <1>1, <4>1, <4>2, <4>3, <4>4, MirrorsBounded
    <3>7. Follows(new, c, t, later)
      BY <2>2, <3>2, <3>3, <3>4, <3>5, <3>6 DEF Follows
    <3>8. QED BY <3>7 DEF n, t, c, new
  <2>14. CASE m.role # "system"
    <3> DEFINE P == b.group \cup {n + 1}
    <3>1. AddsMessage(z, new, m, P, b.groups, t, n + 1, later)
      BY <2>7, <2>10, <2>11, <2>14, MessageTightens DEF n, t
    <3>2. /\ \E k2, i2 : Tight(new, b.groups, t, n + 1, later, k2, i2)
          /\ MirrorsGroup(new.group, P, t, later)
          /\ new.total = total
          /\ new.open = IF Broken(m, x.open) THEN x.open ELSE Open(m, x.open)
          /\ new.failure = IF Broken(m, x.open) THEN "exchange" ELSE "none"
      BY <2>6, <3>1 DEF AddsMessage
    <3>3. new \in WindowType
      BY <3>2 DEF Tight, Loose
    <3>4. Bounded(new, t)
      <4>1. P \in SUBSET (1 .. Len(t))
        BY <1>1, <2>11
      <4>2. PICK k2, i2 : Tight(new, b.groups, t, Len(t), later, k2, i2)
        BY <1>1, <3>2
      <4>3. Ordered(b.groups, Len(t))
        BY <1>1, <2>12
      <4>4. QED BY <1>1, <3>2, <4>1, <4>2, <4>3, MirrorsBounded
    <3>5. x.open = a.open
      BY <1>5, <1>9 DEF Mirrors
    <3>6. CASE Broken(m, a.open)
      <4>1. c.error = "exchange" /\ new.failure = "exchange"
        BY <1>6, <2>8, <2>14, <3>2, <3>5, <3>6 DEF ScanState
      <4>2. Follows(new, c, t, later)
        BY <3>3, <3>4, <4>1 DEF Follows
      <4>3. QED BY <4>2 DEF n, t, c, new
    <3>7. CASE ~ Broken(m, a.open)
      <4>1. /\ c.groups = b.groups /\ c.group = P /\ c.open = Open(m, x.open) /\ c.error = "none"
        BY <2>2, <2>8, <2>14, <3>5, <3>7 DEF ScanState
      <4>2. new.open = Open(m, x.open) /\ new.failure = "none"
        BY <3>2, <3>5, <3>7
      <4>3. Mirrors(new, c, t, later)
        BY <1>1, <2>4, <3>2, <4>1, <4>2 DEF Mirrors
      <4>4. Follows(new, c, t, later)
        BY <3>3, <3>4, <4>1, <4>2, <4>3 DEF Follows
      <4>5. QED BY <4>4 DEF n, t, c, new
    <3>8. QED BY <3>6, <3>7
  <2>15. QED BY <2>13, <2>14
<1>10. QED BY <1>7, <1>8, <1>9

-----------------------------------------------------------------------------
(* The stream.                                                               *)

HeardOK == history \in Seq(Messages) /\ current \in Seq(Messages)
\* The request comes after the history.
AskedLast == result = Pending => current = <<>>
\* The window follows the scan of all that was heard.
WindowOK ==
  LET s == history \o current
  IN Follows(w, Scan(s, Len(history))[Len(s)], s, Len(history))
\* What is returned is what the window holds.
ResultOK ==
  result.kind \in {"raised", "selection"} /\ result # Raise("read")
    => result = Finished(w, Len(history), Len(current))
StreamInv == HeardOK /\ AskedLast /\ WindowOK /\ ResultOK

LEMMA HeardFacts ==
  ASSUME HeardOK
  PROVE  /\ history \in Seq(Message) /\ current \in Seq(Message)
         /\ Len(history) \in Nat /\ Len(current) \in Nat
         /\ history \o current \in Seq(Message)
         /\ Len(history \o current) = Len(history) + Len(current)
         /\ \A m \in Messages : m \in Message
<1>1. \A m \in Messages : m \in Message
  BY MessagesAssumption
<1>2. history \in Seq(Message) /\ current \in Seq(Message)
  <2>1. Messages \subseteq Message
    BY <1>1
  <2>2. QED BY <2>1, SeqMonotonic DEF HeardOK
<1>3. QED BY <1>1, <1>2, SeqFacts, ConcatProperties

LEMMA InitStreamInv == Init => StreamInv
<1> SUFFICES ASSUME Init PROVE StreamInv
  OBVIOUS
<1> USE DEF Init
<1>1. HeardOK /\ AskedLast
  BY DEF HeardOK, AskedLast
<1>2. ResultOK
  BY DEF ResultOK, Pending
<1> DEFINE s == history \o current
<1>3. s = <<>> /\ Len(s) = 0 /\ Len(history) = 0 /\ s \in Seq(Message)
  <2>1. <<>> \in Seq(Message)
    OBVIOUS
  <2>2. <<>> \o <<>> = <<>>
    BY <2>1, ConcatEmptySeq
  <2>3. QED BY <2>1, <2>2
<1>4. Scan(s, 0)[0] = Unscanned
  BY <1>3, ScanSteps
<1> HIDE DEF s
<1>5. /\ Cost(s, {}) = 0 /\ Cardinality({}) = 0 /\ Fits(0) /\ 1 .. 0 = {} /\ Len(s) = 0
      /\ {} \in SUBSET (1 .. Len(s))
  <2>1. {} \in SUBSET (1 .. Len(s))
    OBVIOUS
  <2>2. Cost(s, {}) = 0
    BY <1>3, <2>1, CostNone
  <2>3. Fits(0)
    BY BudgetAssumption DEF Fits
  <2>4. QED BY <1>3, <2>1, <2>2, <2>3, FS_EmptySet
<1>6. /\ NewGroup \in KeptGroup /\ NewGroup.entries = {} /\ NewGroup.cost = 0
      /\ NewGroup.count = 0 /\ NewGroup.given = 0 /\ NewGroup.mandatory = FALSE
  BY DEF NewGroup, KeptGroup
<1>7. /\ w \in WindowType /\ w.group = NewGroup /\ w.optional = <<>> /\ w.optional_cost = 0
      /\ w.required = {} /\ w.required_cost = 0 /\ w.required_given = 0 /\ w.overflow = FALSE
      /\ w.mandatory_groups = 0 /\ w.groups = 0 /\ w.open = {} /\ w.total = 0
      /\ w.failure = "none"
  <2>1. <<>> \in Seq(KeptGroup)
    OBVIOUS
  <2>2. QED BY <1>6, <2>1 DEF NewWindow, WindowType
<1>8. Tight(w, <<>>, s, 0, 0, 0, 0)
  <2>1. Split(w, <<>>, 0, 0, 0)
    BY <1>7 DEF Split
  <2>2. Span(<<>>, 0, 0) = {} /\ Len(<<>>) = 0
    BY DEF Span
  <2>3. MirrorsOptional(w, <<>>, s, 0, 0)
    <3>1. 1 .. 0 - 0 = {} /\ ~ (0 > 0)
      OBVIOUS
    <3>2. w.optional_cost = Cost(s, Span(<<>>, 0, 0))
      BY <1>5, <1>7, <2>2
    <3>3. QED BY <3>1, <3>2 DEF MirrorsOptional
  <2>4. Required(s, 0, <<>>, 0) = {}
    BY <1>5, <2>2 DEF Required
  <2>5. MirrorsRequired(w, {}, s, 0)
    BY <1>5, <1>7 DEF MirrorsRequired
  <2>6. QED BY <1>7, <2>1, <2>3, <2>4, <2>5 DEF Tight, Loose
<1>9. MirrorsGroup(w.group, {}, s, 0)
  BY <1>5, <1>6, <1>7 DEF MirrorsGroup
<1>10. Mirrors(w, Unscanned, s, 0)
  BY <1>3, <1>5, <1>7, <1>8, <1>9 DEF Mirrors, Unscanned
<1>11. Bounded(w, s)
  <2>1. ToSet(w.optional) = {}
    BY <1>7 DEF ToSet
  <2>2. Entries(w) = {}
    BY <1>7, <2>1 DEF Entries
  <2>3. QED BY <1>5, <1>6, <1>7, <2>2 DEF Bounded
<1>12. Unscanned.error = "none"
  BY DEF Unscanned
<1>13. Follows(w, Unscanned, s, 0)
  BY <1>7, <1>10, <1>11, <1>12 DEF Follows
<1>14. WindowOK
  BY <1>3, <1>4, <1>13 DEF WindowOK, s
<1>15. QED BY <1>1, <1>2, <1>14 DEF StreamInv

LEMMA YieldsKeeps == StreamInv /\ Yields => StreamInv'
<1> SUFFICES ASSUME StreamInv, Yields PROVE StreamInv'
  OBVIOUS
<1>1. HeardOK /\ AskedLast /\ WindowOK /\ ResultOK
  BY DEF StreamInv
<1> DEFINE s == history
           n == Len(history)
<1>2. PICK m \in Messages : /\ history' = Append(history, m)
                            /\ w' = Add(w, m, Len(history) + Len(current) + 1, FALSE, FALSE)
  BY DEF Yields, Place
<1>3. current = <<>> /\ current' = <<>> /\ result = Pending /\ result' = Pending
  BY <1>1 DEF Yields, AskedLast
<1>4. m \in Message /\ s \in Seq(Message) /\ n \in Nat /\ history \o current = s
      /\ history' \o current' = Append(s, m) /\ Append(s, m) \in Seq(Message)
      /\ Len(Append(s, m)) = n + 1
  <2>1. m \in Message /\ s \in Seq(Message) /\ n \in Nat
    BY <1>1, HeardFacts
  <2>2. Append(s, m) \in Seq(Message) /\ Len(Append(s, m)) = n + 1
    BY <2>1, AppendFacts
  <2>3. s \o <<>> = s /\ Append(s, m) \o <<>> = Append(s, m)
    BY <2>1, <2>2, ConcatEmptySeq
  <2>4. QED BY <1>2, <1>3, <2>1, <2>2, <2>3
<1>5. Follows(w, Scan(s, n)[n], s, n)
  BY <1>1, <1>4 DEF WindowOK
<1>6. /\ w' = Add(w, m, n + 1, n + 1 > n + 1, n = n + 1)
      /\ n + 1 \in Nat
      /\ \A i \in 1 .. n : i <= n <=> i <= n + 1
      /\ \A i \in 1 .. n : i = n + 1 <=> i = (n + 1) + 1
  <2>1. n + 0 + 1 = n + 1 /\ (n + 1 > n + 1) = FALSE /\ (n = n + 1) = FALSE
    BY <1>4
  <2>2. Len(<<>>) = 0
    OBVIOUS
  <2>3. w' = Add(w, m, n + 1, FALSE, FALSE)
    BY <1>2, <1>3, <2>1, <2>2
  <2>4. w' = Add(w, m, n + 1, n + 1 > n + 1, n = n + 1)
    BY <2>1, <2>3
  <2> HIDE DEF n
  <2>5. /\ n + 1 \in Nat
        /\ \A i \in 1 .. n : i <= n <=> i <= n + 1
        /\ \A i \in 1 .. n : i = n + 1 <=> i = (n + 1) + 1
    BY <1>4
  <2>6. QED BY <2>4, <2>5
<1>7. Follows(w', Scan(Append(s, m), n + 1)[n + 1], Append(s, m), n + 1)
  BY <1>4, <1>5, <1>6, AddFollows
<1>8. WindowOK'
  BY <1>2, <1>4, <1>7 DEF WindowOK
<1>9. HeardOK'
  BY <1>1, <1>2, <1>3, AppendFacts DEF HeardOK
<1>10. AskedLast' /\ ResultOK'
  BY <1>3 DEF AskedLast, ResultOK, Pending
<1>11. QED BY <1>8, <1>9, <1>10 DEF StreamInv

LEMMA AsksKeeps == StreamInv /\ Asks => StreamInv'
<1> SUFFICES ASSUME StreamInv, Asks PROVE StreamInv'
  OBVIOUS
<1>1. HeardOK /\ AskedLast /\ WindowOK /\ ResultOK
  BY DEF StreamInv
<1> DEFINE s == history \o current
           n == Len(s)
           given == Len(history)
<1>2. PICK m \in Messages :
        /\ current' = Append(current, m)
        /\ w' = Add(w, m, Len(history) + Len(current) + 1, TRUE, current = <<>>)
  BY DEF Asks, Place
<1>3. history' = history /\ result = Requesting /\ result' = Requesting
  BY DEF Asks
<1>4. /\ m \in Message /\ s \in Seq(Message) /\ given \in Nat /\ Len(current) \in Nat
      /\ n = given + Len(current) /\ n \in Nat
      /\ history' \o current' = Append(s, m) /\ Len(Append(s, m)) = n + 1
  <2>1. /\ m \in Message /\ s \in Seq(Message) /\ given \in Nat /\ Len(current) \in Nat
        /\ history \in Seq(Message) /\ current \in Seq(Message)
        /\ n = given + Len(current)
    BY <1>1, HeardFacts
  <2>2. Len(Append(s, m)) = n + 1
    BY <2>1, AppendFacts
  <2>3. <<m>> \in Seq(Message)
    BY <2>1
  <2>4. Append(s, m) = s \o <<m>> /\ Append(current, m) = current \o <<m>>
    BY <2>1, AppendIsConcat
  <2>5. s \o <<m>> = history \o (current \o <<m>>)
    BY <2>1, <2>3, ConcatAssociative
  <2>6. n \in Nat
    BY <2>1
  <2>7. QED BY <1>2, <1>3, <2>1, <2>2, <2>4, <2>5, <2>6
<1>5. Follows(w, Scan(s, given)[n], s, given)
  BY <1>1 DEF WindowOK
<1>6. current = <<>> <=> n = given
  <2>1. current = <<>> <=> Len(current) = 0
    BY <1>1, EmptySeq DEF HeardOK
  <2>2. QED BY <1>4, <2>1
<1> HIDE DEF s, n
<1>7. /\ w' = Add(w, m, n + 1, n + 1 > given, n = given)
      /\ \A i \in 1 .. n : i <= given <=> i <= given
  <2>1. (n + 1 > given) = TRUE /\ (n = given) = (current = <<>>)
        /\ Len(history) + Len(current) + 1 = n + 1
    BY <1>4, <1>6
  <2>2. QED BY <1>2, <2>1
<1>8. Follows(w', Scan(Append(s, m), given)[n + 1], Append(s, m), given)
  BY <1>4, <1>5, <1>7, AddFollows DEF n
<1>9. WindowOK'
  BY <1>3, <1>4, <1>8 DEF WindowOK
<1>10. HeardOK'
  BY <1>1, <1>2, <1>3, AppendFacts DEF HeardOK
<1>11. AskedLast' /\ ResultOK'
  BY <1>3 DEF AskedLast, ResultOK, Requesting, Pending
<1>12. QED BY <1>9, <1>10, <1>11 DEF StreamInv

LEMMA StreamInvHolds == Spec => []StreamInv
<1>1. Init => StreamInv
  BY InitStreamInv
<1>2. StreamInv /\ [Next]_vars => StreamInv'
  <2> SUFFICES ASSUME StreamInv, [Next]_vars PROVE StreamInv'
    OBVIOUS
  <2>1. CASE Yields
    BY <2>1, YieldsKeeps
  <2>2. CASE Asks
    BY <2>2, AsksKeeps
  <2>3. CASE ReadFails
    BY <2>3 DEF ReadFails, StreamInv, HeardOK, AskedLast, WindowOK, ResultOK, Raise, Pending
  <2>4. CASE Ends
    BY <2>4 DEF Ends, StreamInv, HeardOK, AskedLast, WindowOK, ResultOK, Requesting, Pending
  <2>5. CASE Finish
    <3>1. result' = Finished(w, Len(history), Len(current)) /\ result = Requesting
          /\ history' = history /\ current' = current /\ w' = w
      BY <2>5 DEF Finish
    <3>2. result' # Pending
      <4>1. Finished(w, Len(history), Len(current)).kind \in {"raised", "selection"}
        BY DEF Finished, Raise, Selection
      <4>2. QED BY <3>1, <4>1 DEF Pending
    <3>3. QED BY <3>1, <3>2 DEF StreamInv, HeardOK, AskedLast, WindowOK, ResultOK
  <2>6. CASE UNCHANGED vars
    BY <2>6 DEF vars, StreamInv, HeardOK, AskedLast, WindowOK, ResultOK
  <2>7. QED BY <2>1, <2>2, <2>3, <2>4, <2>5, <2>6 DEF Next
<1>3. QED BY <1>1, <1>2, PTL DEF Spec

\* However long the history that select_stream() reads: the payloads _StreamingSelection
\* holds on to never exceed the budget, nor do those of the open group.
THEOREM HeldWithinBudget == Spec => []RetentionBounded
<1>1. StreamInv => RetentionBounded
  <2> SUFFICES ASSUME StreamInv PROVE RetentionBounded
    OBVIOUS
  <2> DEFINE s == history \o current
             P == w.required \cup UNION {g.entries : g \in ToSet(w.optional)}
             Q == w.group.entries
  <2>1. s \in Seq(Message)
    BY HeardFacts DEF StreamInv
  <2>2. Bounded(w, s)
    BY DEF StreamInv, WindowOK, Follows
  <2>3. /\ P \in SUBSET (1 .. Len(s)) /\ Fits(Cost(s, P))
        /\ Q \in SUBSET (1 .. Len(s)) /\ Fits(Cost(s, Q))
    BY <2>2 DEF Bounded, Entries
  <2> HIDE DEF s, P, Q
  <2>4. Bytes(s, P) <= MaxBytes /\ Bytes(s, Q) <= MaxBytes
    BY <2>1, <2>3, BytesAreCost
  <2>5. QED BY <2>4, BudgetAssumption DEF RetentionBounded, s, P, Q
<1>2. QED BY <1>1, StreamInvHolds, PTL

-----------------------------------------------------------------------------
(* select() takes the groups that the stream keeps.                          *)

\* The groups after k are in R; of the others, those after i fit, and one more does not.
Settles(s, groups, R, k, i) ==
  /\ Ordered(groups, Len(s)) /\ k \in 0 .. Len(groups) /\ i \in 0 .. k
  /\ R \in SUBSET (1 .. Len(s)) /\ R \cap Span(groups, 0, k) = {}
  /\ Fits(Cost(s, R) + Cost(s, Span(groups, i, k)))
  /\ i > 0 => ~ Fits(Cost(s, R) + Cost(s, Span(groups, i - 1, k)))

LEMMA SettlesFacts ==
  ASSUME NEW s \in Seq(Message), NEW groups, NEW R, NEW k, NEW i, Settles(s, groups, R, k, i)
  PROVE  /\ Len(groups) \in Nat /\ k \in Nat /\ i \in Nat /\ i <= k /\ k <= Len(groups)
         /\ groups \in Seq(SUBSET (1 .. Len(s))) /\ Len(s) \in Nat
         /\ \A l \in 0 .. k :
              /\ Span(groups, l, k) \in SUBSET (1 .. Len(s)) /\ R \cap Span(groups, l, k) = {}
              /\ R \cup Span(groups, l, k) \in SUBSET (1 .. Len(s))
              /\ Cost(s, R \cup Span(groups, l, k)) = Cost(s, R) + Cost(s, Span(groups, l, k))
<1>1. groups \in Seq(SUBSET (1 .. Len(s))) /\ Len(groups) \in Nat /\ Len(s) \in Nat
  BY SeqFacts DEF Settles, Ordered
<1>2. k \in Nat /\ i \in Nat /\ i <= k /\ k <= Len(groups) /\ R \in SUBSET (1 .. Len(s))
      /\ R \cap Span(groups, 0, k) = {}
  BY <1>1 DEF Settles
<1>3. ASSUME NEW l \in 0 .. k
      PROVE  /\ Span(groups, l, k) \in SUBSET (1 .. Len(s)) /\ R \cap Span(groups, l, k) = {}
             /\ R \cup Span(groups, l, k) \in SUBSET (1 .. Len(s))
             /\ Cost(s, R \cup Span(groups, l, k)) = Cost(s, R) + Cost(s, Span(groups, l, k))
  <2>1. l \in Nat /\ l <= k
    BY <1>2
  <2>2. Span(groups, l, k) \in SUBSET (1 .. Len(s))
    BY <1>1, <1>2, <2>1, SpanFacts
  <2>3. Span(groups, l, k) \subseteq Span(groups, 0, k)
    <3>1. l + 1 .. k \subseteq 0 + 1 .. k
      BY <2>1
    <3>2. QED BY <3>1 DEF Span
  <2>4. R \cap Span(groups, l, k) = {}
    BY <1>2, <2>3
  <2>5. QED BY <1>2, <2>2, <2>4, CostPlus
<1>4. QED BY <1>1, <1>2, <1>3

\* A group that fits is taken, and the first that does not is the last one looked at.
LEMMA Takes ==
  ASSUME NEW s \in Seq(Message), NEW groups, NEW R, NEW k, NEW i, Settles(s, groups, R, k, i),
         NEW g \in 1 .. k, NEW chosen
  PROVE  LET A == R \cup Span(groups, g, k)
             B == R \cup Span(groups, g - 1, k)
             a == [places |-> A, bytes |-> Bytes(s, A), stop |-> FALSE, chosen |-> chosen]
         IN /\ g > i => Take(a, s, groups[g])
                          = [places |-> B, bytes |-> Bytes(s, B), stop |-> FALSE,
                             chosen |-> chosen + 1]
            /\ g = i => Take(a, s, groups[g]) = [a EXCEPT !.stop = TRUE]
<1> DEFINE A == R \cup Span(groups, g, k)
           B == R \cup Span(groups, g - 1, k)
           G == groups[g]
           a == [places |-> A, bytes |-> Bytes(s, A), stop |-> FALSE, chosen |-> chosen]
           bytes == a.bytes + Sized(s, G) + Cardinality(G) - (IF a.places = {} THEN 1 ELSE 0)
<1>1. /\ Len(groups) \in Nat /\ k \in Nat /\ i \in Nat /\ i <= k /\ k <= Len(groups)
      /\ groups \in Seq(SUBSET (1 .. Len(s)))
      /\ \A l \in 0 .. k :
           /\ Span(groups, l, k) \in SUBSET (1 .. Len(s)) /\ R \cap Span(groups, l, k) = {}
           /\ R \cup Span(groups, l, k) \in SUBSET (1 .. Len(s))
           /\ Cost(s, R \cup Span(groups, l, k)) = Cost(s, R) + Cost(s, Span(groups, l, k))
  BY SettlesFacts, ZenonT(30)
<1>2. /\ g \in 0 .. k /\ g - 1 \in 0 .. k /\ g \in 1 .. Len(groups)
      /\ (g - 1) + 1 = g /\ g - 1 \in Nat /\ g \in Nat
  BY <1>1
<1>3. G \in SUBSET (1 .. Len(s)) /\ G # {}
  BY <1>1, <1>2, SeqFacts DEF Settles, Ordered
<1>4. Span(groups, g - 1, k) = G \cup Span(groups, g, k) /\ G \cap Span(groups, g, k) = {}
  <2>1. \A x, y, z \in Nat : x <= y /\ y <= z =>
          Span(groups, x, z) = Span(groups, x, y) \cup Span(groups, y, z)
    BY SpanSplit
  <2>2. g - 1 <= g /\ g <= k
    BY <1>2
  <2>3. Span(groups, g - 1, k) = Span(groups, g - 1, g) \cup Span(groups, g, k)
    BY <1>1, <1>2, <2>1, <2>2
  <2>4. Span(groups, g - 1, g) = G
    BY <1>2, SpanOne
  <2>5. Span(groups, g - 1, g) \cap Span(groups, g, k) = {}
    <3>1. Ordered(groups, Len(s)) /\ Len(s) \in Nat
      BY SettlesFacts DEF Settles
    <3>2. QED BY <1>1, <1>2, <2>2, <3>1, SpansApart
  <2>6. QED BY <2>3, <2>4, <2>5
<1>5. /\ A \in SUBSET (1 .. Len(s)) /\ B \in SUBSET (1 .. Len(s)) /\ B = A \cup G
      /\ A \cap G = {}
  <2>1. R \cap Span(groups, g - 1, k) = {}
    BY <1>1, <1>2
  <2>2. QED BY <1>1, <1>2, <1>4, <2>1
<1>6. a.places = A /\ a.bytes = Bytes(s, A) /\ a.stop = FALSE /\ a.chosen = chosen
  OBVIOUS
<1>7. /\ Take(a, s, G) = IF bytes > MaxBytes THEN [a EXCEPT !.stop = TRUE]
                         ELSE [places |-> A \cup G, bytes |-> bytes, stop |-> FALSE,
                               chosen |-> chosen + 1]
  <2> HIDE DEF a, A, G
  <2>1. QED BY <1>6 DEF Take
<1>8. bytes = Bytes(s, B) /\ bytes \in Nat
  <2> HIDE DEF A, B, G, a
  <2>1. /\ Cost(s, A) \in Nat /\ Cost(s, G) \in Nat /\ Sized(s, G) \in Nat
        /\ Cardinality(G) \in Nat /\ Cost(s, G) = Sized(s, G) + Cardinality(G)
    BY <1>3, <1>5, CostNat DEF Cost
  <2>2. Cost(s, B) = Cost(s, A) + Cost(s, G)
    BY <1>3, <1>5, CostPlus
  <2>3. /\ Bytes(s, A) = IF A = {} THEN 2 ELSE Cost(s, A) + 1
        /\ Bytes(s, B) = Cost(s, B) + 1
    BY <1>3, <1>5, BytesAreCost
  <2>4. A = {} => Cost(s, A) = 0
    BY <1>5, CostNone
  <2>5. bytes = Bytes(s, A) + Sized(s, G) + Cardinality(G) - (IF A = {} THEN 1 ELSE 0)
    BY <1>6
  <2> HIDE DEF bytes
  <2>6. CASE A = {}
    BY <2>1, <2>2, <2>3, <2>4, <2>5, <2>6
  <2>7. CASE A # {}
    <3>1. /\ Bytes(s, A) = Cost(s, A) + 1 /\ Bytes(s, B) = Cost(s, B) + 1
          /\ bytes = Bytes(s, A) + Sized(s, G) + Cardinality(G) - 0
      BY <2>3, <2>5, <2>7
    <3>2. QED BY <2>1, <2>2, <3>1
  <2>8. QED BY <2>6, <2>7
<1>9. /\ Cost(s, B) = Cost(s, R) + Cost(s, Span(groups, g - 1, k))
      /\ Cost(s, R) \in Nat
      /\ bytes > MaxBytes <=> ~ Fits(Cost(s, B))
  <2>1. Cost(s, B) = Cost(s, R) + Cost(s, Span(groups, g - 1, k))
    BY <1>1, <1>2
  <2>2. R \in SUBSET (1 .. Len(s))
    BY DEF Settles
  <2>3. Cost(s, R) \in Nat
    BY <2>2, CostNat
  <2> HIDE DEF bytes, B
  <2>4. bytes <= MaxBytes <=> Fits(Cost(s, B))
    BY <1>5, <1>8, BytesAreCost
  <2>5. QED BY <1>8, <2>1, <2>3, <2>4, BudgetAssumption
<1>10. ASSUME g > i PROVE Fits(Cost(s, B))
  <2>1. i \in 0 .. k /\ i <= g - 1 /\ g - 1 <= k
    BY <1>1, <1>2, <1>10
  <2>2. Span(groups, g - 1, k) \subseteq Span(groups, i, k)
    <3>1. (g - 1) + 1 .. k \subseteq i + 1 .. k
      BY <1>1, <1>2, <2>1
    <3>2. QED BY <3>1 DEF Span
  <2> DEFINE less == Cost(s, Span(groups, g - 1, k))
             most == Cost(s, Span(groups, i, k))
  <2>3. /\ Span(groups, i, k) \in SUBSET (1 .. Len(s))
        /\ Span(groups, g - 1, k) \in SUBSET (1 .. Len(s))
    BY <1>1, <1>2, <2>1
  <2>4. less \in Nat /\ most \in Nat /\ less <= most
    BY <2>2, <2>3, CostNat, CostLess
  <2>5. Fits(Cost(s, R) + most)
    BY DEF Settles
  <2> HIDE DEF less, most
  <2>6. /\ Cost(s, R) + less \in Nat /\ Cost(s, R) + most \in Nat
        /\ Cost(s, R) + less <= Cost(s, R) + most
    BY <1>9, <2>4
  <2>7. Fits(Cost(s, R) + less)
    BY <2>5, <2>6, FitsLess
  <2>8. QED BY <1>9, <2>7 DEF less
<1>11. ASSUME g = i PROVE ~ Fits(Cost(s, B))
  <2>1. i > 0
    BY <1>11
  <2>2. ~ Fits(Cost(s, R) + Cost(s, Span(groups, i - 1, k)))
    BY <2>1 DEF Settles
  <2>3. QED BY <1>9, <1>11, <2>2
<1> HIDE DEF A, B, G, a, bytes
<1>12. g > i => Take(a, s, G) = [places |-> B, bytes |-> Bytes(s, B), stop |-> FALSE,
                                 chosen |-> chosen + 1]
  BY <1>5, <1>7, <1>8, <1>9, <1>10
<1>13. g = i => Take(a, s, G) = [a EXCEPT !.stop = TRUE]
  BY <1>7, <1>9, <1>11
<1>14. QED BY <1>12, <1>13 DEF A, B, G, a

Taking(f, s, groups, mandatory, base) ==
  f = [n \in 0 .. Len(groups) |->
         IF n = 0 THEN [places |-> base, bytes |-> Bytes(s, base), stop |-> FALSE,
                        chosen |-> Cardinality(mandatory)]
         ELSE IF Len(groups) + 1 - n \in mandatory THEN f[n - 1]
              ELSE Take(f[n - 1], s, groups[Len(groups) + 1 - n])]

\* select() starts with R, which has the groups after k.
Starts(s, groups, asked, R, k) ==
  Mandatory(groups, asked) = k + 1 .. Len(groups) /\ Base(s, groups, asked) = R

KeptFrom(s, groups, R, k, l, chosen) ==
  [places |-> R \cup Span(groups, l, k), bytes |-> Bytes(s, R \cup Span(groups, l, k)),
   stop |-> FALSE, chosen |-> chosen]
\* What is taken when n groups have been looked at.
Course(s, groups, R, k, i) ==
  [n \in 0 .. Len(groups) |->
     IF n <= Len(groups) - k THEN KeptFrom(s, groups, R, k, k, Len(groups) - k)
     ELSE IF n <= Len(groups) - i THEN KeptFrom(s, groups, R, k, Len(groups) - n, n)
     ELSE [KeptFrom(s, groups, R, k, i, Len(groups) - i) EXCEPT !.stop = TRUE]]

LEMMA CourseTaken ==
  ASSUME NEW s \in Seq(Message), NEW groups, NEW R, NEW k, NEW i, Settles(s, groups, R, k, i)
  PROVE  Taking(Course(s, groups, R, k, i), s, groups, k + 1 .. Len(groups), R)
<1> DEFINE L == Len(groups)
           f == Course(s, groups, R, k, i)
           start == [places |-> R, bytes |-> Bytes(s, R), stop |-> FALSE,
                     chosen |-> Cardinality(k + 1 .. L)]
           K(l, chosen) == KeptFrom(s, groups, R, k, l, chosen)
           end == [K(i, L - i) EXCEPT !.stop = TRUE]
           next(n) == IF L + 1 - n \in k + 1 .. L THEN f[n - 1]
                      ELSE Take(f[n - 1], s, groups[L + 1 - n])
<1>1. L \in Nat /\ k \in Nat /\ i \in Nat /\ i <= k /\ k <= L
  BY SettlesFacts
<1>2. K(k, L - k) = start
  <2>1. Span(groups, k, k) = {}
    BY <1>1 DEF Span
  <2>2. Cardinality(k + 1 .. L) = L - k
    <3>1. k + 1 \in Int /\ L \in Int
      BY <1>1
    <3>2. Cardinality(k + 1 .. L) = IF k + 1 > L THEN 0 ELSE L - (k + 1) + 1
      BY <3>1, FS_Interval
    <3>3. QED BY <1>1, <3>2
  <2>3. R \cup {} = R
    OBVIOUS
  <2>4. QED BY <2>1, <2>2, <2>3 DEF KeptFrom
<1>3. /\ f = [n \in 0 .. L |-> f[n]]
      /\ \A n \in 0 .. L : f[n] = IF n <= L - k THEN K(k, L - k)
                                  ELSE IF n <= L - i THEN K(L - n, n) ELSE end
  BY Zenon DEF Course
<1>4. ASSUME NEW g \in 1 .. k, NEW chosen
      PROVE  /\ g > i => Take(K(g, chosen), s, groups[g]) = K(g - 1, chosen + 1)
             /\ g = i => Take(K(g, chosen), s, groups[g]) = [K(g, chosen) EXCEPT !.stop = TRUE]
  BY Takes DEF KeptFrom
<1>5. ASSUME NEW g PROVE Take(end, s, groups[g]) = end
  <2>1. end.stop = TRUE
    BY DEF KeptFrom
  <2> HIDE DEF end
  <2>2. QED BY <2>1 DEF Take
<1> HIDE DEF K, end, f, L
<1>6. f[0] = start
  BY <1>1, <1>2, <1>3
<1> HIDE DEF start
<1>7. ASSUME NEW n \in 1 .. L PROVE f[n] = next(n)
  <2> DEFINE g == L + 1 - n
  <2>1. n - 1 \in 0 .. L /\ n \in 0 .. L /\ g \in 1 .. L /\ L - (n - 1) = g /\ L - n = g - 1
        /\ (n - 1) + 1 = n
    BY <1>1
  <2>2. CASE n <= L - k
    <3>1. g \in k + 1 .. L /\ n - 1 <= L - k
      BY <1>1, <2>1, <2>2
    <3>2. f[n] = K(k, L - k) /\ f[n - 1] = K(k, L - k)
      BY <1>3, <2>1, <2>2, <3>1
    <3>3. QED BY <3>1, <3>2
  <2>3. CASE n > L - k
    <3>1. g \in 1 .. k /\ ~ (g \in k + 1 .. L)
      BY <1>1, <2>1, <2>3
    <3>2. next(n) = Take(f[n - 1], s, groups[g])
      BY <3>1
    <3>3. CASE n <= L - i
      <4>1. g > i /\ n - 1 <= L - i /\ ~ (n <= L - k)
        BY <1>1, <2>1, <2>3, <3>3
      <4>2. f[n] = K(g - 1, n)
        BY <1>3, <2>1, <3>3, <4>1
      <4>3. f[n - 1] = K(g, n - 1)
        <5>1. CASE n - 1 <= L - k
          <6>1. n - 1 = L - k /\ g = k
            BY <1>1, <2>1, <2>3, <5>1
          <6>2. QED BY <1>3, <2>1, <5>1, <6>1
        <5>2. CASE ~ (n - 1 <= L - k)
          BY <1>3, <2>1, <4>1, <5>2
        <5>3. QED BY <5>1, <5>2
      <4>4. Take(K(g, n - 1), s, groups[g]) = K(g - 1, n)
        BY <1>4, <2>1, <3>1, <4>1
      <4>5. QED BY <3>2, <4>2, <4>3, <4>4
    <3>4. CASE n > L - i
      <4>1. f[n] = end
        BY <1>1, <1>3, <2>1, <2>3, <3>4, SMTT(30)
      <4>2. CASE n - 1 > L - i
        <5>1. f[n - 1] = end
          BY <1>1, <1>3, <2>1, <4>2, SMTT(30)
        <5>2. QED BY <1>5, <3>2, <4>1, <5>1
      <4>3. CASE ~ (n - 1 > L - i)
        <5>1. n - 1 = L - i /\ g = i
          BY <1>1, <2>1, <3>4, <4>3
        <5>2. f[n - 1] = K(i, L - i)
          <6>1. CASE n - 1 <= L - k
            <7>1. i = k
              BY <1>1, <5>1, <6>1
            <7>2. QED BY <1>3, <2>1, <6>1, <7>1
          <6>2. CASE ~ (n - 1 <= L - k)
            BY <1>3, <2>1, <5>1, <6>2
          <6>3. QED BY <6>1, <6>2
        <5>3. Take(K(i, L - i), s, groups[g]) = [K(i, L - i) EXCEPT !.stop = TRUE]
          BY <1>4, <3>1, <5>1
        <5>4. QED BY <3>2, <4>1, <5>2, <5>3 DEF end
      <4>4. QED BY <4>2, <4>3
    <3>5. QED BY <1>1, <3>3, <3>4
  <2>4. QED BY <1>1, <2>2, <2>3
<1> HIDE DEF next
<1>8. \A n \in 0 .. L : f[n] = IF n = 0 THEN start ELSE next(n)
  <2>1. \A n \in 0 .. L : n = 0 \/ n \in 1 .. L
    BY <1>1
  <2>2. QED BY <1>6, <1>7, <2>1
<1>9. f = [n \in 0 .. L |-> IF n = 0 THEN start ELSE next(n)]
  BY <1>3, <1>8, Zenon
<1>10. QED BY <1>9, Zenon DEF Taking, next, start, f, L

TakesUpTo(final, s, groups, R, k, i) ==
  /\ final.places = R \cup Span(groups, i, k)
  /\ final.bytes = Bytes(s, R \cup Span(groups, i, k))
  /\ final.chosen = Len(groups) - i

LEMMA TakenIs ==
  ASSUME NEW s \in Seq(Message), NEW groups, NEW R, NEW k, NEW i, Settles(s, groups, R, k, i),
         NEW asked, Starts(s, groups, asked, R, k)
  PROVE  TakesUpTo(Taken(s, groups, asked), s, groups, R, k, i)
<1> DEFINE L == Len(groups)
           M == k + 1 .. L
           c == Course(s, groups, R, k, i)
           f == CHOOSE x : Taking(x, s, groups, M, R)
<1>1. L \in Nat /\ k \in Nat /\ i \in Nat /\ i <= k /\ k <= L
  BY SettlesFacts
<1>2. Taken(s, groups, asked) = f[L]
  <2>1. Taken(s, groups, asked)
          = (CHOOSE x : Taking(x, s, groups, Mandatory(groups, asked), Base(s, groups, asked)))[L]
    BY Zenon DEF Taken, Taking
  <2>2. Mandatory(groups, asked) = M /\ Base(s, groups, asked) = R
    BY DEF Starts
  <2>3. QED BY <2>1, <2>2, Zenon
<1>3. Taking(c, s, groups, M, R)
  BY CourseTaken
<1>4. Taking(f, s, groups, M, R)
  BY <1>3, Zenon
<1> HIDE DEF f, c
<1>5. f[L] = c[L]
  <2> DEFINE start == [places |-> R, bytes |-> Bytes(s, R), stop |-> FALSE,
                       chosen |-> Cardinality(M)]
             step(a, n) == IF L + 1 - n \in M THEN a ELSE Take(a, s, groups[L + 1 - n])
  <2>1. ASSUME NEW x, Taking(x, s, groups, M, R)
        PROVE  x[0] = start /\ \A n \in 1 .. L : x[n] = step(x[n - 1], n)
    <3>1. \A n \in 0 .. L : x[n] = IF n = 0 THEN start ELSE step(x[n - 1], n)
      BY <2>1, Zenon DEF Taking
    <3> HIDE DEF start, step
    <3>2. 0 \in 0 .. L /\ \A n \in 1 .. L : n \in 0 .. L /\ n # 0
      BY <1>1
    <3>3. QED BY <3>1, <3>2
  <2> HIDE DEF start, step
  <2>2. Alike(f, c, L)
    BY <1>3, <1>4, <2>1 DEF Alike
  <2>3. L \in 0 .. L
    BY <1>1
  <2>4. QED BY <1>1, <2>2, <2>3, Agree
<1>6. /\ c[L].places = R \cup Span(groups, i, k)
      /\ c[L].bytes = Bytes(s, R \cup Span(groups, i, k))
      /\ c[L].chosen = L - i
  <2> DEFINE K(l, chosen) == KeptFrom(s, groups, R, k, l, chosen)
             end == [K(i, L - i) EXCEPT !.stop = TRUE]
             Shows(a, l, chosen) == /\ a.places = R \cup Span(groups, l, k)
                                    /\ a.bytes = Bytes(s, R \cup Span(groups, l, k))
                                    /\ a.chosen = chosen
  <2>1. c[L] = IF L <= L - k THEN K(k, L - k) ELSE IF L <= L - i THEN K(L - L, L) ELSE end
    <3>1. L \in 0 .. L
      BY <1>1
    <3>2. QED BY <3>1, Zenon DEF c, Course
  <2>2. ASSUME NEW l, NEW chosen PROVE Shows(K(l, chosen), l, chosen)
    BY DEF KeptFrom
  <2>3. Shows(end, i, L - i)
    BY DEF KeptFrom
  <2> HIDE DEF K, L, end, Shows
  <2>4. Shows(c[L], i, L - i)
    <3>1. CASE L <= L - k
      <4>1. k = i /\ L - k = L - i
        BY <1>1, <3>1
      <4>2. QED BY <2>1, <2>2, <3>1, <4>1
    <3>2. CASE ~ (L <= L - k) /\ L <= L - i
      <4>1. L - L = i /\ L = L - i
        BY <1>1, <3>2
      <4>2. QED BY <2>1, <2>2, <3>2, <4>1
    <3>3. CASE ~ (L <= L - k) /\ ~ (L <= L - i)
      BY <2>1, <2>3, <3>3
    <3>4. QED BY <3>1, <3>2, <3>3
  <2>5. QED BY <2>4 DEF Shows
<1>7. QED BY <1>2, <1>5, <1>6 DEF TakesUpTo

-----------------------------------------------------------------------------
(* finish() returns what select() does.                                      *)

\* The first k groups are of the history, all others reach into the request.
SplitsAt(groups, given, k) ==
  /\ k \in 0 .. Len(groups)
  /\ \A g \in 1 .. k : groups[g] \subseteq 1 .. given
  /\ \A g \in k + 1 .. Len(groups) : ~ (groups[g] \subseteq 1 .. given)

LEMMA Splits ==
  ASSUME NEW n \in Nat, NEW groups, Ordered(groups, n), NEW given \in Nat
  PROVE  \E k : SplitsAt(groups, given, k)
<1> DEFINE L == Len(groups)
           T == {k \in 0 .. L : \A g \in k + 1 .. L : ~ (groups[g] \subseteq 1 .. given)}
<1>1. /\ groups \in Seq(SUBSET (1 .. n)) /\ L \in Nat
      /\ \A g \in 1 .. L : groups[g] \in SUBSET (1 .. n)
  BY SeqFacts DEF Ordered
<1> HIDE DEF L
<1>2. L \in T /\ T \in SUBSET Nat
  BY <1>1
<1>3. PICK k \in T : \A l \in T : k <= l
  BY <1>2, Least
<1>4. k \in 0 .. L /\ k \in Nat /\ \A g \in k + 1 .. L : ~ (groups[g] \subseteq 1 .. given)
  BY <1>2, <1>3
<1>5. ASSUME NEW g \in 1 .. k PROVE groups[g] \subseteq 1 .. given
  <2>1. k > 0 /\ k - 1 \in 0 .. L /\ (k - 1) + 1 = k /\ ~ (k <= k - 1)
    BY <1>1, <1>4
  <2>2. k - 1 \notin T
    BY <1>3, <2>1
  <2>3. PICK h \in k .. L : groups[h] \subseteq 1 .. given
    BY <2>1, <2>2
  <2>4. h = k
    <3>1. h = k \/ h \in k + 1 .. L
      BY <1>1, <1>4
    <3>2. QED BY <1>4, <2>3, <3>1
  <2>5. k \in 1 .. L /\ g \in 1 .. L
    BY <1>1, <1>4, <2>1
  <2>6. CASE g < k
    <3>1. PICK j : j \in groups[k]
      BY <2>5 DEF Ordered, L
    <3>2. \A i \in groups[g] : i < j
      BY <2>5, <2>6, <3>1 DEF Ordered, L
    <3>3. j \in 1 .. given
      BY <2>3, <2>4, <3>1
    <3>4. groups[g] \in SUBSET (1 .. n)
      BY <1>1, <2>5
    <3>5. QED BY <3>2, <3>3, <3>4
  <2>7. CASE g = k
    BY <2>3, <2>4, <2>7
  <2>8. QED BY <1>4, <2>6, <2>7
<1>6. QED BY <1>4, <1>5 DEF SplitsAt, L

\* select() must take the system messages and the groups of the request.
LEMMA StartsAt ==
  ASSUME NEW s \in Seq(Message), NEW given \in Nat, NEW a, WellScanned(a, s, Len(s)),
         a.error = "none", NEW k, SplitsAt(Groups(a), given, k)
  PROVE  /\ Starts(s, Groups(a), given + 1 .. Len(s), Required(s, Len(s), Groups(a), k), k)
         /\ Required(s, Len(s), Groups(a), k) \cap Span(Groups(a), 0, k) = {}
         /\ Required(s, Len(s), Groups(a), k) \in SUBSET (1 .. Len(s))
<1> DEFINE n == Len(s)
           groups == Groups(a)
           L == Len(groups)
           R == Required(s, n, groups, k)
           asked == given + 1 .. n
           systems == {p \in 1 .. n : s[p].role = "system"}
<1>1. /\ Ordered(groups, n) /\ a \in ScanState(n)
      /\ {p \in 1 .. n : s[p].role # "system"} = Span(groups, 0, L)
  <2>1. Ordered(groups, n) /\ a \in ScanState(n) /\ n \in Nat
    BY SeqFacts DEF WellScanned
  <2>2. Span(groups, 0, L) = Span(a.groups, 0, Len(a.groups)) \cup a.group
    BY <2>1, GroupsFacts
  <2>3. QED BY <2>1, <2>2 DEF WellScanned
<1>2. /\ groups \in Seq(SUBSET (1 .. n)) /\ L \in Nat /\ n \in Nat /\ DOMAIN groups = 1 .. L
      /\ DOMAIN s = 1 .. n
      /\ \A g \in 1 .. L : groups[g] \in SUBSET (1 .. n)
  BY <1>1, SeqFacts DEF Ordered
<1> HIDE DEF n, groups
<1>4. /\ k \in 0 .. L /\ k \in Nat
      /\ \A g \in 1 .. k : groups[g] \subseteq 1 .. given
      /\ \A g \in k + 1 .. L : ~ (groups[g] \subseteq 1 .. given)
  BY <1>2 DEF SplitsAt, groups
<1> HIDE DEF L
<1>5. Mandatory(groups, asked) = k + 1 .. L
  <2>1. ASSUME NEW g \in 1 .. L
        PROVE  groups[g] \cap asked # {} <=> ~ (groups[g] \subseteq 1 .. given)
    BY <1>2
  <2>2. \A g \in 1 .. L : g \in 1 .. k \/ g \in k + 1 .. L
    BY <1>2, <1>4
  <2>3. \A g \in k + 1 .. L : g \in 1 .. L /\ g \notin 1 .. k
    BY <1>2, <1>4
  <2>4. \A g : g \in Mandatory(groups, asked) <=> g \in 1 .. L /\ groups[g] \cap asked # {}
    BY <1>2 DEF Mandatory
  <2> HIDE DEF asked
  <2>5. \A g : g \in Mandatory(groups, asked) <=> g \in k + 1 .. L
    BY <1>4, <2>1, <2>2, <2>3, <2>4
  <2>6. QED BY <2>5 DEF Mandatory
<1>6. R = systems \cup Span(groups, k, L)
  BY DEF Required, L
<1>7. Base(s, groups, asked) = R
  <2>1. asked \subseteq R
    <3> SUFFICES ASSUME NEW p \in asked, p \notin systems PROVE p \in Span(groups, k, L)
      BY <1>6
    <3>1. p \in 1 .. n /\ ~ (p \in 1 .. given) /\ s[p].role # "system"
      BY <1>2
    <3>2. p \in Span(groups, 0, L)
      BY <1>1, <3>1
    <3>3. PICK g \in 1 .. L : p \in groups[g]
      BY <1>2, <3>2 DEF Span
    <3>4. g \in k + 1 .. L
      BY <1>2, <1>4, <3>1, <3>3
    <3>5. QED BY <3>3, <3>4 DEF Span
  <2>2. (DOMAIN s) \ Spoken(s) = systems
    BY <1>2 DEF Spoken, n
  <2>3. UNION {groups[g] : g \in Mandatory(groups, asked)} = Span(groups, k, L)
    BY <1>5 DEF Span
  <2> HIDE DEF asked, systems, R
  <2>4. QED BY <1>6, <2>1, <2>2, <2>3 DEF Base
<1>8. R \in SUBSET (1 .. n) /\ R \cap Span(groups, 0, k) = {}
  <2>1. 0 <= k /\ k <= L /\ 0 \in Nat /\ L <= L
    BY <1>2, <1>4
  <2>2. Span(groups, 0, k) \cap Span(groups, k, L) = {}
    BY <1>1, <1>2, <1>4, <2>1, SpansApart DEF L
  <2>3. Span(groups, 0, k) \subseteq Span(groups, 0, L)
    <3>1. 0 + 1 .. k \subseteq 0 + 1 .. L
      BY <1>2, <1>4
    <3>2. QED BY <3>1 DEF Span
  <2>4. Span(groups, k, L) \in SUBSET (1 .. n)
    BY <1>2, <1>4, <2>1, SpanFacts DEF L
  <2>5. systems \cap Span(groups, 0, k) = {}
    BY <1>1, <2>3
  <2>6. QED BY <1>6, <2>2, <2>4, <2>5
<1>9. QED BY <1>5, <1>7, <1>8 DEF Starts, n, L, groups

\* The groups of the history that fit beside R are those after some i.
LEMMA SettlesAt ==
  ASSUME NEW s \in Seq(Message), NEW groups, Ordered(groups, Len(s)), NEW k \in 0 .. Len(groups),
         NEW R \in SUBSET (1 .. Len(s)), R \cap Span(groups, 0, k) = {}, Fits(Cost(s, R))
  PROVE  \E i : Settles(s, groups, R, k, i)
<1> DEFINE Good(i) == Fits(Cost(s, R) + Cost(s, Span(groups, i, k)))
           T == {i \in 0 .. k : Good(i)}
<1>1. k \in Nat /\ Cost(s, R) \in Nat
  <2>1. groups \in Seq(SUBSET (1 .. Len(s)))
    BY DEF Ordered
  <2>2. QED BY <2>1, SeqFacts, CostNat
<1>2. k \in T
  <2>1. Span(groups, k, k) = {} /\ {} \in SUBSET (1 .. Len(s))
    BY <1>1 DEF Span
  <2>2. Cost(s, Span(groups, k, k)) = 0
    BY <2>1, CostNone
  <2>3. Good(k)
    BY <1>1, <2>2
  <2> HIDE DEF Good
  <2>4. QED BY <1>1, <2>3
<1> HIDE DEF Good
<1>3. PICK i \in T : \A j \in T : i <= j
  <2>1. T \in SUBSET Nat
    OBVIOUS
  <2>2. QED BY <1>2, <2>1, Least
<1>4. i \in 0 .. k /\ Good(i)
  BY <1>3
<1>5. i > 0 => ~ Good(i - 1)
  <2> SUFFICES ASSUME i > 0, Good(i - 1) PROVE FALSE
    OBVIOUS
  <2>1. i - 1 \in 0 .. k /\ ~ (i <= i - 1)
    BY <1>1, <1>4
  <2>2. QED BY <1>3, <2>1
<1>6. QED BY <1>4, <1>5 DEF Settles, Good

LEMMA EndFacts ==
  ASSUME NEW s \in Seq(Message), NEW given \in Nat, NEW a, WellScanned(a, s, Len(s)),
         a.error = "none", NEW k, NEW i, NEW y,
         Tight(y, Groups(a), s, Len(s), given, k, i)
  PROVE  /\ Starts(s, Groups(a), given + 1 .. Len(s), Required(s, Len(s), Groups(a), k), k)
         /\ Required(s, Len(s), Groups(a), k) \cap Span(Groups(a), 0, k) = {}
         /\ ~ y.overflow => Settles(s, Groups(a), Required(s, Len(s), Groups(a), k), k, i)
<1> DEFINE n == Len(s)
           groups == Groups(a)
           L == Len(groups)
           R == Required(s, n, groups, k)
<1>1. Ordered(groups, n) /\ n \in Nat /\ L \in Nat
  BY SeqFacts DEF WellScanned, Ordered
<1> HIDE DEF n, groups, L
<1>3. /\ Split(y, groups, given, k, i) /\ MirrorsRequired(y, R, s, given)
      /\ MirrorsOptional(y, groups, s, k, i)
      /\ i = k \/ Fits(y.required_cost + y.optional_cost)
  BY DEF Tight, Loose, n, groups
<1>4. k \in 0 .. L /\ i \in 0 .. k /\ k \in Nat /\ i \in Nat /\ SplitsAt(groups, given, k)
  BY <1>1, <1>3 DEF Split, SplitsAt, L
<1>8. /\ Starts(s, groups, given + 1 .. n, R, k)
      /\ R \in SUBSET (1 .. n) /\ R \cap Span(groups, 0, k) = {}
  BY <1>4, StartsAt DEF n, groups
<1>9. ASSUME ~ y.overflow PROVE Settles(s, groups, R, k, i)
  <2>1. /\ y.required_cost = Cost(s, R) /\ Fits(Cost(s, R))
        /\ y.optional_cost = Cost(s, Span(groups, i, k))
        /\ i > 0 => ~ Fits(y.required_cost + Cost(s, Span(groups, i - 1, k)))
    BY <1>3, <1>9 DEF MirrorsRequired, MirrorsOptional
  <2>2. Cost(s, R) \in Nat
    BY <1>8, CostNat DEF n
  <2>3. Fits(Cost(s, R) + Cost(s, Span(groups, i, k)))
    <3>1. CASE i = k
      <4>1. Span(groups, i, k) = {}
        BY <1>4, <3>1 DEF Span
      <4>2. {} \in SUBSET (1 .. Len(s))
        OBVIOUS
      <4>3. Cost(s, Span(groups, i, k)) = 0
        BY <4>1, <4>2, CostNone
      <4>4. QED BY <2>1, <2>2, <4>3
    <3>2. CASE i # k
      BY <1>3, <2>1, <3>2
    <3>3. QED BY <3>1, <3>2
  <2>4. QED BY <1>1, <1>4, <1>8, <2>1, <2>3 DEF Settles, n, L
<1>10. QED BY <1>8, <1>9 DEF n, groups

CountsLeftOut(y, s, given, groups, k, i) ==
  given - y.required_given
    - Total([g \in DOMAIN y.optional |-> y.optional[g].given], Len(y.optional))
    = Cardinality((1 .. given) \ (Required(s, Len(s), groups, k) \cup Span(groups, i, k)))

\* The messages of the history left out are counted without being looked at again.
LEMMA LeftOut ==
  ASSUME NEW s \in Seq(Message), NEW given \in Nat, given <= Len(s), NEW groups,
         Ordered(groups, Len(s)), NEW k, NEW i, NEW y,
         Tight(y, groups, s, Len(s), given, k, i),
         Required(s, Len(s), groups, k) \cap Span(groups, 0, k) = {}
  PROVE  CountsLeftOut(y, s, given, groups, k, i)
<1> DEFINE n == Len(s)
           R == Required(s, n, groups, k)
           O == Span(groups, i, k)
           f == [g \in DOMAIN y.optional |-> y.optional[g].given]
           counts == [P \in SUBSET (1 .. n) |-> Cardinality(P)]
<1>1. /\ Split(y, groups, given, k, i) /\ MirrorsRequired(y, R, s, given)
      /\ MirrorsOptional(y, groups, s, k, i) /\ y \in WindowType
  BY DEF Tight, Loose
<1>2. /\ groups \in Seq(SUBSET (1 .. n)) /\ Len(groups) \in Nat /\ n \in Nat
      /\ Ordered(groups, n)
      /\ \A g \in 1 .. Len(groups) : groups[g] \in SUBSET (1 .. n)
  BY SeqFacts DEF Ordered
<1> HIDE DEF n
<1>3. /\ k \in 0 .. Len(groups) /\ i \in 0 .. k /\ k \in Nat /\ i \in Nat /\ k - i \in Nat
      /\ i + (k - i) = k /\ i <= k /\ k <= Len(groups)
      /\ \A g \in 1 .. k : groups[g] \subseteq 1 .. given
      /\ Len(y.optional) = k - i
  BY <1>1, <1>2 DEF Split
<1>4. O \in SUBSET (1 .. n) /\ O \subseteq 1 .. given /\ R \cap O = {}
  <2>1. O \in SUBSET (1 .. n)
    BY <1>2, <1>3, SpanFacts
  <2>2. i + 1 .. k \subseteq 1 .. k
    BY <1>3
  <2>3. O \subseteq 1 .. given
    BY <1>3, <2>2 DEF Span
  <2>4. O \subseteq Span(groups, 0, k)
    BY <2>2 DEF Span
  <2>5. QED BY <2>1, <2>3, <2>4 DEF n
<1>5. Total(f, k - i) = Cardinality(O)
  <2>1. Additive(counts, n)
    <3>1. n \in 0 .. Len(s)
      BY <1>2 DEF n
    <3>2. QED BY <3>1, Measures
  <2>2. DOMAIN y.optional = 1 .. k - i
    BY <1>1, <1>3, SeqFacts DEF WindowType
  <2>3. ASSUME NEW g \in 1 .. k - i PROVE f[g] = counts[groups[i + g]]
    <3>1. f[g] = y.optional[g].given
      BY <2>2
    <3>2. i + g \in 1 .. Len(groups)
      BY <1>2, <1>3
    <3>3. y.optional[g].given = Cardinality(groups[i + g])
      BY <1>1 DEF MirrorsOptional
    <3>4. counts[groups[i + g]] = Cardinality(groups[i + g])
      BY <1>2, <3>2
    <3>5. QED BY <3>1, <3>3, <3>4
  <2>4. counts[O] = Cardinality(O)
    BY <1>4
  <2> HIDE DEF f, counts, O
  <2>5. Total(f, k - i) = counts[Span(groups, i, i + (k - i))]
    <3> DEFINE size == k - i
    <3>1. i + size <= Len(groups) /\ size \in Nat
      BY <1>3
    <3>2. \A g \in 1 .. size : f[g] = counts[groups[i + g]]
      BY <2>3
    <3> HIDE DEF size
    <3>3. Total(f, size) = counts[Span(groups, i, i + size)]
      BY <1>2, <1>3, <2>1, <3>1, <3>2, SpanTotal
    <3>4. QED BY <3>3 DEF size
  <2>6. QED BY <1>3, <2>4, <2>5 DEF O
<1> DEFINE r == R \cap 1 .. given
           out == (1 .. given) \ (R \cup O)
<1>6. y.required_given = Cardinality(r)
  BY <1>1 DEF MirrorsRequired
<1>7. /\ 1 .. given = out \cup (r \cup O) /\ out \cap (r \cup O) = {} /\ r \cap O = {}
      /\ out \in SUBSET (1 .. given) /\ r \in SUBSET (1 .. given) /\ O \in SUBSET (1 .. given)
      /\ r \cup O \in SUBSET (1 .. given)
  BY <1>4
<1>8. Cardinality(1 .. given) = given
  <2>1. 1 \in Int /\ given \in Int
    OBVIOUS
  <2>2. Cardinality(1 .. given) = IF 1 > given THEN 0 ELSE given - 1 + 1
    BY <2>1, FS_Interval
  <2>3. QED BY <2>2
<1> HIDE DEF r, out, O, R
<1>9. /\ Cardinality(1 .. given) = Cardinality(out) + Cardinality(r \cup O)
      /\ Cardinality(r \cup O) = Cardinality(r) + Cardinality(O)
  <2>1. Cardinality(r \cup O) = Cardinality(r) + Cardinality(O)
    BY <1>7, CountPlus
  <2> DEFINE all == 1 .. given
             kept == r \cup O
  <2>2. all = out \cup kept /\ out \cap kept = {} /\ kept \in SUBSET (1 .. given)
    BY <1>7
  <2> HIDE DEF all, kept
  <2>3. Cardinality(out \cup kept) = Cardinality(out) + Cardinality(kept)
    BY <1>7, <2>2, CountPlus
  <2>4. QED BY <2>1, <2>2, <2>3 DEF all, kept
<1>10. Cardinality(out) \in Nat /\ Cardinality(r) \in Nat /\ Cardinality(O) \in Nat
  BY <1>7, PlacesFinite
<1>11. given - Cardinality(r) - Cardinality(O) = Cardinality(out)
  BY <1>8, <1>9, <1>10
<1>12. QED BY <1>3, <1>5, <1>6, <1>11 DEF f, out, R, O, n, CountsLeftOut

LEMMA FinishedIsSelected ==
  ASSUME StreamInv
  PROVE  Finished(w, Len(history), Len(current)) = Select(history, current)
<1> DEFINE s == history \o current
           given == Len(history)
           n == Len(s)
           a == Scan(s, given)[n]
           groups == Groups(a)
           asked == given + 1 .. n
           y == CloseGroup(w)
           final == Taken(s, groups, asked)
           retained == Total([g \in DOMAIN y.optional |-> y.optional[g].given], Len(y.optional))
           kept == y.required \cup UNION {g.entries : g \in ToSet(y.optional)}
<1>1. /\ s \in Seq(Message) /\ given \in Nat /\ Len(current) \in Nat /\ n \in Nat
      /\ n = given + Len(current) /\ n \in 0 .. Len(s) /\ given <= n /\ DOMAIN s = 1 .. n
  <2>1. /\ s \in Seq(Message) /\ given \in Nat /\ Len(current) \in Nat
        /\ n = given + Len(current)
    BY HeardFacts DEF StreamInv
  <2>2. DOMAIN s = 1 .. n
    BY <2>1, SeqFacts
  <2> HIDE DEF s, n
  <2>3. n \in Nat /\ given <= n
    BY <2>1
  <2>4. QED BY <2>1, <2>2, <2>3 DEF n
<1>2. Follows(w, a, s, given)
  BY DEF StreamInv, WindowOK
<1>3. WellScanned(a, s, n)
  BY <1>1, ScanWell
<1>4. Finished(w, given, Len(current))
        = IF w.failure # "none" THEN Raise(w.failure)
          ELSE IF w.open # {} THEN Raise("exchange")
          ELSE IF y.overflow THEN Raise("budget")
          ELSE Selection(kept, ListBytes(y.total),
                         ListBytes(y.required_cost + y.optional_cost), given, Len(current),
                         given - y.required_given - retained,
                         y.groups - y.mandatory_groups - Len(y.optional))
  BY Zenon DEF Finished
<1>5. Select(history, current)
        = IF a.error # "none" THEN Raise(a.error)
          ELSE IF a.open # {} THEN Raise("exchange")
          ELSE IF Bytes(s, Base(s, groups, asked)) > MaxBytes THEN Raise("budget")
          ELSE Selection(final.places, Bytes(s, DOMAIN s), final.bytes, given, Len(current),
                         Cardinality((1 .. given) \ final.places), Len(groups) - final.chosen)
  BY Zenon DEF Select
<1> HIDE DEF a, s, n
<1>6. CASE a.error # "none"
  BY <1>2, <1>4, <1>5, <1>6 DEF Follows
<1>7. CASE a.error = "none" /\ a.open # {}
  BY <1>2, <1>4, <1>5, <1>7 DEF Follows, Mirrors
<1>8. CASE a.error = "none" /\ a.open = {}
  <2>1. /\ w.failure = "none" /\ w.open = {} /\ w.total = Cost(s, 1 .. n)
        /\ MirrorsGroup(w.group, a.group, s, given)
    BY <1>2, <1>8 DEF Follows, Mirrors, n
  <2>2. PICK k0, i0 : Tight(w, a.groups, s, n, given, k0, i0)
    BY <1>2, <1>8 DEF Follows, Mirrors, n
  <2>3. ClosesWell(w, a, s, n, given)
    BY <1>1, <1>3, <1>8, <2>1, <2>2, CloseTightens
  <2>4. PICK k, i : Tight(y, groups, s, n, given, k, i)
    BY <2>3 DEF ClosesWell
  <2>5. y.total = Cost(s, 1 .. n)
    BY <2>1, <2>3 DEF ClosesWell
  <2> DEFINE R == Required(s, n, groups, k)
             O == Span(groups, i, k)
  <2>6. /\ Starts(s, groups, asked, R, k) /\ R \cap Span(groups, 0, k) = {}
        /\ ~ y.overflow => Settles(s, groups, R, k, i)
    BY <1>1, <1>3, <1>8, <2>4, EndFacts DEF n
  <2>7. Ordered(groups, n)
    BY <1>3 DEF WellScanned
  <2> HIDE DEF groups, y
  <2>8. /\ UNION {g.entries : g \in ToSet(y.optional)} = O
        /\ ~ y.overflow => y.required = R
        /\ R \in SUBSET (1 .. n)
    BY <1>1, <2>4, <2>7, EntriesAre DEF n
  <2>9. Base(s, groups, asked) = R
    BY <2>6 DEF Starts
  <2>10. /\ y.required_cost = Cost(s, R) /\ y.optional_cost = Cost(s, O)
         /\ y.overflow <=> ~ Fits(Cost(s, R))
         /\ y.groups = Len(groups) /\ y.mandatory_groups = Len(groups) - k
         /\ Len(y.optional) = k - i
    BY <2>4 DEF Tight, Loose, MirrorsRequired, MirrorsOptional, Split
  <2> HIDE DEF R, O
  <2>11. Bytes(s, R) > MaxBytes <=> y.overflow
    <3>1. Bytes(s, R) \in Nat /\ (Bytes(s, R) <= MaxBytes <=> Fits(Cost(s, R)))
      BY <1>1, <2>8, BytesAreCost DEF n
    <3>2. QED BY <2>10, <3>1, BudgetAssumption
  <2>12. CASE y.overflow
    BY <1>4, <1>5, <1>8, <2>1, <2>9, <2>11, <2>12
  <2>13. CASE ~ y.overflow
    <3>1. Settles(s, groups, R, k, i)
      BY <2>6, <2>13
    <3>2. /\ final.places = R \cup O /\ final.bytes = Bytes(s, R \cup O)
          /\ final.chosen = Len(groups) - i
      <4>1. TakesUpTo(final, s, groups, R, k, i)
        BY <1>1, <2>6, <3>1, TakenIs
      <4>2. QED BY <4>1 DEF TakesUpTo, O
    <3>3. kept = R \cup O
      BY <2>8, <2>13
    <3>4. /\ Len(groups) \in Nat /\ k \in Nat /\ i \in Nat /\ i <= k
          /\ R \cup O \in SUBSET (1 .. n)
          /\ Cost(s, R \cup O) = Cost(s, R) + Cost(s, O)
      <4>1. /\ Len(groups) \in Nat /\ k \in Nat /\ i \in Nat /\ i <= k
            /\ \A l \in 0 .. k :
                 /\ R \cup Span(groups, l, k) \in SUBSET (1 .. Len(s))
                 /\ Cost(s, R \cup Span(groups, l, k)) = Cost(s, R) + Cost(s, Span(groups, l, k))
        BY <1>1, <3>1, SettlesFacts, ZenonT(30)
      <4>2. i \in 0 .. k
        BY <4>1
      <4>3. QED BY <4>1, <4>2 DEF O, n
    <3>5. ListBytes(y.total) = Bytes(s, DOMAIN s)
      <4>1. 1 .. n \in SUBSET (1 .. Len(s))
        BY DEF n
      <4>2. QED BY <1>1, <2>5, <4>1, BytesAreCost
    <3>6. ListBytes(y.required_cost + y.optional_cost) = final.bytes
      BY <1>1, <2>10, <3>2, <3>4, BytesAreCost, SMTT(30) DEF n
    <3>7. given - y.required_given - retained = Cardinality((1 .. given) \ (R \cup O))
      <4>1. given <= Len(s) /\ Ordered(groups, Len(s))
            /\ Tight(y, groups, s, Len(s), given, k, i)
            /\ Required(s, Len(s), groups, k) \cap Span(groups, 0, k) = {}
        BY <1>1, <2>4, <2>6, <2>7 DEF n, R
      <4>2. given - y.required_given
              - Total([g \in DOMAIN y.optional |-> y.optional[g].given], Len(y.optional))
              = Cardinality((1 .. given) \ (Required(s, Len(s), groups, k) \cup Span(groups, i, k)))
        <5>1. CountsLeftOut(y, s, given, groups, k, i)
          BY <1>1, <4>1, LeftOut
        <5>2. QED BY <5>1, Zenon DEF CountsLeftOut
      <4>3. QED BY <4>2 DEF R, O, n
    <3>8. y.groups - y.mandatory_groups - Len(y.optional) = Len(groups) - final.chosen
      <4>1. Len(groups) - (Len(groups) - k) - (k - i) = Len(groups) - (Len(groups) - i)
        BY <3>4
      <4>2. QED BY <2>10, <3>2, <4>1
    <3> HIDE DEF kept, retained, final
    <3>9. Finished(w, given, Len(current))
            = Selection(kept, ListBytes(y.total), ListBytes(y.required_cost + y.optional_cost),
                        given, Len(current), given - y.required_given - retained,
                        y.groups - y.mandatory_groups - Len(y.optional))
      BY <1>4, <2>1, <2>13
    <3>10. Select(history, current)
             = Selection(final.places, Bytes(s, DOMAIN s), final.bytes, given, Len(current),
                         Cardinality((1 .. given) \ final.places), Len(groups) - final.chosen)
      BY <1>5, <1>8, <2>9, <2>11, <2>13
    <3>11. QED BY <3>2, <3>3, <3>5, <3>6, <3>7, <3>8, <3>9, <3>10
  <2>14. QED BY <2>12, <2>13
<1>9. QED BY <1>6, <1>7, <1>8

\* What select_stream() returns, or raises, is what select() does, though it has seen each
\* message once and kept at most twice the budget of them.
THEOREM StreamSelectsTheSame == Spec => []StreamsTheSame
<1>1. StreamInv => StreamsTheSame
  BY FinishedIsSelected DEF StreamInv, ResultOK, StreamsTheSame
<1>2. QED BY <1>1, StreamInvHolds, PTL

-----------------------------------------------------------------------------
(* What is promised: the faults that are raised.                             *)

\* Only an assistant's message and a tool's name calls.
Said(s) ==
  /\ s \in Seq(Message)
  /\ \A i \in 1 .. Len(s) : s[i].role \in {"system", "user"} => s[i].ids = <<>>

LEMMA OpenType ==
  ASSUME NEW m \in Message, NEW open \in SUBSET STRING
  PROVE  Open(m, open) \in SUBSET STRING
<1>1. m.ids \in Seq(STRING)
  BY DEF Message
<1>2. \A i \in DOMAIN m.ids : m.ids[i] \in STRING
  BY <1>1, SeqFacts
<1>3. QED BY <1>2 DEF Open, ToSet

OpensSo(f, s) == f = [k \in 0 .. Len(s) |-> IF k = 0 THEN {} ELSE Open(s[k], f[k - 1])]

LEMMA PrefixSteps ==
  ASSUME NEW s \in Seq(Message)
  PROVE  /\ Prefix(s)[0] = {}
         /\ \A k \in 1 .. Len(s) : Prefix(s)[k] = Open(s[k], Prefix(s)[k - 1])
<1> DEFINE N == Len(s)
           O == SUBSET STRING
           step == [p \in O \X (1 .. N) |-> Open(s[p[2]], p[1])]
<1>1. N \in Nat /\ \A k \in 1 .. N : s[k] \in Message
  BY SeqFacts
<1> HIDE DEF N, O
<1>2. \A open \in O, k \in 1 .. N :
        /\ Open(s[k], open) \in O
        /\ step[<<open, k>>] = Open(s[k], open)
  <2>1. ASSUME NEW open \in O, NEW k \in 1 .. N
        PROVE  Open(s[k], open) \in O /\ step[<<open, k>>] = Open(s[k], open)
    <3>1. Open(s[k], open) \in O
      BY <1>1, OpenType DEF O
    <3>2. <<open, k>> \in O \X (1 .. N) /\ <<open, k>>[1] = open /\ <<open, k>>[2] = k
      OBVIOUS
    <3>3. step[<<open, k>>] = Open(s[k], open)
      BY <3>2, Zenon
    <3>4. QED BY <3>1, <3>3
  <2>2. QED BY <2>1
<1>3. step \in [O \X (1 .. N) -> O]
  <2>1. ASSUME NEW p \in O \X (1 .. N) PROVE Open(s[p[2]], p[1]) \in O
    <3>1. p[1] \in O /\ p[2] \in 1 .. N
      OBVIOUS
    <3>2. QED BY <1>2, <3>1, Zenon
  <2>2. QED BY <2>1, Zenon
<1> HIDE DEF step
<1>4. {} \in O
  BY DEF O
<1>5. PICK f \in [0 .. N -> O] : Recurs(f, {}, step, N)
  BY <1>1, <1>3, <1>4, Recursion
<1>6. OpensSo(f, s)
  <2>1. f[0] = {} /\ \A k \in 1 .. N : f[k] = step[<<f[k - 1], k>>]
    BY <1>5 DEF Recurs
  <2>2. ASSUME NEW k \in 1 .. N PROVE f[k] = Open(s[k], f[k - 1])
    <3>1. k - 1 \in 0 .. N
      BY <1>1
    <3>2. f[k - 1] \in O
      BY <3>1
    <3>3. QED BY <1>2, <2>1, <3>2
  <2>3. ASSUME NEW k \in 0 .. N PROVE f[k] = IF k = 0 THEN {} ELSE Open(s[k], f[k - 1])
    <3>1. k = 0 \/ k \in 1 .. N
      BY <1>1
    <3>2. QED BY <2>1, <2>2, <3>1
  <2>4. QED BY <2>3, Zenon DEF OpensSo, N
<1> DEFINE g == CHOOSE x : OpensSo(x, s)
<1>7. Prefix(s) = g
  BY Zenon DEF Prefix, OpensSo
<1>8. OpensSo(g, s)
  BY <1>6, Zenon
<1> HIDE DEF g
<1>9. \A k \in 0 .. N : g[k] = IF k = 0 THEN {} ELSE Open(s[k], g[k - 1])
  BY <1>8, Zenon DEF OpensSo, N
<1>10. 0 \in 0 .. N /\ \A k \in 1 .. N : k \in 0 .. N /\ k # 0
  BY <1>1
<1>11. QED BY <1>7, <1>9, <1>10, Zenon DEF N

LEMMA SaysNothing ==
  ASSUME NEW m \in Message, m.role \in {"system", "user"}, m.ids = <<>>, NEW open
  PROVE  Open(m, open) = open /\ ~ Broken(m, open)
<1>1. ToSet(m.ids) = {}
  BY DEF ToSet
<1>2. QED BY <1>1 DEF Open, Broken

Fault(s, i) == ~ s[i].plain \/ Broken(s[i], Prefix(s)[i - 1])
Why(s, i) == IF s[i].plain THEN "exchange" ELSE "encoding"
FirstFault(s, n, i) == i \in 1 .. n /\ Fault(s, i) /\ \A j \in 1 .. i - 1 : ~ Fault(s, j)
\* The scan of the first n messages has the calls open, and the fault.
Reads(a, s, n) ==
  /\ a.error = "none" => /\ \A i \in 1 .. n : ~ Fault(s, i)
                         /\ a.open = Prefix(s)[n]
  /\ a.error # "none" => \E i : FirstFault(s, n, i) /\ a.error = Why(s, i)

LEMMA ScannedReads ==
  ASSUME NEW s, Said(s), NEW n \in Nat, n + 1 <= Len(s), NEW a, WellScanned(a, s, n),
         Reads(a, s, n), NEW boundary \in BOOLEAN
  PROVE  Reads(Scanned(a, s[n + 1], n + 1, boundary), s, n + 1)
<1> DEFINE m == s[n + 1]
           b == IF Closes(a, m, boundary) THEN Closed(a) ELSE a
           new == Scanned(a, m, n + 1, boundary)
<1>1. /\ s \in Seq(Message) /\ n + 1 \in 1 .. Len(s) /\ m \in Message /\ (n + 1) - 1 = n
      /\ m.role \in {"system", "user"} => m.ids = <<>>
      /\ a \in ScanState(n)
  BY SeqFacts DEF Said, WellScanned
<1>2. b.open = a.open /\ b.error = a.error /\ b \in ScanState(n)
  <2>1. CASE Closes(a, m, boundary)
    <3>1. a.group # {}
      BY <2>1 DEF Closes
    <3>2. QED BY <1>1, <2>1, <3>1, ClosedFacts DEF WellScanned
  <2>2. CASE ~ Closes(a, m, boundary)
    BY <1>1, <2>2
  <2>3. QED BY <2>1, <2>2
<1> HIDE DEF b
<1>3. \A i \in 1 .. n + 1 : i \in 1 .. n \/ i = n + 1
  OBVIOUS
<1>4. Prefix(s)[n + 1] = Open(m, Prefix(s)[n])
  BY <1>1, PrefixSteps
<1>5. Fault(s, n + 1) <=> ~ m.plain \/ Broken(m, Prefix(s)[n])
  BY <1>1 DEF Fault
<1>6. CASE a.error # "none"
  <2>1. PICK i : FirstFault(s, n, i) /\ a.error = Why(s, i)
    BY <1>6 DEF Reads
  <2>2. FirstFault(s, n + 1, i)
    BY <2>1 DEF FirstFault
  <2>3. new = a
    BY <1>6 DEF Scanned
  <2>4. QED BY <1>6, <2>1, <2>2, <2>3 DEF Reads
<1>7. CASE a.error = "none"
  <2>1. (\A i \in 1 .. n : ~ Fault(s, i)) /\ a.open = Prefix(s)[n]
    BY <1>7 DEF Reads
  <2>2. ASSUME Fault(s, n + 1), new.error = Why(s, n + 1)
        PROVE  Reads(new, s, n + 1)
    <3>1. FirstFault(s, n + 1, n + 1)
      BY <1>1, <2>1, <2>2 DEF FirstFault
    <3>2. new.error # "none"
      BY <2>2 DEF Why
    <3>3. QED BY <2>2, <3>1, <3>2 DEF Reads
  <2>3. ASSUME ~ Fault(s, n + 1), new.error = "none", new.open = Open(m, a.open)
        PROVE  Reads(new, s, n + 1)
    BY <1>3, <1>4, <2>1, <2>3 DEF Reads
  <2>4. CASE ~ m.plain
    <3>1. new.error = "encoding"
      BY <1>1, <1>7, <2>4 DEF Scanned, ScanState
    <3>2. QED BY <1>5, <2>2, <2>4, <3>1 DEF Why
  <2>5. CASE m.plain /\ m.role = "system"
    <3>1. new = b
      BY <1>7, <2>5 DEF Scanned, b
    <3>2. ~ Broken(m, Prefix(s)[n]) /\ Open(m, a.open) = a.open
      BY <1>1, <2>5, SaysNothing
    <3>3. QED BY <1>2, <1>5, <1>7, <2>3, <2>5, <3>1, <3>2
  <2>6. CASE m.plain /\ m.role # "system" /\ Broken(m, a.open)
    <3>1. new.error = "exchange"
      BY <1>1, <1>7, <2>6 DEF Scanned, ScanState
    <3>2. QED BY <1>5, <2>1, <2>2, <2>6, <3>1 DEF Why
  <2>7. CASE m.plain /\ m.role # "system" /\ ~ Broken(m, a.open)
    <3>1. new = [b EXCEPT !.group = @ \cup {n + 1}, !.open = Open(m, @)]
      BY <1>7, <2>7 DEF Scanned, b
    <3> DEFINE grown == b.group \cup {n + 1}
               opened == Open(m, b.open)
    <3>2. new = [b EXCEPT !.group = grown, !.open = opened]
      BY <3>1
    <3> HIDE DEF new, grown, opened
    <3>3. new.error = "none" /\ new.open = opened
      BY <1>2, <1>7, <3>2 DEF ScanState
    <3>4. QED BY <1>2, <1>5, <2>1, <2>3, <2>7, <3>3 DEF opened, new
  <2>8. QED BY <2>4, <2>5, <2>6, <2>7
<1>8. QED BY <1>6, <1>7

LEMMA ScanReads ==
  ASSUME NEW s, Said(s), NEW given \in Nat, NEW n \in 0 .. Len(s)
  PROVE  Reads(Scan(s, given)[n], s, n)
<1> DEFINE T == {k \in Nat : k <= Len(s) => Reads(Scan(s, given)[k], s, k)}
<1>0. s \in Seq(Message)
  BY DEF Said
<1>1. 0 \in T
  <2>1. Scan(s, given)[0] = Unscanned /\ Prefix(s)[0] = {}
    BY <1>0, ScanSteps, PrefixSteps
  <2>2. Reads(Unscanned, s, 0)
    BY <2>1 DEF Reads, Unscanned
  <2>3. QED BY <2>1, <2>2
<1>2. ASSUME NEW k \in Nat, k \in T PROVE k + 1 \in T
  <2> SUFFICES ASSUME k + 1 <= Len(s) PROVE Reads(Scan(s, given)[k + 1], s, k + 1)
    OBVIOUS
  <2>1. k + 1 \in 1 .. Len(s) /\ (k + 1) - 1 = k /\ k <= Len(s) /\ k \in 0 .. Len(s)
    BY <1>0, SeqFacts
  <2>2. Scan(s, given)[k + 1]
          = Scanned(Scan(s, given)[k], s[k + 1], k + 1, k + 1 = given + 1)
    BY <1>0, <2>1, ScanSteps
  <2>3. Reads(Scan(s, given)[k], s, k) /\ WellScanned(Scan(s, given)[k], s, k)
    BY <1>0, <1>2, <2>1, ScanWell
  <2>4. (k + 1 = given + 1) \in BOOLEAN
    OBVIOUS
  <2> DEFINE a == Scan(s, given)[k]
             boundary == (k + 1 = given + 1)
  <2> HIDE DEF a, boundary
  <2>5. Reads(Scanned(a, s[k + 1], k + 1, boundary), s, k + 1)
    BY <2>3, <2>4, ScannedReads DEF a, boundary
  <2>6. QED BY <2>2, <2>5, Zenon DEF a, boundary
<1> HIDE DEF T
<1>3. Nat \subseteq T
  BY <1>1, <1>2, Induction
<1>4. n \in Nat /\ n <= Len(s)
  BY <1>0, SeqFacts
<1>5. QED BY <1>3, <1>4 DEF T

-----------------------------------------------------------------------------
(* Where a group starts, a turn may be cut off.                              *)

More(G, H, P) ==
  Len(H) = Len(G) + 1 /\ H[Len(G) + 1] = P /\ \A g \in 1 .. Len(G) : H[g] = G[g]
Longer(G, H, p) ==
  /\ Len(G) \in 1 .. Len(H) /\ Len(H) = Len(G) /\ H[Len(G)] = G[Len(G)] \cup {p}
  /\ \A g \in 1 .. Len(G) - 1 : H[g] = G[g]
Fresh(a, m, boundary) == a.group = {} \/ Closes(a, m, boundary)
\* What a message that is no fault makes of a scan.
Grows(a, c, m, p, boundary) ==
  /\ m.role = "system" =>
       /\ Groups(c) = Groups(a) /\ c.open = a.open
       /\ c.group = IF Closes(a, m, boundary) THEN {} ELSE a.group
  /\ m.role # "system" => c.open = Open(m, a.open)
  /\ m.role # "system" /\ Fresh(a, m, boundary) =>
       More(Groups(a), Groups(c), {p}) /\ c.group = {p}
  /\ m.role # "system" /\ ~ Fresh(a, m, boundary) =>
       /\ Longer(Groups(a), Groups(c), p) /\ c.group = a.group \cup {p}
       /\ Groups(a)[Len(Groups(a))] = a.group

LEMMA ScannedGrows ==
  ASSUME NEW s \in Seq(Message), NEW n \in Nat, n + 1 <= Len(s), NEW a, WellScanned(a, s, n),
         NEW boundary \in BOOLEAN,
         Scanned(a, s[n + 1], n + 1, boundary).error = "none"
  PROVE  /\ a.error = "none"
         /\ Grows(a, Scanned(a, s[n + 1], n + 1, boundary), s[n + 1], n + 1, boundary)
<1> DEFINE m == s[n + 1]
           p == n + 1
           b == IF Closes(a, m, boundary) THEN Closed(a) ELSE a
           c == Scanned(a, m, p, boundary)
<1>1. a \in ScanState(n) /\ Ordered(Groups(a), n) /\ n + 1 \in 1 .. Len(s)
  BY SeqFacts DEF WellScanned
<1>2. a.error = "none" /\ m.plain /\ (m.role = "system" \/ ~ Broken(m, a.open))
  BY <1>1 DEF Scanned, ScanState
<1>3. /\ b \in ScanState(n) /\ b.open = a.open /\ Groups(b) = Groups(a)
      /\ b.group = IF Closes(a, m, boundary) THEN {} ELSE a.group
      /\ Fresh(a, m, boundary) => b.group = {}
  <2>1. CASE Closes(a, m, boundary)
    <3>1. a.group # {}
      BY <2>1 DEF Closes
    <3>2. QED BY <1>1, <2>1, <3>1, ClosedFacts
  <2>2. CASE ~ Closes(a, m, boundary)
    BY <1>1, <2>2 DEF Fresh
  <2>3. QED BY <2>1, <2>2
<1> HIDE DEF b
<1>4. CASE m.role = "system"
  <2>1. c = b
    BY <1>2, <1>4 DEF Scanned, b
  <2>2. QED BY <1>2, <1>3, <1>4, <2>1 DEF Grows
<1>5. CASE m.role # "system"
  <2> DEFINE grown == b.group \cup {p}
             opened == Open(m, b.open)
  <2>1. c = [b EXCEPT !.group = grown, !.open = opened]
    BY <1>2, <1>5 DEF Scanned, b
  <2> HIDE DEF c, grown, opened
  <2>2. c.groups = b.groups /\ c.group = grown /\ c.open = opened
    BY <1>3, <2>1 DEF ScanState
  <2>3. Groups(c) = Append(b.groups, grown)
    <3>1. grown # {}
      BY DEF grown
    <3>2. c.groups = b.groups /\ Closed(c) = [c EXCEPT !.groups = Append(c.groups, c.group),
                                                       !.group = {}]
      BY <2>2 DEF Closed
    <3>3. Closed(c).groups = Append(c.groups, c.group)
      BY <1>3, <2>1, <3>2 DEF ScanState
    <3>4. QED BY <2>2, <3>1, <3>3 DEF Groups
  <2>4. b.groups \in Seq(SUBSET (1 .. p)) /\ grown \in SUBSET (1 .. p) /\ Len(b.groups) \in Nat
    <3>1. SUBSET (1 .. n) \subseteq SUBSET (1 .. p)
      OBVIOUS
    <3>2. b.groups \in Seq(SUBSET (1 .. n)) /\ b.group \in SUBSET (1 .. n)
      BY <1>3 DEF ScanState
    <3>3. b.groups \in Seq(SUBSET (1 .. p))
      BY <3>1, <3>2, SeqMonotonic
    <3>4. grown \in SUBSET (1 .. p)
      BY <3>2 DEF grown
    <3>5. QED BY <3>3, <3>4, SeqFacts
  <2>5. More(b.groups, Groups(c), grown)
    BY <2>3, <2>4, AppendFacts DEF More
  <2>6. CASE Fresh(a, m, boundary)
    <3>1. b.group = {} /\ Groups(b) = b.groups /\ grown = {p}
      BY <1>3, <2>6 DEF Groups, grown
    <3>2. QED BY <1>2, <1>3, <1>5, <2>2, <2>5, <2>6, <3>1 DEF Grows, opened, c
  <2>7. CASE ~ Fresh(a, m, boundary)
    <3>1. a.group # {} /\ b = a
      BY <2>7 DEF Fresh, b
    <3>2. /\ Len(Groups(a)) = Len(a.groups) + 1
          /\ \A g \in 1 .. Len(a.groups) : Groups(a)[g] = a.groups[g]
          /\ Groups(a)[Len(a.groups) + 1] = a.group
      BY <1>1, <3>1, GroupsFacts
    <3> DEFINE G == Groups(a)
               H == Groups(c)
               old == a.groups
    <3>3. /\ Len(old) \in Nat /\ Len(G) = Len(old) + 1 /\ Len(H) = Len(old) + 1
          /\ \A g \in 1 .. Len(old) : G[g] = old[g] /\ H[g] = old[g]
          /\ G[Len(old) + 1] = a.group /\ H[Len(old) + 1] = a.group \cup {p}
      BY <2>4, <2>5, <3>1, <3>2 DEF More, grown
    <3> HIDE DEF G, H, old
    <3>4. Longer(G, H, p) /\ G[Len(G)] = a.group
      BY <3>3 DEF Longer
    <3>5. QED BY <1>2, <1>3, <1>5, <2>2, <2>7, <3>1, <3>4 DEF Grows, G, H, grown, opened, c
  <2>8. QED BY <2>6, <2>7
<1>6. QED BY <1>4, <1>5

\* A group starts there.
IsStart(groups, i) == \E g \in 1 .. Len(groups) : i \in groups[g] /\ \A p \in groups[g] : i <= p
\* A group with messages of the history, and of the request.
Straddles(groups, given) ==
  \E g \in 1 .. Len(groups) :
    groups[g] \cap 1 .. given # {} /\ ~ (groups[g] \subseteq 1 .. given)

LEMMA MoreFacts ==
  ASSUME NEW n \in Nat, NEW G, Ordered(G, n), NEW H, More(G, H, {n + 1}), NEW given \in Nat
  PROVE  /\ IsStart(H, n + 1)
         /\ \A i \in 1 .. n : IsStart(H, i) <=> IsStart(G, i)
         /\ Straddles(H, given) <=> Straddles(G, given)
<1>1. /\ Len(G) \in Nat /\ \A g \in 1 .. Len(G) : G[g] \in SUBSET (1 .. n) /\ H[g] = G[g]
      /\ Len(H) = Len(G) + 1 /\ H[Len(G) + 1] = {n + 1}
  BY SeqFacts DEF Ordered, More
<1>2. \A g : g \in 1 .. Len(H) <=> g \in 1 .. Len(G) \/ g = Len(G) + 1
  BY <1>1
<1>3. IsStart(H, n + 1)
  BY <1>1, <1>2 DEF IsStart
<1>4. \A i \in 1 .. n : IsStart(H, i) <=> IsStart(G, i)
  BY <1>1, <1>2 DEF IsStart
<1>5. ~ (H[Len(G) + 1] \cap 1 .. given # {} /\ ~ (H[Len(G) + 1] \subseteq 1 .. given))
  BY <1>1
<1>6. Straddles(H, given) <=> Straddles(G, given)
  BY <1>1, <1>2, <1>5 DEF Straddles
<1>7. QED BY <1>3, <1>4, <1>6

LEMMA LongerFacts ==
  ASSUME NEW n \in Nat, NEW G, Ordered(G, n), NEW H, Longer(G, H, n + 1), NEW given \in Nat
  PROVE  /\ ~ IsStart(H, n + 1)
         /\ \A i \in 1 .. n : IsStart(H, i) <=> IsStart(G, i)
         /\ given <= n /\ Straddles(G, given) => Straddles(H, given)
         /\ given <= n /\ G[Len(G)] \cap 1 .. given # {} => Straddles(H, given)
         /\ given <= n /\ G[Len(G)] \cap 1 .. given = {} /\ ~ Straddles(G, given)
              => ~ Straddles(H, given)
<1> DEFINE L == Len(G)
<1>1. /\ L \in Nat /\ L \in 1 .. L /\ Len(H) = L
      /\ \A g \in 1 .. L : G[g] \in SUBSET (1 .. n) /\ G[g] # {}
      /\ \A g \in 1 .. L - 1 : H[g] = G[g]
      /\ H[L] = G[L] \cup {n + 1}
  BY SeqFacts DEF Ordered, Longer
<1> HIDE DEF L
<1>2. \A g \in 1 .. L : g \in 1 .. L - 1 \/ g = L
  BY <1>1
<1>3. ASSUME NEW g \in 1 .. L
      PROVE  /\ G[g] \subseteq H[g] /\ H[g] \subseteq G[g] \cup {n + 1}
             /\ \E p \in G[g] : p \in 1 .. n
             /\ \A p \in G[g] : p \in 1 .. n
  BY <1>1, <1>2
<1>4. ~ IsStart(H, n + 1)
  <2> SUFFICES ASSUME NEW g \in 1 .. L, n + 1 \in H[g], \A p \in H[g] : n + 1 <= p
               PROVE  FALSE
    BY <1>1 DEF IsStart
  <2>1. PICK p \in G[g] : p \in 1 .. n
    BY <1>3
  <2>2. p \in H[g]
    BY <1>3
  <2>3. QED BY <2>1, <2>2
<1>5. ASSUME NEW i \in 1 .. n, NEW g \in 1 .. L
      PROVE  (i \in H[g] /\ \A p \in H[g] : i <= p) <=> (i \in G[g] /\ \A p \in G[g] : i <= p)
  <2>1. G[g] \subseteq H[g] /\ H[g] \subseteq G[g] \cup {n + 1}
    BY <1>3
  <2>2. i # n + 1 /\ i <= n + 1
    OBVIOUS
  <2>3. QED BY <2>1, <2>2
<1>6. \A i \in 1 .. n : IsStart(H, i) <=> IsStart(G, i)
  BY <1>1, <1>5 DEF IsStart, L
<1>7. ASSUME given <= n
      PROVE  /\ Straddles(G, given) => Straddles(H, given)
             /\ G[L] \cap 1 .. given # {} => Straddles(H, given)
             /\ G[L] \cap 1 .. given = {} /\ ~ Straddles(G, given) => ~ Straddles(H, given)
  <2>1. n + 1 \notin 1 .. given
    BY <1>7
  <2>2. ASSUME NEW g \in 1 .. L
        PROVE  /\ H[g] \cap 1 .. given = G[g] \cap 1 .. given
               /\ ~ (G[g] \subseteq 1 .. given) => ~ (H[g] \subseteq 1 .. given)
    BY <1>3, <2>1
  <2>3. ~ (H[L] \subseteq 1 .. given)
    BY <1>1, <2>1
  <2>4. Straddles(G, given) => Straddles(H, given)
    BY <1>1, <2>2 DEF Straddles, L
  <2>5. G[L] \cap 1 .. given # {} => Straddles(H, given)
    <3>1. H[L] \cap 1 .. given = G[L] \cap 1 .. given
      BY <1>1, <2>2
    <3>2. QED BY <1>1, <2>3, <3>1 DEF Straddles
  <2>6. ASSUME G[L] \cap 1 .. given = {}, Straddles(H, given) PROVE Straddles(G, given)
    <3>1. PICK g \in 1 .. L : H[g] \cap 1 .. given # {} /\ ~ (H[g] \subseteq 1 .. given)
      BY <1>1, <2>6 DEF Straddles
    <3>2. g \in 1 .. L - 1
      BY <1>2, <2>2, <2>6, <3>1
    <3>3. H[g] = G[g]
      BY <1>1, <3>2
    <3>4. QED BY <3>1, <3>3 DEF Straddles, L
  <2>7. QED BY <2>4, <2>5, <2>6
<1>8. QED BY <1>4, <1>6, <1>7 DEF L

MayCut(s, i) == Prefix(s)[i - 1] = {} /\ (s[i].role = "user" \/ \A j \in Spoken(s) : i <= j)
\* In the history a group is open from the first message that is no system message.
OpensFirst(a, s, given, n) ==
  n <= given => /\ a.group = {} => a.open = {}
                /\ a.group = {} <=> \A j \in Spoken(s) : j > n
CutsWell(a, s, given, n) ==
  \A i \in Spoken(s) : i <= n /\ i <= given => (IsStart(Groups(a), i) <=> MayCut(s, i))
\* No call is open behind the history: no group goes on into the request.
NotAcross(a, s, given, n) ==
  given <= n /\ Prefix(s)[given] = {} =>
    ~ Straddles(Groups(a), given) /\ (n > given => a.group \cap 1 .. given = {})
\* One is: that group will.
GoesOn(a, s, given, n) ==
  given <= n /\ Prefix(s)[given] # {} =>
    Straddles(Groups(a), given) \/ (a.open # {} /\ a.group \cap 1 .. given # {})
Cutting(a, s, given, n) ==
  OpensFirst(a, s, given, n) /\ CutsWell(a, s, given, n) /\ NotAcross(a, s, given, n)
  /\ GoesOn(a, s, given, n)

LEMMA ScannedCuts ==
  ASSUME NEW s, Said(s), NEW given \in Nat, NEW n \in Nat, n + 1 <= Len(s), NEW a,
         WellScanned(a, s, n), Reads(a, s, n), Cutting(a, s, given, n),
         NEW boundary, boundary = (n = given),
         Scanned(a, s[n + 1], n + 1, boundary).error = "none"
  PROVE  Cutting(Scanned(a, s[n + 1], n + 1, boundary), s, given, n + 1)
<1> DEFINE m == s[n + 1]
           p == n + 1
           c == Scanned(a, m, p, boundary)
           G == Groups(a)
           H == Groups(c)
<1>1. s \in Seq(Message) /\ boundary \in BOOLEAN /\ p \in 1 .. Len(s) /\ p - 1 = n
  BY SeqFacts DEF Said
<1>2. /\ WellScanned(c, s, p) /\ Reads(c, s, p) /\ c.error = "none"
      /\ a.error = "none" /\ Grows(a, c, m, p, boundary)
  BY <1>1, ScannedWell, ScannedReads, ScannedGrows, ZenonT(30)
<1> HIDE DEF c
<1>3. /\ a.open = Prefix(s)[n] /\ c.open = Prefix(s)[p]
      /\ Ordered(G, n) /\ Ordered(H, p)
      /\ a.group \in SUBSET (1 .. n) /\ c.group \in SUBSET (1 .. p)
  BY <1>2 DEF Reads, WellScanned, ScanState
<1>4. p \in Spoken(s) <=> m.role # "system"
  BY <1>1 DEF Spoken
<1> HIDE DEF G, H
<1>5. /\ m.role = "system" => H = G /\ c.open = a.open
                              /\ c.group = IF Closes(a, m, boundary) THEN {} ELSE a.group
      /\ m.role # "system" /\ Fresh(a, m, boundary) => More(G, H, {n + 1}) /\ c.group = {p}
      /\ m.role # "system" /\ ~ Fresh(a, m, boundary) =>
           Longer(G, H, n + 1) /\ c.group = a.group \cup {p} /\ G[Len(G)] = a.group
  BY <1>2 DEF Grows, G, H
<1>6. /\ Closes(a, m, boundary) <=> (m.role = "user" \/ n = given) /\ a.open = {} /\ a.group # {}
      /\ Fresh(a, m, boundary) <=> a.group = {} \/ Closes(a, m, boundary)
  BY DEF Closes, Fresh
<1>7. \A i \in 1 .. n : IsStart(H, i) <=> IsStart(G, i)
  BY <1>3, <1>5, MoreFacts, LongerFacts
<1>8. \A j \in Spoken(s) : j \in Nat
  BY <1>1 DEF Spoken
<1>9. OpensFirst(c, s, given, p)
  <2> SUFFICES ASSUME p <= given
               PROVE  /\ c.group = {} => c.open = {}
                      /\ c.group = {} <=> \A j \in Spoken(s) : j > p
    BY DEF OpensFirst
  <2>1. n <= given /\ n # given
    OBVIOUS
  <2>2. /\ a.group = {} => a.open = {}
        /\ a.group = {} <=> \A j \in Spoken(s) : j > n
    BY <2>1 DEF Cutting, OpensFirst
  <2>3. CASE m.role = "system"
    <3>1. ~ Closes(a, m, boundary)
      BY <1>6, <2>1, <2>3
    <3>2. (\A j \in Spoken(s) : j > n) <=> \A j \in Spoken(s) : j > p
      BY <1>4, <1>8, <2>3
    <3>3. QED BY <1>5, <2>2, <2>3, <3>1, <3>2
  <2>4. CASE m.role # "system"
    <3>1. c.group # {}
      BY <1>5, <2>4
    <3>2. ~ \A j \in Spoken(s) : j > p
      BY <1>4, <2>4
    <3>3. QED BY <3>1, <3>2
  <2>5. QED BY <2>3, <2>4
<1>10. CutsWell(c, s, given, p)
  <2> SUFFICES ASSUME NEW i \in Spoken(s), i <= p, i <= given
               PROVE  IsStart(H, i) <=> MayCut(s, i)
    BY DEF CutsWell, H
  <2>1. i \in 1 .. n \/ i = p
    BY <1>1 DEF Spoken
  <2>2. CASE i \in 1 .. n
    <3>1. IsStart(G, i) <=> MayCut(s, i)
      BY <2>2 DEF Cutting, CutsWell, G
    <3>2. QED BY <1>7, <2>2, <3>1
  <2>3. CASE i = p
    <3>1. m.role # "system" /\ n <= given /\ n # given
      BY <1>4, <2>3
    <3>2. /\ a.group = {} => a.open = {}
          /\ a.group = {} <=> \A j \in Spoken(s) : j > n
      BY <3>1 DEF Cutting, OpensFirst
    <3>3. (\A j \in Spoken(s) : j > n) <=> \A j \in Spoken(s) : p <= j
      BY <1>8
    <3>4. MayCut(s, p) <=> a.open = {} /\ (m.role = "user" \/ a.group = {})
      BY <1>1, <1>3, <3>2, <3>3 DEF MayCut
    <3>5. Fresh(a, m, boundary) <=> MayCut(s, p)
      BY <1>6, <3>1, <3>2, <3>4
    <3>6. CASE Fresh(a, m, boundary)
      BY <1>3, <1>5, <2>3, <3>1, <3>5, <3>6, MoreFacts
    <3>7. CASE ~ Fresh(a, m, boundary)
      BY <1>3, <1>5, <2>3, <3>1, <3>5, <3>7, LongerFacts
    <3>8. QED BY <3>6, <3>7
  <2>4. QED BY <2>1, <2>2, <2>3
<1>11. NotAcross(c, s, given, p)
  <2> SUFFICES ASSUME given <= p, Prefix(s)[given] = {}
               PROVE  ~ Straddles(H, given) /\ (p > given => c.group \cap 1 .. given = {})
    BY DEF NotAcross, H
  <2>1. CASE p <= given
    <3>1. p = given
      BY <2>1
    <3>2. \A g \in 1 .. Len(H) : H[g] \subseteq 1 .. p
      BY <1>3, SeqFacts DEF Ordered
    <3>3. QED BY <3>1, <3>2 DEF Straddles
  <2>2. CASE ~ (p <= given)
    <3>1. given <= n /\ p \notin 1 .. given
      BY <2>2
    <3>2. ~ Straddles(G, given) /\ (n > given => a.group \cap 1 .. given = {})
      BY <3>1 DEF Cutting, NotAcross, G
    <3>3. n = given => a.open = {}
      BY <1>3
    <3>4. a.group \cap 1 .. given = {} \/ a.group = {} \/ Closes(a, m, boundary)
      BY <1>6, <3>1, <3>2, <3>3
    <3>5. CASE m.role = "system"
      BY <1>5, <3>2, <3>4, <3>5
    <3>6. CASE m.role # "system" /\ Fresh(a, m, boundary)
      <4>1. More(G, H, {n + 1}) /\ c.group = {p}
        BY <1>5, <3>6
      <4>2. Straddles(H, given) <=> Straddles(G, given)
        BY <1>3, <4>1, MoreFacts
      <4>3. QED BY <3>1, <3>2, <4>1, <4>2
    <3>7. CASE m.role # "system" /\ ~ Fresh(a, m, boundary)
      BY <1>3, <1>5, <1>6, <3>1, <3>2, <3>4, <3>7, LongerFacts
    <3>8. QED BY <3>5, <3>6, <3>7
  <2>3. QED BY <2>1, <2>2
<1>12. GoesOn(c, s, given, p)
  <2> SUFFICES ASSUME given <= p, Prefix(s)[given] # {}
               PROVE  Straddles(H, given) \/ (c.open # {} /\ c.group \cap 1 .. given # {})
    BY DEF GoesOn, H
  <2>1. CASE p <= given
    <3>1. p = given
      BY <2>1
    <3>2. c.open # {}
      BY <1>3, <3>1
    <3>3. c.group # {}
      BY <1>9, <3>1, <3>2 DEF OpensFirst
    <3>4. QED BY <1>3, <3>1, <3>2, <3>3
  <2>2. CASE ~ (p <= given)
    <3>1. given <= n
      BY <2>2
    <3>2. Straddles(G, given) \/ (a.open # {} /\ a.group \cap 1 .. given # {})
      BY <3>1 DEF Cutting, GoesOn, G
    <3>3. CASE m.role = "system"
      BY <1>5, <1>6, <3>2, <3>3
    <3>4. CASE m.role # "system" /\ Fresh(a, m, boundary)
      <4>1. Straddles(G, given)
        BY <1>6, <3>2, <3>4
      <4>2. QED BY <1>3, <1>5, <3>4, <4>1, MoreFacts
    <3>5. CASE m.role # "system" /\ ~ Fresh(a, m, boundary)
      <4>1. Longer(G, H, n + 1) /\ G[Len(G)] = a.group
        BY <1>5, <3>5
      <4>2. Straddles(G, given) \/ G[Len(G)] \cap 1 .. given # {}
        BY <3>2, <4>1
      <4>3. QED BY <1>3, <3>1, <4>1, <4>2, LongerFacts
    <3>6. QED BY <3>3, <3>4, <3>5
  <2>3. QED BY <2>1, <2>2
<1>13. QED BY <1>9, <1>10, <1>11, <1>12 DEF Cutting, c

\* A scan that has raised nothing has split the history where turns may be cut off.
LEMMA ScanCuts ==
  ASSUME NEW s, Said(s), NEW given \in Nat, NEW n \in 0 .. Len(s), Scan(s, given)[n].error = "none"
  PROVE  Cutting(Scan(s, given)[n], s, given, n)
<1> DEFINE Good(k) == Scan(s, given)[k].error = "none" => Cutting(Scan(s, given)[k], s, given, k)
           T == {k \in Nat : k <= Len(s) => Good(k)}
<1>0. s \in Seq(Message)
  BY DEF Said
<1>1. 0 \in T
  <2>1. Scan(s, given)[0] = Unscanned /\ Prefix(s)[0] = {}
    BY <1>0, ScanSteps, PrefixSteps
  <2>2. \A j \in Spoken(s) : j \in Nat /\ j > 0
    BY <1>0, SeqFacts DEF Spoken
  <2>3. /\ Unscanned.group = {} /\ Unscanned.open = {} /\ Groups(Unscanned) = <<>>
        /\ Len(<<>>) = 0
    BY DEF Unscanned, Groups
  <2>4. OpensFirst(Unscanned, s, given, 0)
    BY <2>2, <2>3 DEF OpensFirst
  <2>5. CutsWell(Unscanned, s, given, 0)
    BY <2>2 DEF CutsWell
  <2>6. ~ Straddles(Groups(Unscanned), given)
    BY <2>3 DEF Straddles
  <2>7. NotAcross(Unscanned, s, given, 0)
    BY <2>3, <2>6 DEF NotAcross
  <2>8. GoesOn(Unscanned, s, given, 0)
    <3>1. given <= 0 => given = 0
      OBVIOUS
    <3>2. QED BY <2>1, <3>1 DEF GoesOn
  <2>9. QED BY <2>1, <2>4, <2>5, <2>7, <2>8 DEF Cutting
<1>2. ASSUME NEW k \in Nat, k \in T PROVE k + 1 \in T
  <2> SUFFICES ASSUME k + 1 <= Len(s), Scan(s, given)[k + 1].error = "none"
               PROVE  Cutting(Scan(s, given)[k + 1], s, given, k + 1)
    OBVIOUS
  <2> DEFINE a == Scan(s, given)[k]
             boundary == (k + 1 = given + 1)
  <2>1. k + 1 \in 1 .. Len(s) /\ (k + 1) - 1 = k /\ k <= Len(s) /\ k \in 0 .. Len(s)
    BY <1>0, SeqFacts
  <2>2. Scan(s, given)[k + 1] = Scanned(a, s[k + 1], k + 1, boundary)
    <3>1. \A i \in 1 .. Len(s) :
            Scan(s, given)[i] = Scanned(Scan(s, given)[i - 1], s[i], i, i = given + 1)
      BY <1>0, ScanSteps
    <3>2. Scan(s, given)[k + 1]
            = Scanned(Scan(s, given)[(k + 1) - 1], s[k + 1], k + 1, k + 1 = given + 1)
      BY <2>1, <3>1, Zenon
    <3>3. Scan(s, given)[k + 1]
            = Scanned(Scan(s, given)[k], s[k + 1], k + 1, k + 1 = given + 1)
      BY <2>1, <3>2, Zenon
    <3>4. QED BY <3>3, Zenon
  <2>3. Reads(a, s, k) /\ WellScanned(a, s, k)
    BY <1>0, <2>1, ScanWell, ScanReads
  <2>4. boundary = (k = given) /\ boundary \in BOOLEAN
    OBVIOUS
  <2>5. a.error = "none" => Cutting(a, s, given, k)
    BY <1>2, <2>1
  <2> HIDE DEF a, boundary
  <2>6. Scanned(a, s[k + 1], k + 1, boundary).error = "none"
    BY <2>2
  <2>7. a.error = "none"
    BY <1>0, <2>3, <2>4, <2>6, ScannedGrows
  <2>8. Cutting(Scanned(a, s[k + 1], k + 1, boundary), s, given, k + 1)
    BY <2>3, <2>4, <2>5, <2>6, <2>7, ScannedCuts
  <2>9. QED BY <2>2, <2>8, Zenon
<1> HIDE DEF T, Good
<1>3. Nat \subseteq T
  BY <1>1, <1>2, Induction
<1>4. n \in Nat /\ n <= Len(s)
  BY <1>0, SeqFacts
<1>5. Good(n)
  BY <1>3, <1>4 DEF T
<1>6. QED BY <1>5 DEF Good

-----------------------------------------------------------------------------
(* The cuts are the starts of the groups of the history.                     *)

IsLeast(x, P) == x \in P /\ \A p \in P : x <= p
StartsOf(st, G, n) ==
  /\ st \in [1 .. Len(G) -> 1 .. n]
  /\ \A g \in 1 .. Len(G) : IsLeast(st[g], G[g])
  /\ \A g, h \in 1 .. Len(G) : g < h => st[g] < st[h]
  /\ \A i \in 1 .. n : IsStart(G, i) <=> \E g \in 1 .. Len(G) : i = st[g]
  /\ \A g \in 1 .. Len(G) :
       {p \in Span(G, 0, Len(G)) : st[g] <= p} = Span(G, g - 1, Len(G))

LEMMA LeastIs ==
  ASSUME NEW S \in SUBSET Nat, NEW x, IsLeast(x, S)
  PROVE  (CHOOSE i \in S : \A j \in S : i <= j) = x
<1> DEFINE y == CHOOSE i \in S : \A j \in S : i <= j
<1>1. x \in S /\ \A j \in S : x <= j
  BY DEF IsLeast
<1>2. y \in S /\ \A j \in S : y <= j
  BY <1>1
<1>3. x \in Nat /\ y \in Nat /\ x <= y /\ y <= x
  BY <1>1, <1>2
<1> HIDE DEF y
<1>4. x = y
  BY <1>3
<1>5. QED BY <1>4 DEF y

LEMMA StartsFacts ==
  ASSUME NEW n \in Nat, NEW G, Ordered(G, n) PROVE \E st : StartsOf(st, G, n)
<1> DEFINE L == Len(G)
           st == [g \in 1 .. L |-> CHOOSE x \in G[g] : \A p \in G[g] : x <= p]
<1>1. /\ L \in Nat /\ \A g \in 1 .. L : G[g] \in SUBSET (1 .. n) /\ G[g] # {}
      /\ \A g, h \in 1 .. L : g < h => \A i \in G[g], j \in G[h] : i < j
  BY SeqFacts DEF Ordered
<1> HIDE DEF L
<1>2. ASSUME NEW g \in 1 .. L PROVE IsLeast(st[g], G[g])
  <2>1. G[g] \in SUBSET Nat /\ G[g] # {}
    BY <1>1
  <2>2. PICK x \in G[g] : \A p \in G[g] : x <= p
    BY <2>1, Least
  <2>3. QED BY <2>2 DEF IsLeast
<1> HIDE DEF st
<1>3. \A g \in 1 .. L : st[g] \in G[g] /\ st[g] \in 1 .. n /\ \A p \in G[g] : st[g] <= p
  BY <1>1, <1>2 DEF IsLeast
<1>4. st \in [1 .. L -> 1 .. n]
  BY <1>3 DEF st
<1>5. \A g, h \in 1 .. L : g < h => st[g] < st[h]
  BY <1>1, <1>3
<1>6. ASSUME NEW i \in 1 .. n PROVE IsStart(G, i) <=> \E g \in 1 .. L : i = st[g]
  <2>1. ASSUME NEW g \in 1 .. L
        PROVE  (i \in G[g] /\ \A p \in G[g] : i <= p) <=> i = st[g]
    <3>1. st[g] \in G[g] /\ st[g] \in 1 .. n /\ \A p \in G[g] : st[g] <= p
      BY <1>3
    <3>2. i \in G[g] /\ (\A p \in G[g] : i <= p) => i <= st[g] /\ st[g] <= i
      BY <3>1
    <3>3. QED BY <3>1, <3>2
  <2>2. QED BY <2>1 DEF IsStart, L
<1>7. ASSUME NEW g \in 1 .. L
      PROVE  {p \in Span(G, 0, L) : st[g] <= p} = Span(G, g - 1, L)
  <2>1. \A h : h \in (g - 1) + 1 .. L <=> h \in 1 .. L /\ g <= h
    BY <1>1
  <2>2. \A h : h \in 0 + 1 .. L <=> h \in 1 .. L
    BY <1>1
  <2>3. ASSUME NEW h \in 1 .. L, NEW p \in G[h] PROVE st[g] <= p <=> g <= h
    <3>1. p \in 1 .. n /\ st[g] \in G[g] /\ st[g] \in 1 .. n
      BY <1>1, <1>3
    <3>2. h < g => p < st[g]
      BY <1>1, <3>1
    <3>3. g < h => st[g] < p
      BY <1>1, <3>1
    <3>4. g = h => st[g] <= p
      BY <1>3
    <3>5. QED BY <1>1, <3>1, <3>2, <3>3, <3>4
  <2>4. \A p : p \in Span(G, 0, L) <=> \E h \in 1 .. L : p \in G[h]
    BY <2>2 DEF Span
  <2>5. \A p : p \in Span(G, g - 1, L) <=> \E h \in 1 .. L : g <= h /\ p \in G[h]
    BY <2>1 DEF Span
  <2>6. QED BY <2>3, <2>4, <2>5
<1>8. StartsOf(st, G, n)
  BY <1>2, <1>4, <1>5, <1>6, <1>7 DEF StartsOf, L
<1>9. QED BY <1>8

AllCuts(s, given) ==
  Cuts(s, given) \cup (IF Prefix(s)[given] = {} THEN {given + 1} ELSE {})
\* cut[0] < .. < cut[k] are all the cuts; after cut[l] come the groups after l.
CutAt(cut, s, given, groups, k) ==
  /\ cut \in [0 .. k -> Nat]
  /\ AllCuts(s, given) = {cut[l] : l \in 0 .. k}
  /\ \A l, h \in 0 .. k : l < h => cut[l] < cut[h]
  /\ \A l \in 0 .. k : Kept(s, cut[l]) = Required(s, Len(s), groups, k) \cup Span(groups, l, k)

LEMMA CutsAt ==
  ASSUME NEW s, Said(s), NEW given \in 0 .. Len(s), NEW a, WellScanned(a, s, Len(s)),
         a.error = "none", a.open = {}, Cutting(a, s, given, Len(s)),
         NEW k, SplitsAt(Groups(a), given, k),
         given + 1 .. Len(s) \subseteq Required(s, Len(s), Groups(a), k)
  PROVE  \E cut : CutAt(cut, s, given, Groups(a), k)
<1> DEFINE n == Len(s)
           G == Groups(a)
           L == Len(G)
           none == Prefix(s)[given] = {}
           K == IF none THEN k ELSE k + 1
           R == Required(s, n, G, k)
           systems == (1 .. n) \ Spoken(s)
<1>1. /\ s \in Seq(Message) /\ n \in Nat /\ given \in Nat /\ given <= n
      /\ a \in ScanState(n) /\ Ordered(G, n)
  BY SeqFacts DEF Said, WellScanned
<1>2. Spoken(s) = Span(G, 0, L)
  <2>1. Spoken(s) = Span(a.groups, 0, Len(a.groups)) \cup a.group
    BY DEF WellScanned, Spoken
  <2>2. QED BY <1>1, <2>1, GroupsFacts
<1>3. {i \in 1 .. n : s[i].role = "system"} = systems
  BY DEF Spoken
<1>4. R = systems \cup Span(G, k, L)
  BY <1>3 DEF Required
<1>5. /\ \A i \in Spoken(s) : i \in 1 .. n
      /\ \A i \in Spoken(s) : i <= given => (IsStart(G, i) <=> MayCut(s, i))
      /\ none => ~ Straddles(G, given)
      /\ ~ none => Straddles(G, given)
  BY <1>1 DEF Spoken, Cutting, CutsWell, NotAcross, GoesOn
<1>6. PICK st : StartsOf(st, G, n)
  BY <1>1, StartsFacts
<1> HIDE DEF n, G, systems
<1>7. /\ L \in Nat /\ k \in Nat /\ k <= L
      /\ \A g \in 1 .. L : G[g] \in SUBSET (1 .. n)
      /\ \A g, h \in 1 .. L : g < h => \A i \in G[g], j \in G[h] : i < j
      /\ \A g \in 1 .. k : G[g] \subseteq 1 .. given
      /\ \A g \in k + 1 .. L : ~ (G[g] \subseteq 1 .. given)
  BY <1>1, SeqFacts DEF Ordered, SplitsAt, G
<1>8. /\ \A g \in 1 .. L : /\ st[g] \in 1 .. n /\ st[g] \in G[g]
                           /\ \A p \in G[g] : st[g] <= p
      /\ \A g, h \in 1 .. L : g < h => st[g] < st[h]
      /\ \A i \in 1 .. n : IsStart(G, i) <=> \E g \in 1 .. L : i = st[g]
      /\ \A g \in 1 .. L : {p \in Span(G, 0, L) : st[g] <= p} = Span(G, g - 1, L)
  BY <1>6 DEF StartsOf, IsLeast
<1> HIDE DEF L
\* The groups that start in the history are those up to K.
<1>9. K \in Nat /\ K <= L /\ \A g \in 1 .. L : st[g] <= given <=> g <= K
  <2>1. CASE none
    <3>1. ASSUME NEW g \in 1 .. L PROVE st[g] <= given <=> g <= k
      <4>1. g <= k => st[g] <= given
        <5>1. g <= k => g \in 1 .. k /\ st[g] \in G[g] /\ G[g] \subseteq 1 .. given
          BY <1>7, <1>8
        <5>2. st[g] \in 1 .. given => st[g] <= given
          OBVIOUS
        <5>3. QED BY <5>1, <5>2
      <4>2. ~ (g <= k) => G[g] \cap 1 .. given = {}
        BY <1>5, <1>7, <2>1 DEF Straddles, L
      <4>3. st[g] <= given => st[g] \in G[g] \cap 1 .. given
        BY <1>8
      <4>4. QED BY <4>1, <4>2, <4>3
    <3>2. QED BY <1>7, <2>1, <3>1
  <2>2. CASE ~ none
    <3>1. PICK h \in 1 .. L : G[h] \cap 1 .. given # {} /\ ~ (G[h] \subseteq 1 .. given)
      BY <1>5, <2>2 DEF Straddles, L
    <3>2. PICK r \in G[h] : r \in 1 .. given
      BY <3>1
    <3>3. k + 1 <= h /\ k + 1 \in 1 .. L
      BY <1>7, <3>1
    <3>4. PICK q \in G[k + 1] : q \notin 1 .. given
      BY <1>7, <3>3
    <3>5. q \in 1 .. n /\ ~ (q <= given)
      BY <1>7, <3>3, <3>4
    <3>6. h = k + 1
      <4>1. k + 1 < h => q < r
        BY <1>7, <3>2, <3>3, <3>4
      <4>2. QED BY <1>7, <3>2, <3>3, <3>5, <4>1
    <3>7. ASSUME NEW g \in 1 .. L PROVE st[g] <= given <=> g <= k + 1
      <4>1. g <= k => st[g] <= given
        <5>1. g <= k => g \in 1 .. k /\ st[g] \in G[g] /\ G[g] \subseteq 1 .. given
          BY <1>7, <1>8
        <5>2. st[g] \in 1 .. given => st[g] <= given
          OBVIOUS
        <5>3. QED BY <5>1, <5>2
      <4>2. g = k + 1 => st[g] <= r
        BY <1>8, <3>2, <3>6
      <4>3. k + 1 < g => q < st[g]
        BY <1>7, <1>8, <3>3, <3>4
      <4>4. st[g] \in 1 .. n
        BY <1>8
      <4>5. QED BY <1>1, <1>7, <3>2, <3>5, <4>1, <4>2, <4>3, <4>4
    <3>8. QED BY <1>7, <2>2, <3>3, <3>7
  <2>3. QED BY <2>1, <2>2
<1>10. \A i : i \in Cuts(s, given) <=> \E g \in 1 .. K : i = st[g]
  <2>1. \A i : i \in Cuts(s, given) <=> i \in Spoken(s) /\ i <= given /\ MayCut(s, i)
    BY DEF Cuts, MayCut
  <2>2. \A i : i \in Cuts(s, given) <=> i \in Spoken(s) /\ i <= given /\ IsStart(G, i)
    BY <1>5, <2>1
  <2>3. \A g \in 1 .. L : st[g] \in Spoken(s)
    <3>1. \A g \in 1 .. L : g \in 0 + 1 .. L
      BY <1>7
    <3>2. QED BY <1>2, <1>8, <3>1 DEF Span
  <2>4. \A i : i \in Cuts(s, given) <=> \E g \in 1 .. L : i = st[g] /\ st[g] <= given
    BY <1>5, <1>8, <2>2, <2>3
  <2>5. \A g \in 1 .. K : g \in 1 .. L /\ st[g] <= given
    BY <1>7, <1>9
  <2>6. \A g \in 1 .. L : st[g] <= given => g \in 1 .. K
    BY <1>7, <1>9
  <2>7. QED BY <2>4, <2>5, <2>6
<1>11. ASSUME NEW l \in 0 .. k, l + 1 \in 1 .. L
       PROVE  Kept(s, st[l + 1]) = R \cup Span(G, l, k)
  <2>1. (l + 1) - 1 = l /\ l \in Nat /\ l <= k
    BY <1>7
  <2>2. {p \in Spoken(s) : st[l + 1] <= p} = Span(G, l, L)
    BY <1>2, <1>8, <1>11, <2>1
  <2>3. Span(G, l, L) = Span(G, l, k) \cup Span(G, k, L)
    <3>1. \A x, y, z \in Nat : x <= y /\ y <= z =>
            Span(G, x, z) = Span(G, x, y) \cup Span(G, y, z)
      BY SpanSplit
    <3>2. QED BY <1>7, <2>1, <3>1
  <2>4. \A p : p \in st[l + 1] .. n <=> p \in 1 .. n /\ st[l + 1] <= p
    BY <1>1, <1>8, <1>11
  <2>5. Kept(s, st[l + 1]) = systems \cup {p \in Spoken(s) : st[l + 1] <= p}
    BY <1>5, <2>4 DEF Kept, systems, n
  <2>6. QED BY <1>4, <2>2, <2>3, <2>5
<1>12. ASSUME none PROVE Kept(s, given + 1) = R \cup Span(G, k, k)
  <2>1. Kept(s, given + 1) = systems \cup given + 1 .. n
    BY DEF Kept, systems, n
  <2>2. Span(G, k, L) \subseteq given + 1 .. n
    <3> SUFFICES ASSUME NEW p \in Span(G, k, L) PROVE p \in given + 1 .. n
      OBVIOUS
    <3>1. PICK g \in k + 1 .. L : p \in G[g]
      BY DEF Span
    <3>2. g \in 1 .. L /\ p \in 1 .. n
      BY <1>7, <3>1
    <3>3. ~ (p <= given)
      BY <1>5, <1>7, <1>12, <3>1, <3>2 DEF Straddles, L
    <3>4. QED BY <1>1, <3>2, <3>3
  <2>3. given + 1 .. n \subseteq R
    BY DEF n, G
  <2>4. Span(G, k, k) = {}
    BY <1>7 DEF Span
  <2> HIDE DEF R
  <2>5. QED BY <1>4, <2>1, <2>2, <2>3, <2>4
<1> DEFINE cut == [l \in 0 .. k |-> IF l < K THEN st[l + 1] ELSE given + 1]
<1> HIDE DEF R, none
<1>13. /\ \A l \in 0 .. k : l < K => l + 1 \in 1 .. L /\ l + 1 \in 1 .. K /\ cut[l] = st[l + 1]
       /\ \A l \in 0 .. k : ~ (l < K) => none /\ l = k /\ cut[l] = given + 1
  BY <1>7, <1>9
<1>14. ASSUME NEW l \in 0 .. k PROVE Kept(s, cut[l]) = R \cup Span(G, l, k)
  <2>1. CASE l < K
    BY <1>11, <1>13, <2>1
  <2>2. CASE ~ (l < K)
    BY <1>12, <1>13, <2>2
  <2>3. QED BY <2>1, <2>2
<1>15. cut \in [0 .. k -> Nat]
  <2>1. \A l \in 0 .. k : (IF l < K THEN st[l + 1] ELSE given + 1) \in Nat
    BY <1>1, <1>8, <1>13
  <2>2. QED BY <2>1
<1>16. AllCuts(s, given) = {cut[l] : l \in 0 .. k}
  <2>1. \A g \in 1 .. K : g - 1 \in 0 .. k /\ g - 1 < K /\ cut[g - 1] = st[g]
    <3>1. \A g \in 1 .. K : g - 1 \in 0 .. k /\ g - 1 < K /\ (g - 1) + 1 = g
      BY <1>7, <1>9
    <3>2. QED BY <1>13, <3>1
  <2>2. none => k \in 0 .. k /\ cut[k] = given + 1
    BY <1>7, <1>13
  <2> HIDE DEF cut
  <2>3. \A i : i \in AllCuts(s, given) <=> i \in Cuts(s, given) \/ (none /\ i = given + 1)
    BY DEF AllCuts, none
  <2> HIDE DEF K
  <2>4. \A i \in AllCuts(s, given) : \E l \in 0 .. k : i = cut[l]
    BY <1>10, <2>1, <2>2, <2>3
  <2>5. ASSUME NEW l \in 0 .. k PROVE cut[l] \in AllCuts(s, given)
    <3>1. CASE l < K
      BY <1>10, <1>13, <2>3, <3>1
    <3>2. CASE ~ (l < K)
      BY <1>13, <2>3, <3>2
    <3>3. QED BY <3>1, <3>2
  <2>6. QED BY <2>4, <2>5
<1>17. ASSUME NEW l \in 0 .. k, NEW h \in 0 .. k, l < h PROVE cut[l] < cut[h]
  <2>1. l < K /\ l + 1 \in 1 .. L /\ l + 1 \in 1 .. K /\ cut[l] = st[l + 1]
    BY <1>7, <1>9, <1>13, <1>17
  <2>2. CASE h < K
    <3>1. h + 1 \in 1 .. L /\ cut[h] = st[h + 1] /\ l + 1 < h + 1
      BY <1>7, <1>13, <1>17, <2>2
    <3>2. QED BY <1>8, <2>1, <3>1
  <2>3. CASE ~ (h < K)
    <3>1. cut[h] = given + 1
      BY <1>13, <2>3
    <3>2. st[l + 1] <= given /\ st[l + 1] \in 1 .. n
      BY <1>8, <1>9, <2>1
    <3>3. QED BY <1>1, <2>1, <3>1, <3>2
  <2>4. QED BY <2>2, <2>3
<1> HIDE DEF cut
<1>18. CutAt(cut, s, given, G, k)
  BY <1>14, <1>15, <1>16, <1>17 DEF CutAt, R, n
<1>19. QED BY <1>18 DEF G

FittingOf(s, given) == {c \in AllCuts(s, given) : Bytes(s, Kept(s, c)) <= MaxBytes}
FirstToFit(cut, i, s, given, k) ==
  /\ i \in 0 .. k /\ IsLeast(cut[i], FittingOf(s, given))
  /\ Cardinality({c \in AllCuts(s, given) : c < cut[i]}) = i

\* Of the cuts that fit, the first is the one after which the groups taken begin.
LEMMA FittingCuts ==
  ASSUME NEW s, Said(s), NEW given, NEW groups, NEW k, NEW cut,
         CutAt(cut, s, given, groups, k),
         NEW i, Settles(s, groups, Required(s, Len(s), groups, k), k, i)
  PROVE  FirstToFit(cut, i, s, given, k)
<1> DEFINE R == Required(s, Len(s), groups, k)
           fits(l) == Bytes(s, Kept(s, cut[l])) <= MaxBytes
<1>1. /\ s \in Seq(Message) /\ Len(groups) \in Nat /\ k \in Nat /\ i \in Nat /\ i <= k
      /\ groups \in Seq(SUBSET (1 .. Len(s))) /\ Len(s) \in Nat
      /\ \A l \in 0 .. k :
           /\ Span(groups, l, k) \in SUBSET (1 .. Len(s))
           /\ R \cup Span(groups, l, k) \in SUBSET (1 .. Len(s))
           /\ Cost(s, R \cup Span(groups, l, k)) = Cost(s, R) + Cost(s, Span(groups, l, k))
  BY SettlesFacts, ZenonT(30) DEF Said
<1>2. /\ R \in SUBSET (1 .. Len(s)) /\ Fits(Cost(s, R) + Cost(s, Span(groups, i, k)))
      /\ i > 0 => ~ Fits(Cost(s, R) + Cost(s, Span(groups, i - 1, k)))
  BY DEF Settles
<1>3. /\ cut \in [0 .. k -> Nat]
      /\ AllCuts(s, given) = {cut[l] : l \in 0 .. k}
      /\ \A l, h \in 0 .. k : l < h => cut[l] < cut[h]
      /\ \A l \in 0 .. k : Kept(s, cut[l]) = R \cup Span(groups, l, k)
  BY DEF CutAt
<1> HIDE DEF R
<1>4. ASSUME NEW l \in 0 .. k
      PROVE  fits(l) <=> Fits(Cost(s, R) + Cost(s, Span(groups, l, k)))
  <2> DEFINE P == R \cup Span(groups, l, k)
  <2>1. P \in SUBSET (1 .. Len(s)) /\ Kept(s, cut[l]) = P
        /\ Cost(s, P) = Cost(s, R) + Cost(s, Span(groups, l, k))
    BY <1>1, <1>3
  <2> HIDE DEF P
  <2>2. Bytes(s, P) <= MaxBytes <=> Fits(Cost(s, P))
    BY <1>1, <2>1, BytesAreCost
  <2>3. QED BY <2>1, <2>2
<1>5. Cost(s, R) \in Nat /\ \A l \in 0 .. k : Cost(s, Span(groups, l, k)) \in Nat
  BY <1>1, <1>2, CostNat
<1>6. ASSUME NEW l \in 0 .. k, NEW h \in 0 .. k, l <= h, fits(l) PROVE fits(h)
  <2> DEFINE P == Span(groups, l, k)
             Q == Span(groups, h, k)
             more == Cost(s, R) + Cost(s, P)
             less == Cost(s, R) + Cost(s, Q)
  <2>1. Q \subseteq P
    <3>1. h + 1 .. k \subseteq l + 1 .. k
      BY <1>1, <1>6
    <3>2. QED BY <3>1 DEF Span
  <2>2. P \in SUBSET (1 .. Len(s)) /\ Q \in SUBSET (1 .. Len(s))
    BY <1>1
  <2>3. Cost(s, P) \in Nat /\ Cost(s, Q) \in Nat
    BY <1>5
  <2>4. Fits(more)
    BY <1>4, <1>6
  <2>5. fits(h) <=> Fits(less)
    BY <1>4
  <2> HIDE DEF P, Q, fits
  <2>6. Cost(s, Q) <= Cost(s, P)
    BY <1>1, <2>1, <2>2, CostLess
  <2>7. more \in Nat /\ less \in Nat /\ less <= more
    BY <1>5, <2>3, <2>6
  <2> HIDE DEF more, less
  <2>8. Fits(less)
    BY <2>4, <2>7, FitsLess
  <2>9. QED BY <2>5, <2>8
<1>7. i \in 0 .. k /\ fits(i)
  BY <1>1, <1>2, <1>4
<1>8. \A l \in 0 .. k : fits(l) <=> i <= l
  <2>1. ASSUME NEW l \in 0 .. k, i <= l PROVE fits(l)
    BY <1>6, <1>7, <2>1
  <2>2. ASSUME NEW l \in 0 .. k, ~ (i <= l) PROVE ~ fits(l)
    <3>1. i > 0 /\ i - 1 \in 0 .. k /\ l <= i - 1
      BY <1>1, <2>2
    <3>2. ~ fits(i - 1)
      BY <1>2, <1>4, <3>1
    <3>3. QED BY <1>6, <3>1, <3>2
  <2>3. QED BY <2>1, <2>2
<1>9. \A l \in 0 .. k : cut[l] \in Nat /\ (cut[i] <= cut[l] <=> i <= l)
  <2>1. ASSUME NEW l \in 0 .. k PROVE cut[l] \in Nat /\ (cut[i] <= cut[l] <=> i <= l)
    <3>1. cut[l] \in Nat /\ cut[i] \in Nat
      BY <1>3, <1>7
    <3>2. (i < l => cut[i] < cut[l]) /\ (l < i => cut[l] < cut[i])
      BY <1>3, <1>7
    <3>3. i < l \/ l < i \/ i = l
      BY <1>1
    <3>4. QED BY <1>1, <3>1, <3>2, <3>3
  <2>2. QED BY <2>1
<1> DEFINE fitting == {c \in AllCuts(s, given) : Bytes(s, Kept(s, c)) <= MaxBytes}
           before == {c \in AllCuts(s, given) : c < cut[i]}
<1>10. IsLeast(cut[i], fitting)
  <2>1. cut[i] \in fitting
    BY <1>3, <1>7
  <2>2. ASSUME NEW c \in fitting PROVE cut[i] <= c
    <3>1. PICK l \in 0 .. k : c = cut[l]
      BY <1>3
    <3>2. fits(l)
      BY <3>1
    <3>3. QED BY <1>8, <1>9, <3>1, <3>2
  <2>3. QED BY <2>1, <2>2 DEF IsLeast
<1>11. Cardinality(before) = i
  <2> DEFINE f == [j \in 1 .. i |-> cut[j - 1]]
  <2>1. \A j \in 1 .. i : j - 1 \in 0 .. k /\ j - 1 < i
    BY <1>1
  <2>2. \A j \in 1 .. i : cut[j - 1] \in before
    BY <1>3, <1>7, <2>1
  <2>3. f \in [1 .. i -> before]
    BY <2>2
  <2>4. ASSUME NEW j \in 1 .. i, NEW h \in 1 .. i, f[j] = f[h] PROVE j = h
    <3>1. cut[j - 1] = cut[h - 1] /\ cut[j - 1] \in Nat
      BY <1>3, <2>1, <2>4
    <3>2. j < h => cut[j - 1] < cut[h - 1]
      BY <1>3, <2>1
    <3>3. h < j => cut[h - 1] < cut[j - 1]
      BY <1>3, <2>1
    <3>4. QED BY <3>1, <3>2, <3>3
  <2>5. ASSUME NEW c \in before PROVE \E j \in 1 .. i : f[j] = c
    <3>1. PICK l \in 0 .. k : c = cut[l]
      BY <1>3
    <3>2. cut[l] \in Nat /\ cut[i] \in Nat /\ cut[l] < cut[i]
      BY <1>7, <1>9, <3>1
    <3>3. ~ (i <= l)
      BY <1>9, <3>2
    <3>4. l + 1 \in 1 .. i /\ (l + 1) - 1 = l
      BY <1>1, <3>3
    <3>5. f[l + 1] = c
      BY <3>1, <3>4
    <3>6. QED BY <3>4, <3>5
  <2>6. f \in Bijection(1 .. i, before)
    BY <2>3, <2>4, <2>5 DEF Bijection, Injection, IsInjective, Surjection
  <2>7. ExistsBijection(1 .. i, before)
    BY <2>6 DEF ExistsBijection
  <2>8. QED BY <1>1, <2>7, FS_CountingElements
<1>12. QED BY <1>7, <1>10, <1>11 DEF FirstToFit, FittingOf

\* If the required messages do not fit, no cut does.
LEMMA NoCutFits ==
  ASSUME NEW s \in Seq(Message), NEW given, NEW groups, NEW k \in Nat, NEW cut,
         CutAt(cut, s, given, groups, k), groups \in Seq(SUBSET (1 .. Len(s))), k <= Len(groups),
         ~ Fits(Cost(s, Required(s, Len(s), groups, k)))
  PROVE  FittingOf(s, given) = {}
<1> DEFINE R == Required(s, Len(s), groups, k)
<1>1. Len(s) \in Nat /\ Len(groups) \in Nat
  BY SeqFacts
<1>2. R \in SUBSET (1 .. Len(s))
  <2>1. Span(groups, k, Len(groups)) \in SUBSET (1 .. Len(s))
    BY <1>1, SpanFacts
  <2>2. QED BY <2>1 DEF Required
<1> HIDE DEF R
<1>3. ASSUME NEW l \in 0 .. k PROVE ~ (Bytes(s, Kept(s, cut[l])) <= MaxBytes)
  <2> DEFINE P == R \cup Span(groups, l, k)
  <2>1. Kept(s, cut[l]) = P
    BY DEF CutAt, R
  <2>2. P \in SUBSET (1 .. Len(s))
    <3>1. Span(groups, l, k) \in SUBSET (1 .. Len(s))
      BY <1>1, SpanFacts
    <3>2. QED BY <1>2, <3>1
  <2>3. R \subseteq P
    OBVIOUS
  <2> HIDE DEF P
  <2>4. Cost(s, R) <= Cost(s, P) /\ Cost(s, R) \in Nat /\ Cost(s, P) \in Nat
    BY <1>2, <2>2, <2>3, CostLess, CostNat
  <2>5. ~ Fits(Cost(s, P))
    BY <2>4, FitsLess DEF R
  <2>6. QED BY <2>1, <2>2, <2>5, BytesAreCost
<1>4. AllCuts(s, given) = {cut[l] : l \in 0 .. k}
  BY DEF CutAt
<1>5. QED BY <1>3, <1>4 DEF FittingOf

SelectsAfter(before, request, groups, k) ==
  LET s == before \o request
      R == Required(s, Len(s), groups, k)
  IN /\ ~ Fits(Cost(s, R)) => Select(before, request) = Raise("budget")
     /\ Fits(Cost(s, R)) =>
          \E i : /\ Settles(s, groups, R, k, i)
                 /\ Select(before, request)
                      = Selection(R \cup Span(groups, i, k), Bytes(s, DOMAIN s),
                                  Bytes(s, R \cup Span(groups, i, k)), Len(before),
                                  Len(request),
                                  Cardinality((1 .. Len(before)) \ (R \cup Span(groups, i, k))), i)

\* select() returns the groups of the request, and the last of the others that fit.
LEMMA SelectedIs ==
  ASSUME NEW before \in Seq(Message), NEW request \in Seq(Message),
         NEW a, a = Scan(before \o request, Len(before))[Len(before \o request)],
         a.error = "none", a.open = {}
  PROVE  \E k : /\ SplitsAt(Groups(a), Len(before), k)
                /\ Len(before) + 1 .. Len(before \o request)
                     \subseteq Required(before \o request, Len(before \o request), Groups(a), k)
                /\ SelectsAfter(before, request, Groups(a), k)
<1> DEFINE s == before \o request
           given == Len(before)
           n == Len(s)
           groups == Groups(a)
           asked == given + 1 .. n
           final == Taken(s, groups, asked)
<1>1. /\ s \in Seq(Message) /\ given \in Nat /\ n \in Nat /\ n \in 0 .. Len(s)
  <2>1. s \in Seq(Message) /\ given \in Nat
    BY ConcatProperties, SeqFacts
  <2> HIDE DEF s
  <2>2. QED BY <2>1, SeqFacts
<1>2. WellScanned(a, s, n)
  BY <1>1, ScanWell
<1>4. Select(before, request)
        = IF Bytes(s, Base(s, groups, asked)) > MaxBytes THEN Raise("budget")
          ELSE Selection(final.places, Bytes(s, DOMAIN s), final.bytes, given, Len(request),
                         Cardinality((1 .. given) \ final.places), Len(groups) - final.chosen)
  <2>1. Select(before, request)
          = IF Scan(s, given)[n].error # "none" THEN Raise(Scan(s, given)[n].error)
            ELSE IF Scan(s, given)[n].open # {} THEN Raise("exchange")
            ELSE IF Bytes(s, Base(s, Groups(Scan(s, given)[n]), asked)) > MaxBytes
            THEN Raise("budget")
            ELSE Selection(Taken(s, Groups(Scan(s, given)[n]), asked).places,
                           Bytes(s, DOMAIN s),
                           Taken(s, Groups(Scan(s, given)[n]), asked).bytes, given, Len(request),
                           Cardinality((1 .. given)
                                         \ Taken(s, Groups(Scan(s, given)[n]), asked).places),
                           Len(Groups(Scan(s, given)[n]))
                             - Taken(s, Groups(Scan(s, given)[n]), asked).chosen)
    BY Zenon DEF Select
  <2> HIDE DEF s, n, given, asked
  <2>2. a = Scan(s, given)[n]
    BY DEF s, n, given
  <2>3. QED BY <2>1, <2>2, Zenon
<1> HIDE DEF s, n, final
<1>5. Ordered(groups, n)
  BY <1>2 DEF WellScanned
<1>6. PICK k : SplitsAt(groups, given, k)
  BY <1>1, <1>5, Splits
<1> DEFINE R == Required(s, n, groups, k)
<1>7. Starts(s, groups, asked, R, k) /\ R \cap Span(groups, 0, k) = {} /\ R \in SUBSET (1 .. n)
  BY <1>1, <1>2, <1>6, StartsAt DEF n
<1>8. Base(s, groups, asked) = R
  BY <1>7 DEF Starts
<1>9. asked \subseteq R
  BY <1>8 DEF Base
<1>10. k \in 0 .. Len(groups)
  BY <1>6 DEF SplitsAt
<1> HIDE DEF R, groups, asked
<1>15. Bytes(s, R) > MaxBytes <=> ~ Fits(Cost(s, R))
  <2>1. Bytes(s, R) \in Nat /\ (Bytes(s, R) <= MaxBytes <=> Fits(Cost(s, R)))
    BY <1>1, <1>7, BytesAreCost DEF n
  <2>2. QED BY <2>1, BudgetAssumption
<1>16. CASE ~ Fits(Cost(s, R))
  <2>1. Select(before, request) = Raise("budget")
    BY <1>4, <1>8, <1>15, <1>16
  <2>2. SelectsAfter(before, request, groups, k)
    BY <1>16, <2>1 DEF SelectsAfter, R, n, s
  <2>3. QED BY <1>6, <1>9, <2>2 DEF groups, asked, R, n, s
<1>17. CASE Fits(Cost(s, R))
  <2>1. PICK i : Settles(s, groups, R, k, i)
    BY <1>1, <1>5, <1>7, <1>10, <1>17, SettlesAt DEF n
  <2> DEFINE P == R \cup Span(groups, i, k)
  <2>2. final.places = P /\ final.bytes = Bytes(s, P) /\ final.chosen = Len(groups) - i
    <3>1. TakesUpTo(final, s, groups, R, k, i)
      BY <1>1, <1>7, <2>1, TakenIs DEF final
    <3>2. QED BY <3>1 DEF TakesUpTo
  <2>3. Len(groups) - (Len(groups) - i) = i
    <3>1. Len(groups) \in Nat /\ i \in Nat
      BY <1>1, <2>1, SettlesFacts
    <3>2. QED BY <3>1
  <2>4. Select(before, request)
          = Selection(P, Bytes(s, DOMAIN s), Bytes(s, P), given, Len(request),
                      Cardinality((1 .. given) \ P), i)
    BY <1>4, <1>8, <1>15, <1>17, <2>2, <2>3
  <2>5. SelectsAfter(before, request, groups, k)
    BY <1>17, <2>1, <2>4 DEF SelectsAfter, R, n, s
  <2>6. QED BY <1>6, <1>9, <2>5 DEF groups, asked, R, n, s
<1>18. QED BY <1>16, <1>17

FaultsOf(s) == {i \in 1 .. Len(s) : Fault(s, i)}
FirstOf(S) == CHOOSE i \in S : \A j \in S : i <= j

LEMMA PromisedIs ==
  ASSUME NEW before, NEW request
  PROVE  LET s == before \o request
             given == Len(before)
             cut == FirstOf(FittingOf(s, given))
             places == Kept(s, cut)
         IN Promised(before, request)
              = IF FaultsOf(s) # {} THEN Raise(Why(s, FirstOf(FaultsOf(s))))
                ELSE IF Prefix(s)[Len(s)] # {} THEN Raise("exchange")
                ELSE IF FittingOf(s, given) = {} THEN Raise("budget")
                ELSE Selection(places, Bytes(s, DOMAIN s), Bytes(s, places), given, Len(request),
                               Cardinality((1 .. given) \ places),
                               Cardinality({i \in AllCuts(s, given) : i < cut}))
BY Zenon DEF Promised, FirstOf, FittingOf, FaultsOf, Fault, Why, AllCuts

LEMMA SelectedAsPromised ==
  ASSUME NEW before \in Seq(Message), NEW request \in Seq(Message), Said(before \o request)
  PROVE  Select(before, request) = Promised(before, request)
<1> DEFINE s == before \o request
           given == Len(before)
           n == Len(s)
           a == Scan(s, given)[n]
           groups == Groups(a)
           cut == FirstOf(FittingOf(s, given))
           places == Kept(s, cut)
<1>1. /\ s \in Seq(Message) /\ given \in Nat /\ n \in Nat /\ n \in 0 .. Len(s)
      /\ given \in 0 .. Len(s)
  <2>1. /\ s \in Seq(Message) /\ given \in Nat /\ Len(request) \in Nat
        /\ n = given + Len(request)
    BY ConcatProperties, SeqFacts
  <2> HIDE DEF s, n
  <2>2. n \in Nat /\ n \in 0 .. n /\ given \in 0 .. n
    BY <2>1
  <2>3. QED BY <2>1, <2>2 DEF n
<1>2. Said(s)
  OBVIOUS
<1>3. Reads(a, s, n) /\ WellScanned(a, s, n)
  BY <1>1, <1>2, ScanReads, ScanWell
<1>4. Promised(before, request)
        = IF FaultsOf(s) # {} THEN Raise(Why(s, FirstOf(FaultsOf(s))))
          ELSE IF Prefix(s)[n] # {} THEN Raise("exchange")
          ELSE IF FittingOf(s, given) = {} THEN Raise("budget")
          ELSE Selection(places, Bytes(s, DOMAIN s), Bytes(s, places), given, Len(request),
                         Cardinality((1 .. given) \ places),
                         Cardinality({i \in AllCuts(s, given) : i < cut}))
  BY PromisedIs, Zenon
<1>5. a.error # "none" => Select(before, request) = Raise(a.error)
  BY Zenon DEF Select
<1>6. a.error = "none" /\ a.open # {} => Select(before, request) = Raise("exchange")
  BY Zenon DEF Select
<1>7. a = Scan(before \o request, Len(before))[Len(before \o request)]
  OBVIOUS
<1>8. a.error = "none" => Cutting(a, s, given, n)
  BY <1>1, <1>2, ScanCuts
<1> HIDE DEF s, n, a, places, cut
<1>9. CASE a.error # "none"
  <2>1. PICK i : FirstFault(s, n, i) /\ a.error = Why(s, i)
    BY <1>3, <1>9 DEF Reads
  <2>2. IsLeast(i, FaultsOf(s)) /\ FaultsOf(s) \in SUBSET Nat
    <3>1. i \in FaultsOf(s)
      BY <2>1 DEF FirstFault, FaultsOf, n
    <3>2. ASSUME NEW j \in FaultsOf(s) PROVE i <= j
      <4>1. j \in 1 .. n /\ i \in 1 .. n /\ j \notin 1 .. i - 1
        BY <2>1 DEF FirstFault, FaultsOf, n
      <4>2. QED BY <1>1, <4>1
    <3>3. FaultsOf(s) \in SUBSET Nat
      BY DEF FaultsOf
    <3>4. QED BY <3>1, <3>2, <3>3 DEF IsLeast
  <2>3. FirstOf(FaultsOf(s)) = i
    BY <2>2, LeastIs DEF FirstOf
  <2>4. FaultsOf(s) # {}
    BY <2>2 DEF IsLeast
  <2>5. QED BY <1>4, <1>5, <1>9, <2>1, <2>3, <2>4
<1>10. ASSUME a.error = "none" PROVE FaultsOf(s) = {} /\ a.open = Prefix(s)[n]
  BY <1>3, <1>10 DEF Reads, FaultsOf, n
<1>11. CASE a.error = "none" /\ a.open # {}
  BY <1>4, <1>6, <1>10, <1>11
<1>12. CASE a.error = "none" /\ a.open = {}
  <2>1. PICK k : /\ SplitsAt(groups, given, k)
                 /\ given + 1 .. n \subseteq Required(s, n, groups, k)
                 /\ SelectsAfter(before, request, groups, k)
    BY <1>7, <1>12, SelectedIs DEF s, n
  <2> DEFINE R == Required(s, n, groups, k)
  <2>2. PICK cuts : CutAt(cuts, s, given, groups, k)
    BY <1>1, <1>2, <1>3, <1>8, <1>12, <2>1, CutsAt DEF n
  <2>3. /\ groups \in Seq(SUBSET (1 .. n)) /\ k \in Nat /\ k <= Len(groups)
    BY <1>3, <2>1, SeqFacts DEF WellScanned, Ordered, SplitsAt
  <2> HIDE DEF groups
  <2>4. CASE ~ Fits(Cost(s, R))
    <3>1. Select(before, request) = Raise("budget")
      BY <2>1, <2>4 DEF SelectsAfter, s, n
    <3>2. FittingOf(s, given) = {}
      BY <1>1, <2>2, <2>3, <2>4, NoCutFits DEF n
    <3>3. QED BY <1>4, <1>10, <1>12, <3>1, <3>2
  <2>5. CASE Fits(Cost(s, R))
    <3>1. PICK i : /\ Settles(s, groups, R, k, i)
                   /\ Select(before, request)
                        = Selection(R \cup Span(groups, i, k), Bytes(s, DOMAIN s),
                                    Bytes(s, R \cup Span(groups, i, k)), given, Len(request),
                                    Cardinality((1 .. given) \ (R \cup Span(groups, i, k))), i)
      BY <2>1, <2>5 DEF SelectsAfter, s, n
    <3>2. /\ i \in 0 .. k /\ IsLeast(cuts[i], FittingOf(s, given))
          /\ Cardinality({c \in AllCuts(s, given) : c < cuts[i]}) = i
      <4>1. FirstToFit(cuts, i, s, given, k)
        BY <1>2, <2>2, <3>1, FittingCuts DEF n
      <4>2. QED BY <4>1 DEF FirstToFit
    <3>3. FittingOf(s, given) \in SUBSET Nat
      BY <2>2 DEF FittingOf, CutAt
    <3>4. cut = cuts[i]
      BY <3>2, <3>3, LeastIs DEF cut, FirstOf
    <3>5. FittingOf(s, given) # {}
      BY <3>2 DEF IsLeast
    <3>6. places = R \cup Span(groups, i, k)
      BY <2>2, <3>2, <3>4 DEF places, CutAt, n
    <3>7. Cardinality({c \in AllCuts(s, given) : c < cut}) = i
      BY <3>2, <3>4
    <3> HIDE DEF R
    <3>8. QED BY <1>4, <1>10, <1>12, <3>1, <3>5, <3>6, <3>7
  <2>6. QED BY <2>4, <2>5
<1>13. QED BY <1>9, <1>11, <1>12

\* What select() returns is what is promised: whole turns, the newest that fit, with the
\* system messages and the request, and right counts.
THEOREM SelectsAsPromised == Spec => []SelectAsPromised
<1>1. StreamInv => SelectAsPromised
  <2> SUFFICES ASSUME StreamInv PROVE Select(history, current) = Promised(history, current)
    BY DEF SelectAsPromised
  <2>1. history \in Seq(Message) /\ current \in Seq(Message) /\ history \o current \in Seq(Message)
    BY HeardFacts DEF StreamInv
  <2>2. Said(history \o current)
    <3>1. history \o current \in Seq(Messages)
      BY ConcatProperties DEF StreamInv, HeardOK
    <3>2. \A i \in 1 .. Len(history \o current) : (history \o current)[i] \in Messages
      BY <3>1, SeqFacts
    <3>3. QED BY <2>1, <3>2, MessagesAssumption DEF Said
  <2>3. QED BY <2>1, <2>2, SelectedAsPromised
<1>2. QED BY <1>1, StreamInvHolds, PTL

-----------------------------------------------------------------------------
(* The messages of a selection, for a host that sends them on.               *)

ChoosesInOrder(f, s, P) ==
  f = [k \in 0 .. Len(s) |-> IF k = 0 THEN <<>>
                             ELSE IF k \in P THEN Append(f[k - 1], s[k]) ELSE f[k - 1]]

ChoosesFrom(f, s, P) ==
  /\ f[0] = <<>>
  /\ \A k \in 1 .. Len(s) : f[k] = IF k \in P THEN Append(f[k - 1], s[k]) ELSE f[k - 1]

LEMMA ChosenSteps ==
  ASSUME NEW s \in Seq(Message), NEW P
  PROVE  \E f \in [0 .. Len(s) -> Seq(Message)] :
           ChoosesFrom(f, s, P) /\ Chosen(s, P) = f[Len(s)]
<1> DEFINE N == Len(s)
           S == Seq(Message)
           step == [p \in S \X (1 .. N) |-> IF p[2] \in P THEN Append(p[1], s[p[2]]) ELSE p[1]]
<1>1. N \in Nat /\ \A k \in 1 .. N : s[k] \in Message
  BY SeqFacts
<1>2. <<>> \in S
  OBVIOUS
<1> HIDE DEF N
<1>3. \A c \in S, k \in 1 .. N : Append(c, s[k]) \in S
  BY <1>1, AppendFacts
<1> HIDE DEF S
<1>4. \A c \in S, k \in 1 .. N : step[<<c, k>>] = IF k \in P THEN Append(c, s[k]) ELSE c
  OBVIOUS
<1>5. step \in [S \X (1 .. N) -> S]
  <2>1. ASSUME NEW p \in S \X (1 .. N)
        PROVE  (IF p[2] \in P THEN Append(p[1], s[p[2]]) ELSE p[1]) \in S
    BY <1>3
  <2>2. QED BY <2>1
<1> HIDE DEF step
<1>6. PICK f \in [0 .. N -> S] : Recurs(f, <<>>, step, N)
  BY <1>1, <1>2, <1>5, Recursion
<1>7. ChoosesFrom(f, s, P)
  <2>1. f[0] = <<>> /\ \A k \in 1 .. N : f[k] = step[<<f[k - 1], k>>]
    BY <1>6 DEF Recurs
  <2>2. \A k \in 1 .. N : k - 1 \in 0 .. N /\ f[k - 1] \in S
    BY <1>1
  <2>3. QED BY <1>4, <2>1, <2>2 DEF ChoosesFrom, N
<1>8. ChoosesInOrder(f, s, P)
  <2>1. ASSUME NEW k \in 0 .. N
        PROVE  f[k] = IF k = 0 THEN <<>>
                      ELSE IF k \in P THEN Append(f[k - 1], s[k]) ELSE f[k - 1]
    <3>1. k = 0 \/ k \in 1 .. N
      BY <1>1
    <3>2. CASE k = 0
      BY <1>7, <3>2 DEF ChoosesFrom
    <3>3. CASE k # 0
      BY <1>7, <3>1, <3>3 DEF ChoosesFrom, N
    <3>4. QED BY <3>2, <3>3
  <2>2. QED BY <2>1, Zenon DEF ChoosesInOrder, N
<1> DEFINE g == CHOOSE x : ChoosesInOrder(x, s, P)
<1>9. Chosen(s, P) = g[Len(s)]
  BY Zenon DEF Chosen, ChoosesInOrder
<1>10. ChoosesInOrder(g, s, P)
  BY <1>8, Zenon
<1> HIDE DEF g
<1>11. ChoosesFrom(g, s, P)
  <2>1. \A k \in 0 .. N : g[k] = IF k = 0 THEN <<>>
                                 ELSE IF k \in P THEN Append(g[k - 1], s[k]) ELSE g[k - 1]
    BY <1>10, Zenon DEF ChoosesInOrder, N
  <2>2. 0 \in 0 .. N /\ \A k \in 1 .. N : k \in 0 .. N /\ k # 0
    BY <1>1
  <2>3. QED BY <2>1, <2>2, Zenon DEF ChoosesFrom, N
<1>12. Alike(f, g, N)
  BY <1>7, <1>11 DEF ChoosesFrom, Alike, N
<1>13. f[N] = g[N]
  BY <1>1, <1>12, Agree
<1>14. QED BY <1>6, <1>7, <1>9, <1>13 DEF N, S

\* The sequence of a selection costs what its places cost.
LEMMA ChosenCosts ==
  ASSUME NEW s \in Seq(Message), NEW P \in SUBSET (1 .. Len(s)),
         NEW f \in [0 .. Len(s) -> Seq(Message)], ChoosesFrom(f, s, P)
  PROVE  Cost(f[Len(s)], 1 .. Len(f[Len(s)])) = Cost(s, P)
<1> DEFINE N == Len(s)
           sizes == SizesOf(s, P)
           counted(k) == Cost(f[k], 1 .. Len(f[k])) = Total(sizes, k) + Cardinality(P \cap 1 .. k)
           T == {k \in Nat : k <= N => counted(k)}
<1>1. /\ N \in Nat /\ DOMAIN s = 1 .. N /\ \A k \in 1 .. N : s[k] \in Message
  BY SeqFacts
<1>2. Numbers(sizes, N) /\ Sized(s, P) = Total(sizes, N)
  BY SizesFacts
<1>3. \A k \in 1 .. N : sizes[k] = IF k \in P THEN s[k].size ELSE 0
  BY <1>1 DEF SizesOf
<1> HIDE DEF N, sizes
<1>4. counted(0)
  <2>1. f[0] = <<>> /\ <<>> \in Seq(Message) /\ Len(<<>>) = 0 /\ 1 .. 0 = {}
        /\ P \cap 1 .. 0 = {}
    BY DEF ChoosesFrom
  <2>2. {} \in SUBSET (1 .. Len(<<>>))
    OBVIOUS
  <2>3. Cost(<<>>, {}) = 0
    BY <2>1, <2>2, CostNone
  <2>4. Total(sizes, 0) = 0 /\ Cardinality({}) = 0
    BY TotalNone, FS_EmptySet
  <2>5. QED BY <2>1, <2>3, <2>4
<1>5. ASSUME NEW k \in Nat, k + 1 <= N, counted(k) PROVE counted(k + 1)
  <2> DEFINE c == f[k]
             m == s[k + 1]
             A == P \cap 1 .. k
  <2>1. k \in 0 .. N /\ k + 1 \in 1 .. N /\ (k + 1) - 1 = k
    BY <1>1, <1>5
  <2>2. c \in Seq(Message) /\ m \in Message /\ Len(c) \in Nat /\ m.size \in Nat
    <3>1. c \in Seq(Message) /\ m \in Message
      BY <1>1, <2>1 DEF N
    <3>2. QED BY <3>1, SeqFacts DEF Message
  <2>3. Total(sizes, k + 1) = Total(sizes, k) + sizes[k + 1] /\ Total(sizes, k) \in Nat
    <3>1. Numbers(sizes, k + 1) /\ Numbers(sizes, k)
      BY <1>1, <1>2, <1>5 DEF Numbers
    <3>2. QED BY <3>1, TotalNext, TotalNat
  <2>4. A \in SUBSET (1 .. k) /\ IsFiniteSet(A) /\ Cardinality(A) \in Nat
    BY PlacesFinite
  <2>5. Cost(c, 1 .. Len(c)) = Total(sizes, k) + Cardinality(A)
    BY <1>5
  <2>6. f[k + 1] = IF k + 1 \in P THEN Append(c, m) ELSE c
    <3>1. f[k + 1] = IF k + 1 \in P THEN Append(f[(k + 1) - 1], s[k + 1]) ELSE f[(k + 1) - 1]
      BY <2>1, Zenon DEF ChoosesFrom, N
    <3>2. QED BY <2>1, <3>1
  <2> DEFINE B == P \cap 1 .. k + 1
  <2>7. B = IF k + 1 \in P THEN A \cup {k + 1} ELSE A
    BY <2>1
  <2>8. k + 1 \notin A
    BY <2>1
  <2>9. sizes[k + 1] = IF k + 1 \in P THEN m.size ELSE 0
    BY <1>3, <2>1
  <2> HIDE DEF c, m, A, B
  <2>10. CASE k + 1 \in P
    <3>1. Cardinality(B) = Cardinality(A) + 1
      BY <2>4, <2>7, <2>8, <2>10, FS_AddElement
    <3>2. Len(Append(c, m)) = Len(c) + 1
      BY <2>2, AppendFacts
    <3>3. 1 .. Len(c) + 1 = (1 .. Len(c)) \cup {Len(c) + 1}
      BY <2>2
    <3>4. Cost(Append(c, m), (1 .. Len(c)) \cup {Len(c) + 1}) = Cost(c, 1 .. Len(c)) + m.size + 1
      <4>1. 1 .. Len(c) \in SUBSET (1 .. Len(c))
        OBVIOUS
      <4>2. QED BY <2>2, <4>1, CostAppend
    <3>5. Cost(f[k + 1], 1 .. Len(f[k + 1])) = Cost(c, 1 .. Len(c)) + m.size + 1
      BY <2>6, <2>10, <3>2, <3>3, <3>4
    <3> DEFINE total == Total(sizes, k)
               count == Cardinality(A)
               size == m.size
    <3>6. /\ Cost(f[k + 1], 1 .. Len(f[k + 1])) = (total + count) + size + 1
          /\ Total(sizes, k + 1) + Cardinality(B) = (total + size) + (count + 1)
      BY <2>3, <2>5, <2>9, <2>10, <3>1, <3>5
    <3>7. total \in Nat /\ count \in Nat /\ size \in Nat
      BY <2>2, <2>3, <2>4
    <3> HIDE DEF total, count, size
    <3>8. (total + count) + size + 1 = (total + size) + (count + 1)
      BY <3>7
    <3>9. Cost(f[k + 1], 1 .. Len(f[k + 1])) = Total(sizes, k + 1) + Cardinality(B)
      BY <3>6, <3>8
    <3>10. QED BY <3>9 DEF B
  <2>11. CASE k + 1 \notin P
    <3>1. Cost(f[k + 1], 1 .. Len(f[k + 1])) = Total(sizes, k + 1) + Cardinality(B)
      BY <2>3, <2>4, <2>5, <2>6, <2>7, <2>9, <2>11
    <3>2. QED BY <3>1 DEF B
  <2>12. QED BY <2>10, <2>11
<1> HIDE DEF counted
<1>6. 0 \in T /\ \A k \in Nat : k \in T => k + 1 \in T
  BY <1>1, <1>4, <1>5
<1> HIDE DEF T
<1>7. N \in T
  BY <1>1, <1>6, Induction
<1>8. counted(N)
  BY <1>1, <1>7 DEF T
<1>9. P \cap 1 .. N = P
  BY DEF N
<1>10. QED BY <1>2, <1>8, <1>9 DEF counted, Cost, N

ListOf(list, s, P) ==
  /\ list \in Seq(Message) /\ Len(list) \in Nat
  /\ Bytes(list, DOMAIN list) = Bytes(s, P)
  /\ Len(s) \in P => list # <<>> /\ list[Len(list)] = s[Len(s)]

LEMMA ChosenFacts ==
  ASSUME NEW s \in Seq(Message), NEW P \in SUBSET (1 .. Len(s))
  PROVE  ListOf(Chosen(s, P), s, P)
<1> DEFINE N == Len(s)
<1>1. PICK f \in [0 .. N -> Seq(Message)] : ChoosesFrom(f, s, P) /\ Chosen(s, P) = f[N]
  BY ChosenSteps
<1>2. N \in Nat /\ \A k \in 1 .. N : s[k] \in Message
  BY SeqFacts
<1>3. Cost(f[N], 1 .. Len(f[N])) = Cost(s, P)
  BY <1>1, ChosenCosts
<1> HIDE DEF N
<1> DEFINE list == f[N]
<1>4. list \in Seq(Message) /\ Len(list) \in Nat /\ DOMAIN list = 1 .. Len(list)
  <2>1. list \in Seq(Message)
    BY <1>1, <1>2
  <2>2. QED BY <2>1, SeqFacts
<1> HIDE DEF list
<1>5. Bytes(list, DOMAIN list) = Bytes(s, P)
  <2>1. 1 .. Len(list) \in SUBSET (1 .. Len(list))
    OBVIOUS
  <2>2. Bytes(list, 1 .. Len(list)) = ListBytes(Cost(list, 1 .. Len(list)))
    BY <1>4, <2>1, BytesAreCost
  <2>3. Bytes(s, P) = ListBytes(Cost(s, P))
    BY BytesAreCost
  <2>4. QED BY <1>3, <1>4, <2>2, <2>3 DEF list
<1>6. ASSUME N \in P PROVE list # <<>> /\ list[Len(list)] = s[N]
  <2>1. N \in 1 .. N /\ N - 1 \in 0 .. N
    BY <1>2, <1>6 DEF N
  <2>2. list = Append(f[N - 1], s[N])
    BY <1>1, <1>6, <2>1 DEF ChoosesFrom, N, list
  <2>3. f[N - 1] \in Seq(Message) /\ s[N] \in Message
    BY <1>1, <1>2, <2>1
  <2>4. Len(list) = Len(f[N - 1]) + 1 /\ list[Len(f[N - 1]) + 1] = s[N] /\ Len(f[N - 1]) \in Nat
    BY <2>2, <2>3, AppendFacts, SeqFacts
  <2>5. Len(<<>>) = 0
    OBVIOUS
  <2>6. QED BY <2>4, <2>5
<1>7. QED BY <1>1, <1>4, <1>5, <1>6 DEF ListOf, list, N

LEMMA BytesAppend ==
  ASSUME NEW s \in Seq(Message), s # <<>>, NEW m \in Message
  PROVE  Bytes(Append(s, m), DOMAIN Append(s, m)) = Bytes(s, DOMAIN s) + m.size + 1
<1> DEFINE t == Append(s, m)
           n == Len(s)
<1>1. /\ n \in Nat /\ n # 0 /\ DOMAIN s = 1 .. n /\ t \in Seq(Message) /\ Len(t) = n + 1
      /\ DOMAIN t = 1 .. n + 1 /\ m.size \in Nat
  BY SeqFacts, AppendFacts, EmptySeq DEF Message
<1> HIDE DEF t, n
<1>2. 1 .. n # {} /\ 1 .. n + 1 # {} /\ 1 .. n + 1 = (1 .. n) \cup {n + 1}
  <2>1. 1 \in 1 .. n /\ 1 \in 1 .. n + 1
    BY <1>1
  <2>2. \A i : i \in 1 .. n + 1 <=> i \in 1 .. n \/ i = n + 1
    BY <1>1
  <2>3. QED BY <2>1, <2>2
<1>3. Cost(t, (1 .. n) \cup {n + 1}) = Cost(s, 1 .. n) + m.size + 1
  BY CostAppend DEF t, n
<1>4. 1 .. n \in SUBSET (1 .. Len(s)) /\ 1 .. n + 1 \in SUBSET (1 .. Len(t))
  BY <1>1 DEF n
<1>5. Bytes(s, 1 .. n) = Cost(s, 1 .. n) + 1 /\ Bytes(t, 1 .. n + 1) = Cost(t, 1 .. n + 1) + 1
  BY <1>1, <1>2, <1>4, BytesAreCost
<1>6. Cost(s, 1 .. n) \in Nat
  BY <1>4, CostNat
<1> DEFINE old == Cost(s, 1 .. n)
<1> HIDE DEF old
<1>7. Bytes(t, 1 .. n + 1) = (old + m.size + 1) + 1 /\ Bytes(s, 1 .. n) = old + 1 /\ old \in Nat
  BY <1>2, <1>3, <1>5, <1>6 DEF old
<1>8. Bytes(t, DOMAIN t) = (old + m.size + 1) + 1 /\ Bytes(s, DOMAIN s) = old + 1
  BY <1>1, <1>7
<1>9. (old + m.size + 1) + 1 = (old + 1) + m.size + 1
  BY <1>1, <1>7, SMTT(30)
<1>10. QED BY <1>8, <1>9 DEF t

\* What a request comes with: its selection within the budget, and itself at the end.
Delivered(input, request) ==
  /\ input \in Seq(Message) /\ Len(input) \in Nat /\ input # <<>>
  /\ Bytes(input, DOMAIN input) \in Nat /\ Bytes(input, DOMAIN input) <= MaxBytes
  /\ input[Len(input)] = request[Len(request)]

LEMMA SelectDelivers ==
  ASSUME NEW before \in Seq(Message), NEW request \in Seq(Message), Said(before \o request),
         request # <<>>, Select(before, request).kind # "raised"
  PROVE  Delivered(Chosen(before \o request, Select(before, request).places), request)
<1> DEFINE s == before \o request
           given == Len(before)
           n == Len(s)
           cut == FirstOf(FittingOf(s, given))
           places == Kept(s, cut)
           picked == Select(before, request)
<1>1. /\ s \in Seq(Message) /\ given \in Nat /\ Len(request) \in Nat /\ Len(request) # 0
      /\ n = given + Len(request) /\ s[n] = request[Len(request)]
  <2>1. /\ s \in Seq(Message) /\ given \in Nat /\ Len(request) \in Nat /\ n = given + Len(request)
        /\ Len(request) # 0
    BY ConcatProperties, SeqFacts, EmptySeq
  <2>2. s[n] = request[n - given]
    BY <2>1, ConcatProperties
  <2>3. QED BY <2>1, <2>2
<1>2. picked = IF FaultsOf(s) # {} THEN Raise(Why(s, FirstOf(FaultsOf(s))))
               ELSE IF Prefix(s)[n] # {} THEN Raise("exchange")
               ELSE IF FittingOf(s, given) = {} THEN Raise("budget")
               ELSE Selection(places, Bytes(s, DOMAIN s), Bytes(s, places), given, Len(request),
                              Cardinality((1 .. given) \ places),
                              Cardinality({i \in AllCuts(s, given) : i < cut}))
  BY SelectedAsPromised, PromisedIs, Zenon
<1> HIDE DEF s, n, places, cut, picked, given
<1>3. \A why : Raise(why).kind = "raised"
  BY DEF Raise
<1>4. FittingOf(s, given) # {} /\ picked.places = places
  BY <1>2, <1>3 DEF picked, Selection
<1>5. cut \in FittingOf(s, given)
  <2>1. FittingOf(s, given) \in SUBSET Nat
    BY <1>1 DEF FittingOf, AllCuts, Cuts, Spoken
  <2>2. \E i \in FittingOf(s, given) : \A j \in FittingOf(s, given) : i <= j
    BY <1>4, <2>1, Least
  <2>3. QED BY <2>2 DEF cut, FirstOf
<1>6. cut \in AllCuts(s, given) /\ Bytes(s, places) <= MaxBytes
  BY <1>5 DEF FittingOf, places
<1>7. cut \in Nat /\ cut <= given + 1 /\ cut >= 1
  BY <1>1, <1>6 DEF AllCuts, Cuts, Spoken
<1>8. n \in Nat /\ cut <= n /\ n \in cut .. n
  BY <1>1, <1>7
<1>9. places \in SUBSET (1 .. n) /\ n \in places
  <2>1. cut .. n \subseteq 1 .. n
    BY <1>7, <1>8
  <2>2. QED BY <1>8, <2>1 DEF places, Kept, n
<1>10. ListOf(Chosen(s, places), s, places)
  BY <1>1, <1>9, ChosenFacts DEF n
<1>11. Bytes(s, places) \in Nat
  BY <1>1, <1>9, BytesAreCost DEF n
<1> DEFINE list == Chosen(s, places)
<1>12. /\ list \in Seq(Message) /\ Len(list) \in Nat
       /\ Bytes(list, DOMAIN list) = Bytes(s, places)
       /\ list # <<>> /\ list[Len(list)] = s[n]
  BY <1>9, <1>10 DEF ListOf, n
<1> HIDE DEF list
<1>13. Delivered(list, request)
  BY <1>1, <1>6, <1>11, <1>12 DEF Delivered
<1>14. QED BY <1>4, <1>13 DEF list, picked, s
=============================================================================
