-------------------------- MODULE SelectionProofs --------------------------
(* What Kept does, for all sequences and sets of positions.                *)
EXTENDS Selection, SequenceTheorems, WellFoundedInduction, TLAPS

(* Induction over the numbers, for sets.                                   *)
LEMMA NatInd ==
    ASSUME NEW T, 0 \in T, \A n \in Nat : n \in T => n + 1 \in T
    PROVE  Nat \subseteq T
<1> SUFFICES ASSUME Nat \ T # {} PROVE FALSE
  OBVIOUS
<1>1. IsWellFoundedOn(OpToRel(<, Nat), Nat)
  BY NatLessThanWellFounded
<1> DEFINE U == Nat \ T
<1>2. U \subseteq Nat /\ U # {}
  OBVIOUS
<1> HIDE DEF U
<1>3. \E x \in U : \A y \in U : ~(<<y, x>> \in OpToRel(<, Nat))
  BY <1>1, <1>2, WFMin
<1>a. PICK x \in U : \A y \in U : ~(<<y, x>> \in OpToRel(<, Nat))
  BY <1>3
<1>b. \A y \in U : ~(y < x)
  BY <1>2, <1>a DEF OpToRel
<1>4. x \in Nat /\ x \notin T
  BY <1>2, <1>a DEF U
<1>5. x # 0 /\ x - 1 \in Nat /\ x - 1 \notin U
  BY <1>4, <1>b, <1>2
<1>6. x - 1 \in T
  BY <1>5 DEF U
<1> QED
  BY <1>4, <1>5, <1>6

(* The function in the definition of Kept.                                 *)
IsKept(f, s, I) ==
    f = [i \in 0 .. Len(s) |->
            IF i = 0 THEN <<>>
            ELSE IF i \in I THEN Append(f[i - 1], s[i]) ELSE f[i - 1]]

(* The function in the definition of Kept exists.                          *)
LEMMA KeptExists ==
    ASSUME NEW S, NEW s \in Seq(S), NEW I
    PROVE  \E f : IsKept(f, s, I)
<1> DEFINE Value(f, i) == IF i = 0 THEN <<>>
                          ELSE IF i \in I THEN Append(f[i - 1], s[i]) ELSE f[i - 1]
           T == {n \in Nat : \E f : f = [i \in 0 .. n |-> Value(f, i)]}
<1>1. 0 \in T
  <2> DEFINE f == [i \in 0 .. 0 |-> <<>>]
  <2>1. f = [i \in 0 .. 0 |-> Value(f, i)]
    OBVIOUS
  <2> QED
    BY <2>1
<1>2. ASSUME NEW n \in Nat, n \in T PROVE n + 1 \in T
  <2>1. PICK f : f = [i \in 0 .. n |-> Value(f, i)]
    BY <1>2
  <2> DEFINE g == [i \in 0 .. n + 1 |-> IF i = n + 1 THEN Value(f, i) ELSE f[i]]
  <2>2. \A i \in 0 .. n : g[i] = f[i]
    OBVIOUS
  <2>3. \A i \in 0 .. n + 1 : Value(g, i) = Value(f, i)
    <3> TAKE i \in 0 .. n + 1
    <3>1. CASE i = 0
      BY <3>1
    <3>2. CASE i # 0
      <4>1. i - 1 \in 0 .. n
        BY <3>2
      <4>2. g[i - 1] = f[i - 1]
        BY <4>1, <2>2
      <4> HIDE DEF g
      <4> QED
        BY <3>2, <4>2
    <3> QED
      BY <3>1, <3>2
  <2>4. \A i \in 0 .. n : f[i] = Value(f, i)
    BY <2>1
  <2>5. \A i \in 0 .. n + 1 : g[i] = Value(g, i)
    <3> TAKE i \in 0 .. n + 1
    <3>1. CASE i = n + 1
      BY <3>1, <2>3
    <3>2. CASE i # n + 1
      <4>1. i \in 0 .. n
        BY <3>2
      <4>2. g[i] = f[i] /\ f[i] = Value(f, i) /\ Value(g, i) = Value(f, i)
        BY <4>1, <2>2, <2>3, <2>4
      <4> QED
        BY <4>2, Zenon
    <3> QED
      BY <3>1, <3>2
  <2>6. g = [i \in 0 .. n + 1 |-> Value(g, i)]
    <3> DEFINE h == [i \in 0 .. n + 1 |-> Value(g, i)]
    <3>1. DOMAIN g = 0 .. n + 1 /\ g = [i \in DOMAIN g |-> g[i]]
      BY Zenon
    <3> HIDE DEF g
    <3>2. DOMAIN h = 0 .. n + 1 /\ h = [i \in DOMAIN h |-> h[i]]
          /\ \A i \in 0 .. n + 1 : h[i] = Value(g, i)
      OBVIOUS
    <3>3. \A i \in 0 .. n + 1 : g[i] = h[i]
      BY <2>5, <3>2, Zenon
    <3> HIDE DEF h
    <3>4. g = h
      BY <3>1, <3>2, <3>3
    <3> QED
      BY <3>4 DEF h
  <2>7. \E h : h = [i \in 0 .. n + 1 |-> Value(h, i)]
    <3> HIDE DEF g
    <3> WITNESS g
    <3> QED
      BY <2>6
  <2>8. n + 1 \in Nat
    OBVIOUS
  <2> QED
    BY <2>7, <2>8
<1>3. Nat \subseteq T
  <2> HIDE DEF T
  <2> QED
    BY <1>1, <1>2, NatInd
<1>4. Len(s) \in Nat
  OBVIOUS
<1> QED
  BY <1>3, <1>4 DEF IsKept

(* What Kept yields, by its recursive function.                            *)
LEMMA KeptIs ==
    ASSUME NEW S, NEW s \in Seq(S), NEW I
    PROVE  \E f : IsKept(f, s, I) /\ Kept(s, I) = f[Len(s)]
<1> DEFINE c == CHOOSE f : IsKept(f, s, I)
<1>1. IsKept(c, s, I)
  BY KeptExists
<1>2. Kept(s, I) = c[Len(s)]
  BY Zenon DEF Kept, IsKept
<1> QED
  BY <1>1, <1>2

(* The values of that function.                                            *)
LEMMA KeptValue ==
    ASSUME NEW S, NEW s \in Seq(S), NEW I, NEW f, IsKept(f, s, I)
    PROVE  /\ f[0] = <<>>
           /\ \A i \in 1 .. Len(s) :
                 f[i] = IF i \in I THEN Append(f[i - 1], s[i]) ELSE f[i - 1]
<1>1. f = [i \in 0 .. Len(s) |->
            IF i = 0 THEN <<>>
            ELSE IF i \in I THEN Append(f[i - 1], s[i]) ELSE f[i - 1]]
  BY DEF IsKept
<1>2. ASSUME NEW i \in 0 .. Len(s)
      PROVE  f[i] = IF i = 0 THEN <<>>
                    ELSE IF i \in I THEN Append(f[i - 1], s[i]) ELSE f[i - 1]
  BY <1>1, Zenon
<1>3. 0 \in 0 .. Len(s)
  OBVIOUS
<1>4. f[0] = <<>>
  BY <1>2, <1>3
<1>5. ASSUME NEW i \in 1 .. Len(s)
      PROVE  f[i] = IF i \in I THEN Append(f[i - 1], s[i]) ELSE f[i - 1]
  <2>1. i \in 0 .. Len(s) /\ i # 0
    OBVIOUS
  <2> QED
    BY <1>2, <2>1, Zenon
<1> QED
  BY <1>4, <1>5

(* Two such functions agree as far as the sequences and positions do.      *)
LEMMA KeptAgree ==
    ASSUME NEW S, NEW s \in Seq(S), NEW I, NEW f, IsKept(f, s, I),
           NEW t \in Seq(S), NEW J, NEW g, IsKept(g, t, J),
           NEW n \in Nat, n <= Len(s), n <= Len(t),
           \A i \in 1 .. n : s[i] = t[i] /\ (i \in I <=> i \in J)
    PROVE  f[n] = g[n]
<1> DEFINE T == {k \in Nat : k <= n => f[k] = g[k]}
<1>1. 0 \in T
  BY KeptValue
<1>2. ASSUME NEW k \in Nat, k \in T PROVE k + 1 \in T
  <2> SUFFICES ASSUME k + 1 <= n PROVE f[k + 1] = g[k + 1]
    OBVIOUS
  <2>1. f[k] = g[k]
    BY <1>2
  <2>2. k + 1 \in 1 .. n /\ k + 1 \in 1 .. Len(s) /\ k + 1 \in 1 .. Len(t) /\ (k + 1) - 1 = k
    OBVIOUS
  <2>3. f[k + 1] = IF k + 1 \in I THEN Append(f[(k + 1) - 1], s[k + 1]) ELSE f[(k + 1) - 1]
    BY <2>2, KeptValue
  <2>4. g[k + 1] = IF k + 1 \in J THEN Append(g[(k + 1) - 1], t[k + 1]) ELSE g[(k + 1) - 1]
    BY <2>2, KeptValue
  <2>5. s[k + 1] = t[k + 1] /\ (k + 1 \in I <=> k + 1 \in J)
    BY <2>2
  <2> QED
    BY <2>1, <2>2, <2>3, <2>4, <2>5
<1>3. Nat \subseteq T
  <2> HIDE DEF T
  <2> QED
    BY <1>1, <1>2, NatInd
<1> QED
  BY <1>3

(* What Kept does with the last element.                                   *)
LEMMA KeptAppend ==
    ASSUME NEW S, NEW s \in Seq(S), NEW x \in S, NEW I, NEW J,
           \A i \in 1 .. Len(s) : i \in I <=> i \in J
    PROVE  Kept(Append(s, x), J) =
             IF Len(s) + 1 \in J THEN Append(Kept(s, I), x) ELSE Kept(s, I)
<1> DEFINE t == Append(s, x)
<1>1. t \in Seq(S) /\ Len(t) = Len(s) + 1 /\ t[Len(s) + 1] = x
      /\ \A i \in 1 .. Len(s) : s[i] = t[i]
  OBVIOUS
<1> HIDE DEF t
<1>2. PICK f : IsKept(f, s, I) /\ Kept(s, I) = f[Len(s)]
  BY KeptIs
<1>3. PICK g : IsKept(g, t, J) /\ Kept(t, J) = g[Len(t)]
  BY KeptIs, <1>1
<1>4. f[Len(s)] = g[Len(s)]
  BY <1>1, <1>2, <1>3, KeptAgree
<1>5. Len(t) \in 1 .. Len(t) /\ Len(t) - 1 = Len(s)
  BY <1>1
<1>6. g[Len(t)] = IF Len(t) \in J THEN Append(g[Len(t) - 1], t[Len(t)]) ELSE g[Len(t) - 1]
  BY <1>1, <1>3, <1>5, KeptValue
<1> QED
  BY <1>1, <1>2, <1>3, <1>4, <1>5, <1>6 DEF t

(* No position is kept.                                                    *)
LEMMA KeptNone ==
    ASSUME NEW S, NEW s \in Seq(S), NEW I, \A i \in 1 .. Len(s) : i \notin I
    PROVE  Kept(s, I) = <<>>
<1>1. PICK f : IsKept(f, s, I) /\ Kept(s, I) = f[Len(s)]
  BY KeptIs
<1> DEFINE g == [i \in 0 .. Len(s) |-> <<>>]
<1>2. IsKept(g, s, {})
  BY DEF IsKept
<1>3. Len(s) \in Nat /\ g[Len(s)] = <<>>
  OBVIOUS
<1> HIDE DEF g
<1>4. f[Len(s)] = g[Len(s)]
  BY <1>1, <1>2, <1>3, KeptAgree
<1> QED
  BY <1>1, <1>3, <1>4

(* One position is kept, the last.                                         *)
LEMMA KeptLast ==
    ASSUME NEW S, NEW s \in Seq(S), NEW x \in S, NEW I,
           \A i \in 1 .. Len(s) : i \notin I, Len(s) + 1 \in I
    PROVE  Kept(Append(s, x), I) = <<x>>
<1>1. Kept(Append(s, x), I) = Append(Kept(s, {}), x)
  BY KeptAppend
<1>2. Kept(s, {}) = <<>>
  BY KeptNone
<1>3. Append(<<>>, x) = <<x>>
  OBVIOUS
<1> QED
  BY <1>1, <1>2, <1>3

(* What is kept are elements of the sequence.                              *)
LEMMA KeptTypes ==
    ASSUME NEW S, NEW s \in Seq(S), NEW I, NEW f, IsKept(f, s, I)
    PROVE  \A k \in 0 .. Len(s) : f[k] \in Seq(S)
<1> DEFINE T == {k \in Nat : k <= Len(s) => f[k] \in Seq(S)}
<1>1. 0 \in T
  <2>1. f[0] = <<>>
    BY KeptValue
  <2>2. <<>> \in Seq(S)
    OBVIOUS
  <2>3. f[0] \in Seq(S)
    BY <2>1, <2>2, Zenon
  <2> QED
    BY <2>3
<1>2. ASSUME NEW k \in Nat, k \in T PROVE k + 1 \in T
  <2> SUFFICES ASSUME k + 1 <= Len(s) PROVE f[k + 1] \in Seq(S)
    OBVIOUS
  <2>1. f[k] \in Seq(S)
    BY <1>2
  <2>2. k + 1 \in 1 .. Len(s) /\ (k + 1) - 1 = k
    OBVIOUS
  <2>3. f[k + 1] = IF k + 1 \in I THEN Append(f[(k + 1) - 1], s[k + 1]) ELSE f[(k + 1) - 1]
    BY <2>2, KeptValue
  <2> QED
    BY <2>1, <2>2, <2>3
<1>3. Nat \subseteq T
  <2> HIDE DEF T
  <2> QED
    BY <1>1, <1>2, NatInd
<1> QED
  BY <1>3

(* What is kept of the first n is what is kept of more begins with.        *)
LEMMA KeptGrows ==
    ASSUME NEW S, NEW s \in Seq(S), NEW I, NEW f, IsKept(f, s, I),
           NEW n \in Nat, NEW m \in Nat, n <= m, m <= Len(s)
    PROVE  /\ Len(f[n]) <= Len(f[m])
           /\ \A j \in 1 .. Len(f[n]) : f[m][j] = f[n][j]
           /\ (\A i \in n + 1 .. m : i \notin I) => f[m] = f[n]
<1> DEFINE Good(k) == /\ Len(f[n]) <= Len(f[k])
                      /\ \A j \in 1 .. Len(f[n]) : f[k][j] = f[n][j]
                      /\ (\A i \in n + 1 .. k : i \notin I) => f[k] = f[n]
           T == {d \in Nat : n + d <= Len(s) => Good(n + d)}
<1>t. \A k \in 0 .. Len(s) : f[k] \in Seq(S)
  BY KeptTypes
<1>1. 0 \in T
  <2>1. n + 0 = n /\ f[n] \in Seq(S)
    BY <1>t
  <2> QED
    BY <2>1
<1>2. ASSUME NEW d \in Nat, d \in T PROVE d + 1 \in T
  <2> SUFFICES ASSUME n + (d + 1) <= Len(s) PROVE Good(n + (d + 1))
    OBVIOUS
  <2>1. PICK k \in Nat : k = n + d
    OBVIOUS
  <2>2. k + 1 = n + (d + 1) /\ k + 1 \in 1 .. Len(s) /\ (k + 1) - 1 = k /\ n <= k
        /\ k \in 0 .. Len(s) /\ n \in 0 .. Len(s) /\ n + d <= Len(s)
    BY <2>1
  <2>3. Good(k)
    <3> HIDE DEF Good
    <3> QED
      BY <1>2, <2>1, <2>2
  <2>4. f[k + 1] = IF k + 1 \in I THEN Append(f[k], s[k + 1]) ELSE f[k]
    <3>1. f[k + 1] = IF k + 1 \in I THEN Append(f[(k + 1) - 1], s[k + 1]) ELSE f[(k + 1) - 1]
      BY <2>2, KeptValue
    <3> QED
      BY <3>1, <2>2
  <2>p. PICK a, b, x : a = f[n] /\ b = f[k] /\ x = s[k + 1]
    OBVIOUS
  <2>5. a \in Seq(S) /\ b \in Seq(S) /\ x \in S
    BY <1>t, <2>2, <2>p
  <2>6. Len(a) <= Len(b) /\ \A j \in 1 .. Len(a) : b[j] = a[j]
    BY <2>3, <2>p
  <2>7. Len(a) <= Len(f[k + 1]) /\ \A j \in 1 .. Len(a) : f[k + 1][j] = a[j]
    <3>1. CASE k + 1 \in I
      <4>1. f[k + 1] = Append(b, x)
        BY <3>1, <2>4, <2>p
      <4>2. Len(Append(b, x)) = Len(b) + 1 /\ \A j \in 1 .. Len(b) : Append(b, x)[j] = b[j]
        BY <2>5
      <4>3. Len(a) \in Nat /\ Len(b) \in Nat
        BY <2>5
      <4> QED
        BY <4>1, <4>2, <4>3, <2>6
    <3>2. CASE k + 1 \notin I
      BY <3>2, <2>4, <2>6, <2>p
    <3> QED
      BY <3>1, <3>2
  <2>8. (\A i \in n + 1 .. k + 1 : i \notin I) => f[k + 1] = f[n]
    <3> SUFFICES ASSUME \A i \in n + 1 .. k + 1 : i \notin I PROVE f[k + 1] = f[n]
      OBVIOUS
    <3>1. k + 1 \in n + 1 .. k + 1 /\ \A i \in n + 1 .. k : i \in n + 1 .. k + 1
      BY <2>2
    <3> QED
      BY <3>1, <2>3, <2>4
  <2>9. Good(k + 1)
    BY <2>7, <2>8, <2>p
  <2> HIDE DEF Good
  <2> QED
    BY <2>2, <2>9
<1>3. Nat \subseteq T
  <2> HIDE DEF T
  <2> QED
    BY <1>1, <1>2, NatInd
<1>4. m - n \in Nat /\ n + (m - n) = m
  OBVIOUS
<1>5. Good(m)
  <2> HIDE DEF Good
  <2> QED
    BY <1>3, <1>4
<1> QED
  BY <1>5

(* One position more, behind the others.                                   *)
LEMMA KeptStep ==
    ASSUME NEW S, NEW s \in Seq(S), NEW n \in Nat, n < Len(s), NEW I, NEW J,
           \A i \in 1 .. Len(s) : i > n => i \notin I,
           \A i \in 1 .. Len(s) : i > n + 1 => i \notin J,
           \A i \in 1 .. n : i \in I <=> i \in J
    PROVE  Kept(s, J) = IF n + 1 \in J THEN Append(Kept(s, I), s[n + 1]) ELSE Kept(s, I)
<1>1. PICK f : IsKept(f, s, I) /\ Kept(s, I) = f[Len(s)]
  BY KeptIs
<1>2. PICK g : IsKept(g, s, J) /\ Kept(s, J) = g[Len(s)]
  BY KeptIs
<1>3. f[n] = g[n]
  BY <1>1, <1>2, KeptAgree
<1>4. f[Len(s)] = f[n]
  <2>1. \A i \in n + 1 .. Len(s) : i \notin I
    OBVIOUS
  <2> QED
    BY <2>1, <1>1, KeptGrows
<1>5. g[Len(s)] = g[n + 1]
  <2>1. \A i \in (n + 1) + 1 .. Len(s) : i \notin J
    OBVIOUS
  <2>2. n + 1 \in Nat /\ n + 1 <= Len(s) /\ Len(s) \in Nat
    OBVIOUS
  <2> QED
    BY <2>1, <2>2, <1>2, KeptGrows
<1>6. g[n + 1] = IF n + 1 \in J THEN Append(g[n], s[n + 1]) ELSE g[n]
  <2>1. n + 1 \in 1 .. Len(s) /\ (n + 1) - 1 = n
    OBVIOUS
  <2>2. g[n + 1] = IF n + 1 \in J THEN Append(g[(n + 1) - 1], s[n + 1]) ELSE g[(n + 1) - 1]
    BY <2>1, <1>2, KeptValue
  <2> QED
    BY <2>1, <2>2
<1> QED
  BY <1>1, <1>2, <1>3, <1>4, <1>5, <1>6

(* What is kept of the first positions is what all that is kept begins     *)
(* with.                                                                   *)
LEMMA KeptPrefix ==
    ASSUME NEW S, NEW s \in Seq(S), NEW n \in Nat, n <= Len(s), NEW I, NEW J,
           \A i \in 1 .. Len(s) : i \in I <=> i \in J /\ i <= n
    PROVE  /\ Kept(s, I) \in Seq(S) /\ Kept(s, J) \in Seq(S)
           /\ Len(Kept(s, I)) <= Len(Kept(s, J))
           /\ \A j \in 1 .. Len(Kept(s, I)) : Kept(s, I)[j] = Kept(s, J)[j]
<1>1. PICK f : IsKept(f, s, I) /\ Kept(s, I) = f[Len(s)]
  BY KeptIs
<1>2. PICK g : IsKept(g, s, J) /\ Kept(s, J) = g[Len(s)]
  BY KeptIs
<1>3. f[n] = g[n]
  BY <1>1, <1>2, KeptAgree
<1>4. f[Len(s)] = f[n]
  <2>1. \A i \in n + 1 .. Len(s) : i \notin I
    OBVIOUS
  <2> QED
    BY <2>1, <1>1, KeptGrows
<1>5. /\ Len(g[n]) <= Len(g[Len(s)])
      /\ \A j \in 1 .. Len(g[n]) : g[Len(s)][j] = g[n][j]
  <2>1. Len(s) \in Nat
    OBVIOUS
  <2> QED
    BY <2>1, <1>2, KeptGrows
<1>6. f[Len(s)] \in Seq(S) /\ g[Len(s)] \in Seq(S)
  <2>1. Len(s) \in 0 .. Len(s)
    OBVIOUS
  <2> QED
    BY <2>1, <1>1, <1>2, KeptTypes
<1> QED
  BY <1>1, <1>2, <1>3, <1>4, <1>5, <1>6

(* Two sequences that match, one of them longer: so does what is kept of   *)
(* them.                                                                   *)
LEMMA KeptMatch ==
    ASSUME NEW S, NEW s \in Seq(S), NEW t \in Seq(S), Len(s) <= Len(t), NEW I, NEW J,
           \A i \in 1 .. Len(s) : s[i].id = t[i].id /\ (i \in I <=> i \in J)
    PROVE  /\ Kept(s, I) \in Seq(S) /\ Kept(t, J) \in Seq(S)
           /\ Len(Kept(s, I)) <= Len(Kept(t, J))
           /\ \A j \in 1 .. Len(Kept(s, I)) : Kept(s, I)[j].id = Kept(t, J)[j].id
<1>1. PICK f : IsKept(f, s, I) /\ Kept(s, I) = f[Len(s)]
  BY KeptIs
<1>2. PICK g : IsKept(g, t, J) /\ Kept(t, J) = g[Len(t)]
  BY KeptIs
<1> DEFINE Good(k) == Len(f[k]) = Len(g[k]) /\ \A j \in 1 .. Len(f[k]) : f[k][j].id = g[k][j].id
           T == {k \in Nat : k <= Len(s) => Good(k)}
<1>f. \A k \in 0 .. Len(s) : f[k] \in Seq(S)
  BY <1>1, KeptTypes
<1>g. \A k \in 0 .. Len(t) : g[k] \in Seq(S)
  BY <1>2, KeptTypes
<1>3. 0 \in T
  <2>1. f[0] = <<>> /\ g[0] = <<>>
    BY <1>1, <1>2, KeptValue
  <2> QED
    BY <2>1
<1>4. ASSUME NEW k \in Nat, k \in T PROVE k + 1 \in T
  <2> SUFFICES ASSUME k + 1 <= Len(s) PROVE Good(k + 1)
    OBVIOUS
  <2>1. k + 1 \in 1 .. Len(s) /\ k + 1 \in 1 .. Len(t) /\ (k + 1) - 1 = k
        /\ k \in 0 .. Len(s) /\ k \in 0 .. Len(t) /\ k <= Len(s)
    OBVIOUS
  <2>2. f[k + 1] = IF k + 1 \in I THEN Append(f[k], s[k + 1]) ELSE f[k]
    <3>1. f[k + 1] = IF k + 1 \in I THEN Append(f[(k + 1) - 1], s[k + 1]) ELSE f[(k + 1) - 1]
      BY <2>1, <1>1, KeptValue
    <3> QED
      BY <3>1, <2>1
  <2>3. g[k + 1] = IF k + 1 \in J THEN Append(g[k], t[k + 1]) ELSE g[k]
    <3>1. g[k + 1] = IF k + 1 \in J THEN Append(g[(k + 1) - 1], t[k + 1]) ELSE g[(k + 1) - 1]
      BY <2>1, <1>2, KeptValue
    <3> QED
      BY <3>1, <2>1
  <2>4. Good(k)
    BY <1>4, <2>1
  <2>5. s[k + 1].id = t[k + 1].id /\ (k + 1 \in I <=> k + 1 \in J)
    BY <2>1
  <2>p. PICK a, b, x, y : a = f[k] /\ b = g[k] /\ x = s[k + 1] /\ y = t[k + 1]
    OBVIOUS
  <2>6. a \in Seq(S) /\ b \in Seq(S) /\ x \in S /\ y \in S
    BY <1>f, <1>g, <2>1, <2>p
  <2>7. Len(a) = Len(b) /\ \A j \in 1 .. Len(a) : a[j].id = b[j].id
    BY <2>4, <2>p
  <2>8. CASE k + 1 \in I
    <3>1. f[k + 1] = Append(a, x) /\ g[k + 1] = Append(b, y) /\ x.id = y.id
      BY <2>8, <2>2, <2>3, <2>5, <2>p
    <3>2. /\ Len(Append(a, x)) = Len(a) + 1 /\ Append(a, x)[Len(a) + 1] = x
          /\ \A j \in 1 .. Len(a) : Append(a, x)[j] = a[j]
          /\ Len(Append(b, y)) = Len(b) + 1 /\ Append(b, y)[Len(b) + 1] = y
          /\ \A j \in 1 .. Len(b) : Append(b, y)[j] = b[j]
          /\ Len(a) \in Nat
      BY <2>6
    <3>3. ASSUME NEW j \in 1 .. Len(a) + 1 PROVE Append(a, x)[j].id = Append(b, y)[j].id
      <4>1. CASE j = Len(a) + 1
        BY <4>1, <3>1, <3>2, <2>7
      <4>2. CASE j # Len(a) + 1
        <5>1. j \in 1 .. Len(a) /\ j \in 1 .. Len(b)
          BY <4>2, <3>2, <2>7
        <5> QED
          BY <5>1, <3>2, <2>7
      <4> QED
        BY <4>1, <4>2
    <3> QED
      BY <3>1, <3>2, <3>3, <2>7
  <2>9. CASE k + 1 \notin I
    BY <2>9, <2>2, <2>3, <2>4, <2>5
  <2> QED
    BY <2>8, <2>9
<1>5. Nat \subseteq T
  <2> HIDE DEF T
  <2> QED
    BY <1>3, <1>4, NatInd
<1>6. Good(Len(s))
  <2>1. Len(s) \in Nat
    OBVIOUS
  <2> HIDE DEF Good
  <2> QED
    BY <2>1, <1>5
<1>7. /\ Len(g[Len(s)]) <= Len(g[Len(t)])
      /\ \A j \in 1 .. Len(g[Len(s)]) : g[Len(t)][j] = g[Len(s)][j]
  <2>1. Len(s) \in Nat /\ Len(t) \in Nat
    OBVIOUS
  <2> QED
    BY <2>1, <1>2, KeptGrows
<1>8. f[Len(s)] \in Seq(S) /\ g[Len(t)] \in Seq(S)
  <2>1. Len(s) \in 0 .. Len(s) /\ Len(t) \in 0 .. Len(t)
    OBVIOUS
  <2> QED
    BY <2>1, <1>f, <1>g
<1> QED
  BY <1>1, <1>2, <1>6, <1>7, <1>8
=============================================================================
