------------------------- MODULE PacketCodecProofs -------------------------
(* Proofs about the encoders and decoders of Packets: a decoder undoes its *)
(* encoder, for fields of fixed widths and for the list of rooms.          *)
EXTENDS Packets, SelectionProofs

-----------------------------------------------------------------------------
(* Where slots end: the function in the definition of Ends.                *)
AreEnds(f, widths) ==
    f = [k \in 0 .. Len(widths) |-> IF k = 0 THEN 0 ELSE f[k - 1] + widths[k]]

(* That function exists.                                                   *)
LEMMA EndsExist ==
    ASSUME NEW ws \in Seq(Nat)
    PROVE  \E f : AreEnds(f, ws)
<1> DEFINE EndAt(f, k) == IF k = 0 THEN 0 ELSE f[k - 1] + ws[k]
           T == {n \in Nat : \E f : f = [k \in 0 .. n |-> EndAt(f, k)]}
<1>1. 0 \in T
  <2> DEFINE f == [k \in 0 .. 0 |-> 0]
  <2>1. f = [k \in 0 .. 0 |-> EndAt(f, k)]
    OBVIOUS
  <2> QED
    BY <2>1
<1>2. ASSUME NEW n \in Nat, n \in T PROVE n + 1 \in T
  <2>1. PICK f : f = [k \in 0 .. n |-> EndAt(f, k)]
    BY <1>2
  <2> DEFINE g == [k \in 0 .. n + 1 |-> IF k = n + 1 THEN EndAt(f, k) ELSE f[k]]
  <2>2. \A k \in 0 .. n : g[k] = f[k]
    OBVIOUS
  <2>3. \A k \in 0 .. n + 1 : EndAt(g, k) = EndAt(f, k)
    <3> TAKE k \in 0 .. n + 1
    <3>1. CASE k = 0
      BY <3>1
    <3>2. CASE k # 0
      <4>1. k - 1 \in 0 .. n
        BY <3>2
      <4>2. g[k - 1] = f[k - 1]
        BY <4>1, <2>2
      <4> HIDE DEF g
      <4> QED
        BY <3>2, <4>2
    <3> QED
      BY <3>1, <3>2
  <2>4. \A k \in 0 .. n : f[k] = EndAt(f, k)
    BY <2>1
  <2>5. \A k \in 0 .. n + 1 : g[k] = EndAt(g, k)
    <3> TAKE k \in 0 .. n + 1
    <3>1. CASE k = n + 1
      BY <3>1, <2>3
    <3>2. CASE k # n + 1
      <4>1. k \in 0 .. n
        BY <3>2
      <4>2. g[k] = f[k] /\ f[k] = EndAt(f, k) /\ EndAt(g, k) = EndAt(f, k)
        BY <4>1, <2>2, <2>3, <2>4
      <4> QED
        BY <4>2, Zenon
    <3> QED
      BY <3>1, <3>2
  <2>6. g = [k \in 0 .. n + 1 |-> EndAt(g, k)]
    <3> DEFINE h == [k \in 0 .. n + 1 |-> EndAt(g, k)]
    <3>1. DOMAIN g = 0 .. n + 1 /\ g = [k \in DOMAIN g |-> g[k]]
      BY Zenon
    <3> HIDE DEF g
    <3>2. DOMAIN h = 0 .. n + 1 /\ h = [k \in DOMAIN h |-> h[k]]
          /\ \A k \in 0 .. n + 1 : h[k] = EndAt(g, k)
      OBVIOUS
    <3>3. \A k \in 0 .. n + 1 : g[k] = h[k]
      BY <2>5, <3>2, Zenon
    <3> HIDE DEF h
    <3>4. g = h
      BY <3>1, <3>2, <3>3
    <3> QED
      BY <3>4 DEF h
  <2>7. \E h : h = [k \in 0 .. n + 1 |-> EndAt(h, k)]
    <3> HIDE DEF g
    <3> WITNESS g
    <3> QED
      BY <2>6
  <2>8. n + 1 \in Nat
    OBVIOUS
  <2> QED
    BY <2>7, <2>8
<1>3. Nat \subseteq T
  <2> HIDE DEF T
  <2> QED
    BY <1>1, <1>2, NatInd
<1>4. Len(ws) \in Nat
  OBVIOUS
<1> QED
  BY <1>3, <1>4 DEF AreEnds

(* Each slot begins where the one before it ends.                          *)
LEMMA EndsAre ==
    ASSUME NEW ws \in Seq(Nat)
    PROVE  /\ Ends(ws)[0] = 0
           /\ \A k \in 0 .. Len(ws) : Ends(ws)[k] \in Nat
           /\ \A k \in 1 .. Len(ws) : Ends(ws)[k] = Ends(ws)[k - 1] + ws[k]
<1> DEFINE c == CHOOSE f : AreEnds(f, ws)
<1>1. AreEnds(c, ws)
  BY EndsExist
<1>2. Ends(ws) = c
  BY Zenon DEF Ends, AreEnds
<1> HIDE DEF c
<1>3. c = [k \in 0 .. Len(ws) |-> IF k = 0 THEN 0 ELSE c[k - 1] + ws[k]]
  BY <1>1 DEF AreEnds
<1>4. ASSUME NEW k \in 0 .. Len(ws)
      PROVE  c[k] = IF k = 0 THEN 0 ELSE c[k - 1] + ws[k]
  BY <1>3, Zenon
<1>5. 0 \in 0 .. Len(ws)
  OBVIOUS
<1>6. c[0] = 0
  BY <1>4, <1>5
<1>7. ASSUME NEW k \in 1 .. Len(ws) PROVE c[k] = c[k - 1] + ws[k]
  <2>1. k \in 0 .. Len(ws) /\ k # 0
    OBVIOUS
  <2> QED
    BY <1>4, <2>1, Zenon
<1> DEFINE T == {n \in Nat : n <= Len(ws) => c[n] \in Nat}
<1>8. 0 \in T
  BY <1>6
<1>9. ASSUME NEW n \in Nat, n \in T PROVE n + 1 \in T
  <2> SUFFICES ASSUME n + 1 <= Len(ws) PROVE c[n + 1] \in Nat
    OBVIOUS
  <2>1. c[n] \in Nat
    BY <1>9
  <2>2. n + 1 \in 1 .. Len(ws) /\ (n + 1) - 1 = n
    OBVIOUS
  <2>3. c[n + 1] = c[(n + 1) - 1] + ws[n + 1] /\ ws[n + 1] \in Nat
    BY <1>7, <2>2
  <2> QED
    BY <2>1, <2>2, <2>3
<1>10. Nat \subseteq T
  <2> HIDE DEF T
  <2> QED
    BY <1>8, <1>9, NatInd
<1>11. \A k \in 0 .. Len(ws) : c[k] \in Nat
  BY <1>10
<1> QED
  BY <1>2, <1>6, <1>7, <1>11

(* Slots do not overlap.                                                   *)
LEMMA EndsGrow ==
    ASSUME NEW ws \in Seq(Nat), NEW i \in 0 .. Len(ws), NEW j \in 0 .. Len(ws),
           i <= j
    PROVE  Ends(ws)[i] <= Ends(ws)[j]
<1> PICK e : e = Ends(ws)
  OBVIOUS
<1>1. /\ \A k \in 0 .. Len(ws) : e[k] \in Nat
      /\ \A k \in 1 .. Len(ws) : e[k] = e[k - 1] + ws[k] /\ ws[k] \in Nat
  BY EndsAre
<1> DEFINE T == {n \in Nat : i + n <= Len(ws) => e[i] <= e[i + n]}
<1>2. 0 \in T
  BY <1>1
<1>3. ASSUME NEW n \in Nat, n \in T PROVE n + 1 \in T
  <2> SUFFICES ASSUME i + (n + 1) <= Len(ws) PROVE e[i] <= e[i + (n + 1)]
    OBVIOUS
  <2>1. e[i] <= e[i + n]
    BY <1>3
  <2>2. PICK k \in 1 .. Len(ws) : k = i + (n + 1) /\ k - 1 = i + n
    OBVIOUS
  <2>3. e[k] = e[k - 1] + ws[k] /\ ws[k] \in Nat /\ e[k - 1] \in Nat /\ e[i] \in Nat
    BY <1>1
  <2> QED
    BY <2>1, <2>2, <2>3
<1>4. Nat \subseteq T
  <2> HIDE DEF T
  <2> QED
    BY <1>2, <1>3, NatInd
<1>5. j - i \in Nat /\ i + (j - i) = j
  OBVIOUS
<1>6. j - i \in T
  BY <1>4, <1>5
<1>7. i + (j - i) <= Len(ws) => e[i] <= e[i + (j - i)]
  BY <1>6
<1> QED
  BY <1>5, <1>7

(* The slots of one sequence behind those of another.                      *)
LEMMA EndsConcat ==
    ASSUME NEW us \in Seq(Nat), NEW ws \in Seq(Nat)
    PROVE  /\ \A k \in 0 .. Len(us) : Ends(us \o ws)[k] = Ends(us)[k]
           /\ \A k \in 0 .. Len(ws) :
                 Ends(us \o ws)[Len(us) + k] = Ends(us)[Len(us)] + Ends(ws)[k]
<1> PICK vs : vs = us \o ws
  OBVIOUS
<1>1. /\ vs \in Seq(Nat) /\ Len(vs) = Len(us) + Len(ws)
      /\ \A k \in 1 .. Len(us) : vs[k] = us[k]
      /\ \A k \in 1 .. Len(ws) : vs[Len(us) + k] = ws[k]
      /\ Len(us) \in Nat /\ Len(ws) \in Nat
  OBVIOUS
<1> PICK e : e = Ends(vs)
  OBVIOUS
<1> PICK d : d = Ends(us)
  OBVIOUS
<1> PICK f : f = Ends(ws)
  OBVIOUS
<1>2. /\ e[0] = 0 /\ \A k \in 1 .. Len(vs) : e[k] = e[k - 1] + vs[k]
      /\ \A k \in 0 .. Len(vs) : e[k] \in Nat
  BY <1>1, EndsAre
<1>3. /\ d[0] = 0 /\ \A k \in 1 .. Len(us) : d[k] = d[k - 1] + us[k]
      /\ \A k \in 0 .. Len(us) : d[k] \in Nat
  BY EndsAre
<1>4. /\ f[0] = 0 /\ \A k \in 1 .. Len(ws) : f[k] = f[k - 1] + ws[k]
      /\ \A k \in 0 .. Len(ws) : f[k] \in Nat /\ \A j \in 1 .. Len(ws) : ws[j] \in Nat
  BY EndsAre
<1> DEFINE T == {n \in Nat : n <= Len(us) => e[n] = d[n]}
<1>5. 0 \in T
  BY <1>2, <1>3
<1>6. ASSUME NEW n \in Nat, n \in T PROVE n + 1 \in T
  <2> SUFFICES ASSUME n + 1 <= Len(us) PROVE e[n + 1] = d[n + 1]
    OBVIOUS
  <2>1. e[n] = d[n]
    BY <1>6
  <2>2. PICK k : k = n + 1 /\ k \in 1 .. Len(us) /\ k \in 1 .. Len(vs) /\ k - 1 = n
    BY <1>1
  <2>3. e[k] = e[k - 1] + vs[k] /\ d[k] = d[k - 1] + us[k] /\ vs[k] = us[k]
    BY <1>1, <1>2, <1>3, <2>2
  <2> QED
    BY <2>1, <2>2, <2>3
<1>7. Nat \subseteq T
  <2> HIDE DEF T
  <2> QED
    BY <1>5, <1>6, NatInd
<1>8. \A k \in 0 .. Len(us) : e[k] = d[k]
  BY <1>7
<1> DEFINE U == {n \in Nat : n <= Len(ws) => e[Len(us) + n] = d[Len(us)] + f[n]}
<1>9. 0 \in U
  <2>1. Len(us) + 0 = Len(us) /\ Len(us) \in 0 .. Len(us) /\ d[Len(us)] \in Nat
    BY <1>1, <1>3
  <2> QED
    BY <2>1, <1>4, <1>8
<1>10. ASSUME NEW n \in Nat, n \in U PROVE n + 1 \in U
  <2> SUFFICES ASSUME n + 1 <= Len(ws)
               PROVE  e[Len(us) + (n + 1)] = d[Len(us)] + f[n + 1]
    OBVIOUS
  <2>1. e[Len(us) + n] = d[Len(us)] + f[n]
    BY <1>10
  <2>2. PICK k : k = n + 1 /\ k \in 1 .. Len(ws) /\ k - 1 = n /\ n \in 0 .. Len(ws)
    OBVIOUS
  <2>3. f[k] = f[k - 1] + ws[k] /\ f[n] \in Nat /\ ws[k] \in Nat
    BY <1>4, <2>2
  <2>4. PICK m : m = Len(us) + k /\ m \in 1 .. Len(vs) /\ m - 1 = Len(us) + n
    BY <1>1, <2>2
  <2>5. e[m] = e[m - 1] + vs[m] /\ vs[m] = ws[k]
    BY <1>1, <1>2, <2>2, <2>4
  <2>6. d[Len(us)] \in Nat
    BY <1>1, <1>3
  <2>7. e[m] = d[Len(us)] + f[k]
    <3>1. e[m - 1] = d[Len(us)] + f[n]
      BY <2>1, <2>4, Zenon
    <3>2. e[m] = (d[Len(us)] + f[n]) + ws[k]
      BY <3>1, <2>5, Zenon
    <3>3. f[k] = f[n] + ws[k]
      BY <2>2, <2>3, Zenon
    <3> QED
      BY <3>2, <3>3, <2>3, <2>6
  <2> QED
    BY <2>2, <2>4, <2>7
<1>11. Nat \subseteq U
  <2> HIDE DEF U
  <2> QED
    BY <1>9, <1>10, NatInd
<1>12. \A k \in 0 .. Len(ws) : e[Len(us) + k] = d[Len(us)] + f[k]
  BY <1>11
<1> QED
  BY <1>8, <1>12

-----------------------------------------------------------------------------
(* Buffers.                                                                *)
WriteOf(V) == [kind : {"integer", "bytes"}, w : Nat \ {0}, v : V]
SlotOf(V) == [at : Int, w : Int, v : V]

(* What was written at position i with width w is v.                       *)
Holds(p, i, w, v) ==
    /\ \E s \in p.data : s.at = i /\ s.w = w
    /\ \A s \in p.data : s.at = i /\ s.w = w => s.v = v

(* Reading finds what was written there.                                   *)
LEMMA ReadHolds ==
    ASSUME NEW p, NEW i, NEW w, NEW v, Holds(p, i, w, v)
    PROVE  ReadAt(p, i, w) = v
<1>1. PICK s \in p.data : s.at = i /\ s.w = w
  BY DEF Holds
<1> DEFINE c == CHOOSE t \in p.data : t.at = i /\ t.w = w
<1>2. c \in p.data /\ c.at = i /\ c.w = w
  BY <1>1
<1>3. c.v = v
  BY <1>2 DEF Holds
<1> QED
  BY <1>1, <1>3, Zenon DEF ReadAt

(* A slice has what lies inside it.                                        *)
LEMMA SliceHolds ==
    ASSUME NEW V, NEW p, p.data \subseteq SlotOf(V),
           NEW i \in Int, NEW n \in Int, NEW j \in Int, NEW w \in Int, NEW v,
           0 <= j, j + w <= n, Holds(p, i + j, w, v)
    PROVE  Holds(Slice(p, i, n), j, w, v)
<1> DEFINE inside == {s \in p.data : s.at >= i /\ s.at + s.w <= i + n}
<1> PICK q : q = Slice(p, i, n)
  OBVIOUS
<1>1. q.data = {[s EXCEPT !.at = @ - i] : s \in inside}
  BY DEF Slice
<1>2. ASSUME NEW s \in SlotOf(V)
      PROVE  /\ [s EXCEPT !.at = @ - i].at = s.at - i
             /\ [s EXCEPT !.at = @ - i].w = s.w
             /\ [s EXCEPT !.at = @ - i].v = s.v
             /\ s.at \in Int /\ s.w \in Int
  BY DEF SlotOf
<1>3. \E t \in q.data : t.at = j /\ t.w = w
  <2>1. PICK s \in p.data : s.at = i + j /\ s.w = w
    BY DEF Holds
  <2>2. s \in inside
    BY <2>1
  <2>3. [s EXCEPT !.at = @ - i] \in q.data
    BY <1>1, <2>2
  <2>4. s \in SlotOf(V)
    BY <2>1
  <2>5. [s EXCEPT !.at = @ - i].at = j /\ [s EXCEPT !.at = @ - i].w = w
    BY <1>2, <2>1, <2>4
  <2> QED
    BY <2>3, <2>5
<1>4. ASSUME NEW t \in q.data, t.at = j, t.w = w PROVE t.v = v
  <2>1. PICK s \in inside : t = [s EXCEPT !.at = @ - i]
    BY <1>1
  <2>2. s \in p.data /\ s \in SlotOf(V)
    BY <2>1
  <2>3. s.at = i + j /\ s.w = w /\ t.v = s.v
    BY <1>2, <1>4, <2>1, <2>2
  <2> QED
    BY <2>2, <2>3 DEF Holds
<1> QED
  BY <1>3, <1>4 DEF Holds

(* A slice is a buffer of the same kind.                                   *)
LEMMA SliceType ==
    ASSUME NEW V, NEW p, p.data \subseteq SlotOf(V), NEW i \in Int, NEW n
    PROVE  Slice(p, i, n).data \subseteq SlotOf(V) /\ Slice(p, i, n).len = n
<1>1. \A s \in SlotOf(V) : [s EXCEPT !.at = @ - i] \in SlotOf(V)
  BY DEF SlotOf
<1> QED
  BY <1>1 DEF Slice

(* The widths of some writes, and where they end.                          *)
WriteWidths(writes) == [k \in DOMAIN writes |-> writes[k].w]

(* They are widths.                                                        *)
LEMMA WidthsOfWrites ==
    ASSUME NEW V, NEW writes \in Seq(WriteOf(V))
    PROVE  /\ WriteWidths(writes) \in Seq(Nat)
           /\ Len(WriteWidths(writes)) = Len(writes)
           /\ \A k \in 1 .. Len(writes) :
                 /\ WriteWidths(writes)[k] = writes[k].w
                 /\ writes[k].w \in Nat /\ writes[k].w > 0
                 /\ writes[k].v \in V
<1>1. \A k \in 1 .. Len(writes) : writes[k] \in WriteOf(V)
  OBVIOUS
<1>2. \A k \in 1 .. Len(writes) : writes[k].w \in Nat /\ writes[k].w > 0 /\ writes[k].v \in V
  BY <1>1 DEF WriteOf
<1> QED
  BY <1>2 DEF WriteWidths

(* A buffer into which everything fits has everything.                     *)
LEMMA WriteFits ==
    ASSUME NEW V, NEW writes \in Seq(WriteOf(V)), NEW size \in Int,
           Ends(WriteWidths(writes))[Len(writes)] <= size
    PROVE  LET p == Write(size, writes)
               e == Ends(WriteWidths(writes))
           IN  /\ p.len = size /\ p.pos = e[Len(writes)] /\ ~p.panic
               /\ p.data \subseteq SlotOf(V)
               /\ \A s \in p.data : \E k \in 1 .. Len(writes) :
                     s.w = writes[k].w /\ s.v = writes[k].v
               /\ \A k \in 1 .. Len(writes) :
                     Holds(p, e[k - 1], writes[k].w, writes[k].v)
<1> PICK p : p = Write(size, writes)
  OBVIOUS
<1> PICK ws : ws = WriteWidths(writes)
  OBVIOUS
<1> PICK e : e = Ends(ws)
  OBVIOUS
<1> PICK n : n = Len(writes)
  OBVIOUS
<1>1. /\ n \in Nat /\ DOMAIN writes = 1 .. n /\ ws \in Seq(Nat) /\ Len(ws) = n
      /\ \A k \in 1 .. n : /\ ws[k] = writes[k].w /\ writes[k].w \in Nat
                           /\ writes[k].w > 0 /\ writes[k].v \in V
  BY WidthsOfWrites
<1>2. /\ e[0] = 0 /\ \A k \in 0 .. n : e[k] \in Nat
      /\ \A k \in 1 .. n : e[k] = e[k - 1] + ws[k]
  BY <1>1, EndsAre
<1>3. \A i, j \in 0 .. n : i <= j => e[i] <= e[j]
  BY <1>1, EndsGrow
<1>4. ASSUME NEW k \in 1 .. n
      PROVE  /\ k \in 0 .. n /\ k - 1 \in 0 .. n
             /\ e[k] \in Nat /\ e[k - 1] \in Nat /\ e[k] = e[k - 1] + writes[k].w
             /\ e[k] <= size /\ e[k - 1] <= size
             /\ Lesser(writes[k].w, size - e[k - 1]) = writes[k].w
  <2>1. k \in 0 .. n /\ k - 1 \in 0 .. n /\ n \in 0 .. n /\ k <= n /\ k - 1 <= n
    BY <1>1
  <2>2. e[k] \in Nat /\ e[k - 1] \in Nat /\ e[n] \in Nat /\ e[k] <= e[n] /\ e[k - 1] <= e[n]
    BY <2>1, <1>2, <1>3
  <2>3. e[k] = e[k - 1] + writes[k].w /\ writes[k].w \in Nat
    BY <1>1, <1>2
  <2>4. e[n] <= size
    OBVIOUS
  <2> QED
    BY <2>1, <2>2, <2>3, <2>4 DEF Lesser
<1> DEFINE slot(k) == [at |-> e[k - 1],
                       w |-> Lesser(writes[k].w, size - e[k - 1]),
                       v |-> writes[k].v]
           panics(k) == e[IF writes[k].kind = "integer" THEN k ELSE k - 1] > size
<1>5. p = [len |-> size, pos |-> e[n], data |-> {slot(k) : k \in DOMAIN writes},
           panic |-> size < 0 \/ \E k \in DOMAIN writes : panics(k)]
  BY DEF Write, WriteWidths
<1>6. /\ p.len = size /\ p.pos = e[n] /\ p.data = {slot(k) : k \in 1 .. n}
      /\ p.panic => size < 0 \/ \E k \in 1 .. n : panics(k)
  <2> PICK b : b = (size < 0 \/ \E k \in DOMAIN writes : panics(k))
    OBVIOUS
  <2> HIDE DEF panics, slot
  <2>1. p = [len |-> size, pos |-> e[n], data |-> {slot(k) : k \in DOMAIN writes},
             panic |-> b]
    BY <1>5, Zenon
  <2>2. p.panic = b
    BY <2>1
  <2>3. b => size < 0 \/ \E k \in 1 .. n : panics(k)
    BY <1>1
  <2> QED
    BY <1>1, <2>1, <2>2, <2>3
<1>7. \A k \in 1 .. n : ~panics(k)
  BY <1>4
<1>8. ~(size < 0)
  <2>1. n \in 0 .. n /\ e[n] <= size
    BY <1>1
  <2> QED
    BY <2>1, <1>2
<1>9. ~p.panic
  <2> HIDE DEF panics
  <2> QED
    BY <1>6, <1>7, <1>8
<1>10. ASSUME NEW k \in 1 .. n
       PROVE  slot(k).at = e[k - 1] /\ slot(k).w = writes[k].w /\ slot(k).v = writes[k].v
              /\ slot(k) \in SlotOf(V) /\ slot(k) \in p.data
  <2>1. /\ slot(k) = [at |-> e[k - 1], w |-> writes[k].w, v |-> writes[k].v]
        /\ e[k - 1] \in Int /\ writes[k].w \in Int /\ writes[k].v \in V
    <3>1. Lesser(writes[k].w, size - e[k - 1]) = writes[k].w /\ e[k - 1] \in Nat
      BY <1>4
    <3>2. writes[k].w \in Nat /\ writes[k].v \in V
      BY <1>1
    <3>3. slot(k) = [at |-> e[k - 1], w |-> writes[k].w, v |-> writes[k].v]
      BY <3>1, Zenon
    <3> HIDE DEF slot
    <3> QED
      BY <3>1, <3>2, <3>3
  <2>2. slot(k) \in p.data
    <3> HIDE DEF slot
    <3> QED
      BY <1>6
  <2> HIDE DEF slot
  <2> QED
    BY <2>1, <2>2 DEF SlotOf
<1>11. ASSUME NEW s \in p.data PROVE \E k \in 1 .. n : s = slot(k)
  <2> HIDE DEF slot
  <2> QED
    BY <1>6
<1> HIDE DEF slot
<1>12. p.data \subseteq SlotOf(V)
  BY <1>10, <1>11
<1>13. \A s \in p.data : \E k \in 1 .. n : s.w = writes[k].w /\ s.v = writes[k].v
  BY <1>10, <1>11
<1>14. ASSUME NEW k \in 1 .. n PROVE Holds(p, e[k - 1], writes[k].w, writes[k].v)
  <2>1. \E s \in p.data : s.at = e[k - 1] /\ s.w = writes[k].w
    BY <1>10
  <2>2. ASSUME NEW s \in p.data, s.at = e[k - 1], s.w = writes[k].w
        PROVE  s.v = writes[k].v
    <3>1. PICK j \in 1 .. n : s = slot(j)
      BY <1>11
    <3>2. e[j - 1] = e[k - 1]
      BY <3>1, <2>2, <1>10
    <3>3. ~(j < k)
      <4> SUFFICES ASSUME j < k PROVE FALSE
        OBVIOUS
      <4>1. j \in 0 .. n /\ k - 1 \in 0 .. n /\ j <= k - 1
        BY <1>1
      <4>2. e[j] <= e[k - 1]
        BY <4>1, <1>3
      <4>3. e[j] = e[j - 1] + writes[j].w /\ writes[j].w > 0 /\ writes[j].w \in Nat
            /\ e[j - 1] \in Nat
        BY <1>1, <1>4
      <4> QED
        BY <4>2, <4>3, <3>2
    <3>4. ~(k < j)
      <4> SUFFICES ASSUME k < j PROVE FALSE
        OBVIOUS
      <4>1. k \in 0 .. n /\ j - 1 \in 0 .. n /\ k <= j - 1
        BY <1>1
      <4>2. e[k] <= e[j - 1]
        BY <4>1, <1>3
      <4>3. e[k] = e[k - 1] + writes[k].w /\ writes[k].w > 0 /\ writes[k].w \in Nat
            /\ e[k - 1] \in Nat
        BY <1>1, <1>4
      <4> QED
        BY <4>2, <4>3, <3>2
    <3>5. j = k
      BY <3>3, <3>4, <1>1
    <3> QED
      BY <3>1, <3>5, <1>10
  <2> QED
    BY <2>1, <2>2 DEF Holds
<1> QED
  BY <1>6, <1>9, <1>12, <1>13, <1>14

-----------------------------------------------------------------------------
(* Half of the values of an int16 are negative.                            *)
LEMMA HalfWord == WordSize \div 2 \in Nat /\ 2 * (WordSize \div 2) <= WordSize
  BY PacketsAssumption

(* A number that an int16 holds stays as it is.                            *)
LEMMA Int16Fits ==
    ASSUME NEW v \in Int, v < WordSize \div 2, -(WordSize \div 2) <= v
    PROVE  Int16(v) = v
<1>1. PICK h : h = WordSize \div 2
  OBVIOUS
<1>2. h \in Nat /\ 2 * h <= WordSize
  BY <1>1, HalfWord
<1>3. v + h \in Nat /\ v + h < WordSize /\ WordSize \in Nat
  BY <1>1, <1>2, PacketsAssumption
<1>4. (v + h) % WordSize = v + h
  BY <1>3
<1> QED
  BY <1>1, <1>4, <1>2 DEF Int16

(* int16(v) is an int16.                                                   *)
LEMMA Int16Range ==
    ASSUME NEW v \in Int
    PROVE  Int16(v) \in Int /\ Int16(v) <= WordSize \div 2
<1>1. PICK h : h = WordSize \div 2
  OBVIOUS
<1>2. h \in Nat /\ 2 * h <= WordSize /\ WordSize \in Nat \ {0}
  BY <1>1, HalfWord, PacketsAssumption
<1>3. (v + h) % WordSize \in 0 .. WordSize - 1
  BY <1>2
<1>4. Int16(v) = ((v + h) % WordSize) - h
  BY <1>1 DEF Int16
<1>5. PICK r : r = (v + h) % WordSize
  OBVIOUS
<1>6. r \in Int /\ r <= WordSize - 1 /\ Int16(v) = r - h
  BY <1>3, <1>4, <1>5
<1>7. WordSize <= 2 * h + 1
  BY <1>1, PacketsAssumption
<1> QED
  BY <1>1, <1>2, <1>6, <1>7

-----------------------------------------------------------------------------
(* Fields of some widths, each once.                                       *)
AreFields(width, F) ==
    /\ F \in Seq(DOMAIN ServerWidth)
    /\ \A k \in 1 .. Len(F) : width[F[k]] \in Nat /\ width[F[k]] > 0
    /\ \A j, k \in 1 .. Len(F) : F[j] = F[k] => j = k

(* Their widths.                                                           *)
LEMMA WidthsAre ==
    ASSUME NEW width, NEW F, AreFields(width, F)
    PROVE  /\ Len(F) \in Nat /\ DOMAIN F = 1 .. Len(F)
           /\ Widths(width, F) \in Seq(Nat) /\ Len(Widths(width, F)) = Len(F)
           /\ \A k \in 1 .. Len(F) : Widths(width, F)[k] = width[F[k]]
           /\ Total(width, F) = Ends(Widths(width, F))[Len(F)]
           /\ Total(width, F) \in Nat
<1>1. Len(F) \in Nat /\ DOMAIN F = 1 .. Len(F)
  BY DEF AreFields
<1>2. /\ Widths(width, F) \in Seq(Nat) /\ Len(Widths(width, F)) = Len(F)
      /\ \A k \in 1 .. Len(F) : Widths(width, F)[k] = width[F[k]]
  BY <1>1 DEF Widths, AreFields
<1>3. Total(width, F) = Ends(Widths(width, F))[Len(F)]
  BY DEF Total
<1>4. Len(F) \in 0 .. Len(Widths(width, F))
  BY <1>1, <1>2
<1>5. Total(width, F) \in Nat
  BY <1>2, <1>3, <1>4, EndsAre
<1> QED
  BY <1>1, <1>2, <1>3, <1>5

(* Fields with the values that they have.                                  *)
Filled(F, val) == [f \in {F[k] : k \in 1 .. Len(F)} |-> val[f]]

(* A decoder finds the fields that a buffer holds one after the other.     *)
LEMMA GetFieldsHolds ==
    ASSUME NEW width, NEW F, AreFields(width, F), NEW val,
           NEW p, p.len \in Int, Total(width, F) <= p.len,
           \A k \in 1 .. Len(F) :
              Holds(p, Ends(Widths(width, F))[k - 1], width[F[k]], val[F[k]])
    PROVE  /\ GetFields(width, p, F).ok
           /\ GetFields(width, p, F).values = Filled(F, val)
<1> PICK n : n = Len(F)
  OBVIOUS
<1> DEFINE end == Ends(Widths(width, F))
<1>1. /\ n \in Nat /\ DOMAIN F = 1 .. n
      /\ Widths(width, F) \in Seq(Nat) /\ Len(Widths(width, F)) = n
      /\ Total(width, F) = end[n]
  BY WidthsAre
<1>2. \A k \in 0 .. n : end[k] \in Nat /\ end[k] <= end[n]
  BY <1>1, EndsAre, EndsGrow
<1>3. ASSUME NEW k \in 1 .. n PROVE end[k] <= p.len
  <2>1. k \in 0 .. n /\ n \in 0 .. n
    BY <1>1
  <2>2. end[k] \in Nat /\ end[n] \in Nat /\ end[k] <= end[n] /\ end[n] <= p.len
    BY <1>1, <1>2, <2>1
  <2> QED
    BY <2>2
<1> DEFINE read == {k \in DOMAIN F : end[k] <= p.len}
           position(f) == CHOOSE k \in read : F[k] = f
           got == [f \in {F[k] : k \in read} |-> ReadAt(p, end[position(f) - 1], width[f])]
           want == [f \in {F[k] : k \in 1 .. n} |-> val[f]]
<1>4. GetFields(width, p, F) = [ok |-> read = DOMAIN F, values |-> got]
  BY DEF GetFields
<1> HIDE DEF end
<1>5. read = 1 .. n
  BY <1>1, <1>3
<1>6. ASSUME NEW k \in 1 .. n PROVE position(F[k]) = k
  <2>1. k \in read /\ F[k] = F[k]
    BY <1>5
  <2>2. position(F[k]) \in read /\ F[position(F[k])] = F[k]
    BY <2>1
  <2> QED
    BY <2>2, <1>5 DEF AreFields
<1>7. ASSUME NEW k \in 1 .. n
      PROVE  ReadAt(p, end[position(F[k]) - 1], width[F[k]]) = val[F[k]]
  <2>1. ReadAt(p, end[k - 1], width[F[k]]) = val[F[k]]
    BY ReadHolds DEF end
  <2> QED
    BY <1>6, <2>1
<1>8. DOMAIN got = {F[k] : k \in 1 .. n} /\ DOMAIN want = {F[k] : k \in 1 .. n}
  BY <1>5
<1>9. ASSUME NEW f \in {F[k] : k \in 1 .. n} PROVE got[f] = want[f]
  <2>1. PICK k \in 1 .. n : f = F[k]
    OBVIOUS
  <2> HIDE DEF position
  <2>2. got[f] = ReadAt(p, end[position(f) - 1], width[f])
    BY <1>5
  <2>3. want[f] = val[f]
    OBVIOUS
  <2> QED
    BY <2>1, <2>2, <2>3, <1>7
<1>10. got = want
  <2>1. got = [f \in DOMAIN got |-> got[f]]
    OBVIOUS
  <2>2. want = [f \in DOMAIN want |-> want[f]]
    OBVIOUS
  <2> HIDE DEF got, want
  <2> QED
    BY <2>1, <2>2, <1>8, <1>9
<1> HIDE DEF got, want, read
<1>11. GetFields(width, p, F).ok = (read = DOMAIN F) /\ GetFields(width, p, F).values = got
  BY <1>4
<1>12. read = DOMAIN F
  BY <1>1, <1>5
<1> QED
  BY <1>10, <1>11, <1>12 DEF want, Filled

-----------------------------------------------------------------------------
(* Packets.                                                                *)

(* Concatenation.                                                          *)
LEMMA Concatenated ==
    ASSUME NEW S, NEW q \in Seq(S), NEW r \in Seq(S)
    PROVE  /\ q \o r \in Seq(S) /\ Len(q \o r) = Len(q) + Len(r)
           /\ Len(q) \in Nat /\ Len(r) \in Nat
           /\ \A k \in 1 .. Len(q) : (q \o r)[k] = q[k]
           /\ \A k \in 1 .. Len(r) : (q \o r)[Len(q) + k] = r[k]
  OBVIOUS

(* Two sequences that agree everywhere.                                    *)
LEMMA SameSequence ==
    ASSUME NEW S, NEW q \in Seq(S), NEW r \in Seq(S), Len(q) = Len(r),
           \A k \in 1 .. Len(q) : q[k] = r[k]
    PROVE  q = r
  OBVIOUS

(* Concatenation of writes.                                                *)
LEMMA WidthsConcat ==
    ASSUME NEW V, NEW Q \in Seq(WriteOf(V)), NEW R \in Seq(WriteOf(V))
    PROVE  WriteWidths(Q \o R) = WriteWidths(Q) \o WriteWidths(R)
<1> DEFINE P == Q \o R
           a == WriteWidths(P)
           q == WriteWidths(Q)
           r == WriteWidths(R)
           b == q \o r
<1>1. /\ P \in Seq(WriteOf(V)) /\ Len(P) = Len(Q) + Len(R)
      /\ Len(Q) \in Nat /\ Len(R) \in Nat
      /\ \A k \in 1 .. Len(Q) : P[k] = Q[k]
      /\ \A k \in 1 .. Len(R) : P[Len(Q) + k] = R[k]
  BY Concatenated
<1> HIDE DEF P
<1>2. /\ a \in Seq(Nat) /\ Len(a) = Len(P) /\ \A k \in 1 .. Len(P) : a[k] = P[k].w
  BY <1>1, WidthsOfWrites
<1>3. /\ q \in Seq(Nat) /\ Len(q) = Len(Q) /\ \A k \in 1 .. Len(Q) : q[k] = Q[k].w
  BY WidthsOfWrites
<1>4. /\ r \in Seq(Nat) /\ Len(r) = Len(R) /\ \A k \in 1 .. Len(R) : r[k] = R[k].w
  BY WidthsOfWrites
<1> HIDE DEF a, q, r
<1>5. /\ b \in Seq(Nat) /\ Len(b) = Len(q) + Len(r)
      /\ \A k \in 1 .. Len(q) : b[k] = q[k]
      /\ \A k \in 1 .. Len(r) : b[Len(q) + k] = r[k]
  <2>1. q \in Seq(Nat) /\ r \in Seq(Nat)
    BY <1>3, <1>4
  <2> QED
    BY <2>1, Concatenated
<1> HIDE DEF b
<1>6. ASSUME NEW k \in 1 .. Len(P) PROVE a[k] = b[k]
  <2>1. CASE k <= Len(Q)
    <3>1. k \in 1 .. Len(Q)
      BY <2>1, <1>1
    <3>2. a[k] = Q[k].w
      BY <3>1, <1>1, <1>2
    <3>3. b[k] = Q[k].w
      BY <3>1, <1>3, <1>5
    <3> QED
      BY <3>2, <3>3
  <2>2. CASE ~(k <= Len(Q))
    <3>1. PICK j \in 1 .. Len(R) : k = Len(Q) + j
      <4>1. k - Len(Q) \in 1 .. Len(R) /\ k = Len(Q) + (k - Len(Q))
        BY <2>2, <1>1
      <4> QED
        BY <4>1
    <3>2. P[Len(Q) + j] = R[j] /\ a[k] = P[k].w
      BY <3>1, <1>1, <1>2
    <3>3. b[Len(q) + j] = r[j] /\ r[j] = R[j].w
      BY <3>1, <1>4, <1>5
    <3> QED
      BY <3>1, <3>2, <3>3, <1>3
  <2> QED
    BY <2>1, <2>2
<1>7. Len(a) = Len(b)
  BY <1>1, <1>2, <1>3, <1>4, <1>5
<1>8. \A k \in 1 .. Len(a) : a[k] = b[k]
  BY <1>2, <1>6
<1>9. a = b
  BY <1>2, <1>5, <1>7, <1>8, SameSequence
<1> QED
  BY <1>9 DEF a, b, q, r, P

(* The header takes the first five bytes.                                  *)
LEMMA HeaderFirst ==
    ASSUME NEW V, NEW R \in Seq(WriteOf(V)), NEW size, NEW id,
           Number(size) \in V, Number(id) \in V, Number(0) \in V
    PROVE  LET P == Header(size, id) \o R
               end == Ends(WriteWidths(P))
           IN  /\ P \in Seq(WriteOf(V)) /\ Len(P) = 3 + Len(R)
               /\ P[1] = PutInteger(2, size) /\ P[2] = PutInteger(2, id)
               /\ P[3] = PutInteger(1, 0)
               /\ \A k \in 1 .. Len(R) : P[3 + k] = R[k]
               /\ end[0] = 0 /\ end[1] = 2
               /\ \A k \in 0 .. Len(R) :
                     end[3 + k] = HeaderSize + Ends(WriteWidths(R))[k]
<1> PICK H : H = Header(size, id)
  OBVIOUS
<1>1. /\ PutInteger(2, size) \in WriteOf(V) /\ PutInteger(2, id) \in WriteOf(V)
      /\ PutInteger(1, 0) \in WriteOf(V)
      /\ PutInteger(2, size).w = 2 /\ PutInteger(2, id).w = 2 /\ PutInteger(1, 0).w = 1
  BY DEF PutInteger, WriteOf
<1>2. /\ H \in Seq(WriteOf(V)) /\ Len(H) = 3
      /\ H[1] = PutInteger(2, size) /\ H[2] = PutInteger(2, id) /\ H[3] = PutInteger(1, 0)
  BY <1>1 DEF Header
<1>P. PICK P : P = H \o R
  OBVIOUS
<1>3. /\ P \in Seq(WriteOf(V)) /\ Len(P) = 3 + Len(R)
      /\ \A k \in 1 .. 3 : P[k] = H[k]
      /\ \A k \in 1 .. Len(R) : P[3 + k] = R[k]
      /\ WriteWidths(P) = WriteWidths(H) \o WriteWidths(R)
  <2>1. /\ P \in Seq(WriteOf(V)) /\ Len(P) = Len(H) + Len(R)
        /\ \A k \in 1 .. Len(H) : P[k] = H[k]
        /\ \A k \in 1 .. Len(R) : P[Len(H) + k] = R[k]
    <3>1. H \in Seq(WriteOf(V))
      BY <1>2
    <3> QED
      BY <3>1, <1>P, Concatenated
  <2>2. WriteWidths(P) = WriteWidths(H) \o WriteWidths(R)
    BY <1>2, <1>P, WidthsConcat
  <2> QED
    BY <2>1, <2>2, <1>2
<1>4. /\ WriteWidths(H) \in Seq(Nat) /\ Len(WriteWidths(H)) = 3
      /\ WriteWidths(H)[1] = 2 /\ WriteWidths(H)[2] = 2 /\ WriteWidths(H)[3] = 1
      /\ WriteWidths(R) \in Seq(Nat) /\ Len(WriteWidths(R)) = Len(R)
  <2>1. /\ WriteWidths(H) \in Seq(Nat) /\ Len(WriteWidths(H)) = Len(H)
        /\ \A k \in 1 .. Len(H) : WriteWidths(H)[k] = H[k].w
    BY <1>2, WidthsOfWrites
  <2>2. WriteWidths(R) \in Seq(Nat) /\ Len(WriteWidths(R)) = Len(R)
    BY WidthsOfWrites
  <2>3. 1 \in 1 .. Len(H) /\ 2 \in 1 .. Len(H) /\ 3 \in 1 .. Len(H)
    BY <1>2
  <2> QED
    BY <2>1, <2>2, <2>3, <1>1, <1>2
<1> PICK h : h = WriteWidths(H)
  OBVIOUS
<1> PICK r : r = WriteWidths(R)
  OBVIOUS
<1>5. Ends(h)[0] = 0 /\ Ends(h)[1] = 2 /\ Ends(h)[2] = 4 /\ Ends(h)[3] = 5
  <2>1. Ends(h)[0] = 0 /\ \A k \in 1 .. 3 : Ends(h)[k] = Ends(h)[k - 1] + h[k]
    BY <1>4, EndsAre
  <2>2. Ends(h)[1] = Ends(h)[0] + h[1] /\ Ends(h)[2] = Ends(h)[1] + h[2]
        /\ Ends(h)[3] = Ends(h)[2] + h[3]
    BY <2>1
  <2> QED
    BY <2>1, <2>2, <1>4
<1>6. /\ \A k \in 0 .. 3 : Ends(h \o r)[k] = Ends(h)[k]
      /\ \A k \in 0 .. Len(R) : Ends(h \o r)[3 + k] = Ends(h)[3] + Ends(r)[k]
  <2>1. h \in Seq(Nat) /\ r \in Seq(Nat) /\ Len(h) = 3 /\ Len(r) = Len(R)
    BY <1>4
  <2>2. /\ \A k \in 0 .. Len(h) : Ends(h \o r)[k] = Ends(h)[k]
        /\ \A k \in 0 .. Len(r) : Ends(h \o r)[Len(h) + k] = Ends(h)[Len(h)] + Ends(r)[k]
    BY <2>1, EndsConcat
  <2> QED
    BY <2>1, <2>2
<1>7. PICK e : e = Ends(h \o r)
  OBVIOUS
<1>8. e[0] = 0 /\ e[1] = 2 /\ \A k \in 0 .. Len(R) : e[3 + k] = 5 + Ends(r)[k]
  BY <1>5, <1>6, <1>7
<1> QED
  BY <1>P, <1>2, <1>3, <1>7, <1>8 DEF HeaderSize

(* A packet that has room for its header and for what follows says what it *)
(* is and how long it is, and its body is what follows.                    *)
LEMMA PacketFits ==
    ASSUME NEW V, NEW R \in Seq(WriteOf(V)), NEW size, NEW id,
           Number(size) \in V, Number(id) \in V, Number(0) \in V
    PROVE  size \in Int /\ HeaderSize + Ends(WriteWidths(R))[Len(R)] <= size =>
           LET p == Write(size, Header(size, id) \o R)
               b == PeekPacketBody(p)
           IN  /\ p.len = size /\ ~p.panic
               /\ p.pos = HeaderSize + Ends(WriteWidths(R))[Len(R)]
               /\ PacketTotalSize(p) = size /\ PeekPacketID(p) = id
               /\ \A s \in p.data : \/ \E n : s.v = Number(n) /\ s.v \in V
                                    \/ \E k \in 1 .. Len(R) : s.w = R[k].w /\ s.v = R[k].v
               /\ b.len = size - HeaderSize /\ b.data \subseteq SlotOf(V)
               /\ \A k \in 1 .. Len(R) :
                     Holds(b, Ends(WriteWidths(R))[k - 1], R[k].w, R[k].v)
<1>0. SUFFICES ASSUME size \in Int, HeaderSize + Ends(WriteWidths(R))[Len(R)] <= size
      PROVE
               LET p == Write(size, Header(size, id) \o R)
                   b == PeekPacketBody(p)
               IN  /\ p.len = size /\ ~p.panic
                   /\ p.pos = HeaderSize + Ends(WriteWidths(R))[Len(R)]
                   /\ PacketTotalSize(p) = size /\ PeekPacketID(p) = id
                   /\ \A s \in p.data : \/ \E n : s.v = Number(n) /\ s.v \in V
                                        \/ \E k \in 1 .. Len(R) : s.w = R[k].w /\ s.v = R[k].v
                   /\ b.len = size - HeaderSize /\ b.data \subseteq SlotOf(V)
                   /\ \A k \in 1 .. Len(R) :
                         Holds(b, Ends(WriteWidths(R))[k - 1], R[k].w, R[k].v)
  OBVIOUS
<1>P. PICK P : P = Header(size, id) \o R
  OBVIOUS
<1> PICK e : e = Ends(WriteWidths(P))
  OBVIOUS
<1> PICK d : d = Ends(WriteWidths(R))
  OBVIOUS
<1> PICK n : n = Len(R)
  OBVIOUS
<1>1. /\ P \in Seq(WriteOf(V)) /\ Len(P) = 3 + n
      /\ P[1] = PutInteger(2, size) /\ P[2] = PutInteger(2, id)
      /\ P[3] = PutInteger(1, 0)
      /\ \A k \in 1 .. n : P[3 + k] = R[k]
      /\ e[0] = 0 /\ e[1] = 2
      /\ \A k \in 0 .. n : e[3 + k] = HeaderSize + d[k]
  BY <1>P, HeaderFirst
<1>2. /\ n \in Nat /\ \A k \in 0 .. n : d[k] \in Nat
      /\ \A k \in 1 .. n : d[k] = d[k - 1] + R[k].w /\ R[k].w \in Nat
  <2>1. /\ WriteWidths(R) \in Seq(Nat) /\ Len(WriteWidths(R)) = n
        /\ \A k \in 1 .. n : WriteWidths(R)[k] = R[k].w /\ R[k].w \in Nat
    BY WidthsOfWrites
  <2>2. /\ \A k \in 0 .. n : d[k] \in Nat
        /\ \A k \in 1 .. n : d[k] = d[k - 1] + WriteWidths(R)[k]
    BY <2>1, EndsAre
  <2>3. n \in Nat
    OBVIOUS
  <2> QED
    BY <2>1, <2>2, <2>3
<1>3. /\ HeaderSize + d[n] <= size /\ size \in Int /\ e[3 + n] = HeaderSize + d[n]
      /\ e[3 + n] <= size /\ d[n] \in Nat /\ HeaderSize = 5
  <2>1. n \in 0 .. n
    BY <1>2
  <2>2. HeaderSize + d[n] <= size /\ size \in Int
    BY <1>0, Zenon
  <2>3. e[3 + n] = HeaderSize + d[n] /\ d[n] \in Nat
    BY <1>1, <1>2, <2>1
  <2> QED
    BY <2>2, <2>3 DEF HeaderSize
<1> PICK p : p = Write(size, P)
  OBVIOUS
<1>4. /\ p.len = size /\ p.pos = e[3 + n] /\ ~p.panic
      /\ p.data \subseteq SlotOf(V)
      /\ \A s \in p.data : \E k \in 1 .. 3 + n : s.w = P[k].w /\ s.v = P[k].v
      /\ \A k \in 1 .. 3 + n : Holds(p, e[k - 1], P[k].w, P[k].v)
  <2>1. P \in Seq(WriteOf(V)) /\ size \in Int /\ Len(P) = 3 + n
        /\ Ends(WriteWidths(P))[Len(P)] <= size /\ e = Ends(WriteWidths(P))
    BY <1>1, <1>3
  <2>2. /\ p.len = size /\ p.pos = e[Len(P)] /\ ~p.panic
        /\ p.data \subseteq SlotOf(V)
        /\ \A s \in p.data : \E k \in 1 .. Len(P) : s.w = P[k].w /\ s.v = P[k].v
        /\ \A k \in 1 .. Len(P) : Holds(p, e[k - 1], P[k].w, P[k].v)
    <3>1. P \in Seq(WriteOf(V)) /\ size \in Int /\ Ends(WriteWidths(P))[Len(P)] <= size
      BY <2>1
    <3>2. /\ Write(size, P).len = size
          /\ Write(size, P).pos = Ends(WriteWidths(P))[Len(P)]
          /\ ~Write(size, P).panic
          /\ Write(size, P).data \subseteq SlotOf(V)
          /\ \A s \in Write(size, P).data : \E k \in 1 .. Len(P) :
                s.w = P[k].w /\ s.v = P[k].v
          /\ \A k \in 1 .. Len(P) :
                Holds(Write(size, P), Ends(WriteWidths(P))[k - 1], P[k].w, P[k].v)
      BY <3>1, WriteFits
    <3> QED
      BY <3>2
  <2>3. Len(P) = 3 + n /\ e[Len(P)] = e[3 + n]
    BY <2>1
  <2> QED
    BY <2>2, <2>3
<1>5. PacketTotalSize(p) = size
  <2>1. P[1].w = 2 /\ P[1].v = Number(size) /\ 1 \in 1 .. 3 + n /\ 1 - 1 = 0
    BY <1>1, <1>2 DEF PutInteger
  <2>2. Holds(p, 0, 2, Number(size))
    BY <2>1, <1>1, <1>4
  <2>3. ReadAt(p, 0, 2) = Number(size)
    BY <2>2, ReadHolds
  <2> QED
    BY <2>3 DEF PacketTotalSize, Number
<1>6. PeekPacketID(p) = id
  <2>1. P[2].w = 2 /\ P[2].v = Number(id) /\ 2 \in 1 .. 3 + n /\ 2 - 1 = 1
    BY <1>1, <1>2 DEF PutInteger
  <2>2. Holds(p, 2, 2, Number(id))
    BY <2>1, <1>1, <1>4
  <2>3. ReadAt(p, 2, 2) = Number(id)
    BY <2>2, ReadHolds
  <2> QED
    BY <2>3 DEF PeekPacketID, Number
<1>7. ASSUME NEW s \in p.data
      PROVE  \/ \E m : s.v = Number(m) /\ s.v \in V
             \/ \E k \in 1 .. n : s.w = R[k].w /\ s.v = R[k].v
  <2>1. PICK k \in 1 .. 3 + n : s.w = P[k].w /\ s.v = P[k].v
    BY <1>4
  <2>2. CASE k <= 3
    <3>1. k = 1 \/ k = 2 \/ k = 3
      BY <2>2
    <3>2. P[1].v = Number(size) /\ P[2].v = Number(id) /\ P[3].v = Number(0)
      BY <1>1 DEF PutInteger
    <3>3. s.v \in {Number(size), Number(id), Number(0)}
      BY <2>1, <3>1, <3>2
    <3> QED
      BY <3>3
  <2>3. CASE ~(k <= 3)
    <3>1. k - 3 \in 1 .. n /\ k = 3 + (k - 3)
      BY <2>3, <1>2
    <3>2. P[k] = R[k - 3]
      BY <3>1, <1>1
    <3> QED
      BY <2>1, <3>1, <3>2
  <2> QED
    BY <2>2, <2>3
<1> PICK b : b = Slice(p, HeaderSize, size - HeaderSize)
  OBVIOUS
<1>8. b = PeekPacketBody(p)
  BY <1>5 DEF PeekPacketBody
<1>9. b.len = size - HeaderSize /\ b.data \subseteq SlotOf(V)
  <2>1. HeaderSize \in Int /\ p.data \subseteq SlotOf(V)
    BY <1>3, <1>4
  <2>2. /\ Slice(p, HeaderSize, size - HeaderSize).len = size - HeaderSize
        /\ Slice(p, HeaderSize, size - HeaderSize).data \subseteq SlotOf(V)
    BY <2>1, SliceType
  <2> QED
    BY <2>2
<1>10. ASSUME NEW k \in 1 .. n PROVE Holds(b, d[k - 1], R[k].w, R[k].v)
  <2>1. k - 1 \in 0 .. n /\ k \in 0 .. n /\ n \in 0 .. n /\ k <= n
    BY <1>2
  <2>2. d[k - 1] \in Nat /\ R[k].w \in Nat /\ d[k] = d[k - 1] + R[k].w /\ d[n] \in Nat
        /\ d[k] \in Nat
    BY <1>2, <2>1
  <2>3. d[k] <= d[n]
    BY <2>1, WidthsOfWrites, EndsGrow
  <2>4. 3 + k \in 1 .. 3 + n /\ (3 + k) - 1 = 3 + (k - 1)
    BY <1>2
  <2>5. P[3 + k] = R[k] /\ e[(3 + k) - 1] = HeaderSize + d[k - 1]
    BY <1>1, <2>1, <2>4
  <2>6. Holds(p, HeaderSize + d[k - 1], R[k].w, R[k].v)
    BY <1>4, <2>4, <2>5
  <2>7. d[k - 1] + R[k].w <= size - HeaderSize /\ HeaderSize \in Int /\ size - HeaderSize \in Int
    BY <2>2, <2>3, <1>3
  <2>8. 0 <= d[k - 1] /\ d[k - 1] \in Int /\ R[k].w \in Int
    BY <2>2
  <2>9. p.data \subseteq SlotOf(V)
    BY <1>4
  <2>10. Holds(Slice(p, HeaderSize, size - HeaderSize), d[k - 1], R[k].w, R[k].v)
    BY <2>6, <2>7, <2>8, <2>9, SliceHolds
  <2> QED
    BY <2>10
<1>11. /\ p.len = size /\ ~p.panic
       /\ p.pos = HeaderSize + Ends(WriteWidths(R))[Len(R)]
  <2>1. p.pos = HeaderSize + d[n]
    BY <1>3, <1>4
  <2> QED
    BY <1>4, <2>1
<1>12. p = Write(size, Header(size, id) \o R) /\ b = PeekPacketBody(p)
  BY <1>P, <1>8, Zenon
<1>13. /\ PacketTotalSize(p) = size /\ PeekPacketID(p) = id
       /\ \A s \in p.data : \/ \E m : s.v = Number(m) /\ s.v \in V
                            \/ \E k \in 1 .. Len(R) : s.w = R[k].w /\ s.v = R[k].v
       /\ b.len = size - HeaderSize /\ b.data \subseteq SlotOf(V)
       /\ \A k \in 1 .. Len(R) : Holds(b, Ends(WriteWidths(R))[k - 1], R[k].w, R[k].v)
  BY <1>5, <1>6, <1>7, <1>9, <1>10, Zenon
<1> QED
  BY <1>11, <1>12, <1>13, Zenon

(* A number is a value, and a slot that holds it needs no width.           *)
LEMMA NumberIsValue ==
    ASSUME NEW n \in Int
    PROVE  Number(n) \in Value /\ Number(n).n = n /\ Number(n).text = "number"
<1>1. PICK t : t = "number"
  OBVIOUS
<1>2. t \in Text
  BY <1>1 DEF Text
<1>3. [text |-> t, n |-> n] \in Value
  BY <1>2 DEF Value
<1>4. Number(n).n = n /\ Number(n).text = "number"
  BY DEF Number
<1> QED
  BY <1>1, <1>3, <1>4 DEF Number

(* The values of some fields, none longer than its field.                  *)
Fit(width, F, val) ==
    \A k \in 1 .. Len(F) :
        /\ val[F[k]] \in Value
        /\ val[F[k]].text = "number" \/ val[F[k]].n <= width[F[k]]

(* The writes of some fields.                                              *)
LEMMA FieldsWritten ==
    ASSUME NEW width, NEW F, AreFields(width, F), NEW val, Fit(width, F, val)
    PROVE  /\ PutFields(width, F, val) \in Seq(WriteOf(Value))
           /\ Len(PutFields(width, F, val)) = Len(F)
           /\ WriteWidths(PutFields(width, F, val)) = Widths(width, F)
           /\ \A k \in 1 .. Len(F) :
                 /\ PutFields(width, F, val)[k].w = width[F[k]]
                 /\ PutFields(width, F, val)[k].v = val[F[k]]
<1> DEFINE put(k) == [kind |-> IF F[k] \in IntegerField THEN "integer" ELSE "bytes", w |-> width[F[k]], v |-> val[F[k]]]
<1>1. DOMAIN F = 1 .. Len(F) /\ Len(F) \in Nat
  BY WidthsAre
<1>2. PutFields(width, F, val) = [k \in 1 .. Len(F) |-> put(k)]
  BY <1>1 DEF PutFields
<1>3. ASSUME NEW k \in 1 .. Len(F)
      PROVE  put(k) \in WriteOf(Value) /\ put(k).w = width[F[k]] /\ put(k).v = val[F[k]]
  <2>1. PICK b \in {"integer", "bytes"} :
            b = IF F[k] \in IntegerField THEN "integer" ELSE "bytes"
    OBVIOUS
  <2>2. put(k) = [kind |-> b, w |-> width[F[k]], v |-> val[F[k]]]
    BY <2>1, Zenon
  <2>3. width[F[k]] \in Nat \ {0} /\ val[F[k]] \in Value
    BY DEF AreFields, Fit
  <2> HIDE DEF put
  <2> QED
    BY <2>2, <2>3 DEF WriteOf
<1> HIDE DEF put
<1>p. PICK P : P = PutFields(width, F, val)
  OBVIOUS
<1>4. P \in Seq(WriteOf(Value)) /\ Len(P) = Len(F)
      /\ \A k \in 1 .. Len(F) : P[k] = put(k)
  BY <1>1, <1>2, <1>3, <1>p
<1>5. /\ WriteWidths(P) \in Seq(Nat) /\ Len(WriteWidths(P)) = Len(F)
      /\ \A k \in 1 .. Len(F) : WriteWidths(P)[k] = P[k].w
  <2>1. P \in Seq(WriteOf(Value))
    BY <1>4
  <2>2. /\ WriteWidths(P) \in Seq(Nat) /\ Len(WriteWidths(P)) = Len(P)
        /\ \A k \in 1 .. Len(P) : WriteWidths(P)[k] = P[k].w
    BY <2>1, WidthsOfWrites
  <2> QED
    BY <2>2, <1>4
<1>6. /\ Widths(width, F) \in Seq(Nat) /\ Len(Widths(width, F)) = Len(F)
      /\ \A k \in 1 .. Len(F) : Widths(width, F)[k] = width[F[k]]
  BY WidthsAre
<1>7. WriteWidths(P) = Widths(width, F)
  <2>1. \A k \in 1 .. Len(WriteWidths(P)) : WriteWidths(P)[k] = Widths(width, F)[k]
    BY <1>3, <1>4, <1>5, <1>6
  <2> QED
    BY <2>1, <1>5, <1>6, SameSequence
<1> QED
  BY <1>3, <1>4, <1>7, <1>p

(* A packet of fixed fields comes out of the buffer as it went in.         *)
LEMMA RoundTrip ==
    ASSUME NEW width, NEW F, AreFields(width, F), NEW val, Fit(width, F, val),
           NEW layout, layout.alloc = F, layout.put = F, layout.id \in Int,
           HeaderSize + Total(width, F) < WordSize \div 2
    PROVE  LET p == Encode(width, layout, val)
               b == PeekPacketBody(p)
           IN  /\ Packet(p) /\ p.pos = p.len
               /\ PacketTotalSize(p) = p.len /\ PeekPacketID(p) = layout.id
               /\ b.len = Total(width, F)
               /\ GetFields(width, b, F).ok
               /\ GetFields(width, b, F).values = Filled(F, val)
<1>r. PICK R : R = PutFields(width, F, val)
  OBVIOUS
<1>1. /\ R \in Seq(WriteOf(Value)) /\ Len(R) = Len(F)
      /\ WriteWidths(R) = Widths(width, F)
      /\ \A k \in 1 .. Len(F) : R[k].w = width[F[k]] /\ R[k].v = val[F[k]]
  BY <1>r, FieldsWritten
<1>2. Total(width, F) = Ends(Widths(width, F))[Len(F)] /\ Total(width, F) \in Nat
      /\ Len(F) \in Nat
  BY WidthsAre
<1>s. PICK size : size = HeaderSize + Total(width, F)
  OBVIOUS
<1>3. size \in Nat /\ size < WordSize \div 2 /\ size - HeaderSize = Total(width, F)
  BY <1>2, <1>s DEF HeaderSize
<1>4. Int16(size) = size
  <2>1. WordSize \div 2 \in Nat
    BY HalfWord
  <2>2. PICK h : h = WordSize \div 2
    OBVIOUS
  <2>3. -(WordSize \div 2) <= size /\ size \in Int /\ size < WordSize \div 2
    BY <1>3, <2>1, <2>2
  <2> QED
    BY <2>3, Int16Fits
<1>p. PICK p : p = Write(size, Header(size, layout.id) \o R)
  OBVIOUS
<1>5. p = Encode(width, layout, val)
  BY <1>4, <1>s, <1>r, <1>p, Zenon DEF Encode
<1>6. Number(size) \in Value /\ Number(layout.id) \in Value /\ Number(0) \in Value
  <2>1. size \in Int /\ 0 \in Int
    BY <1>3
  <2> QED
    BY <2>1, NumberIsValue
<1>7. size = HeaderSize + Ends(WriteWidths(R))[Len(R)]
  BY <1>1, <1>2, <1>s, Zenon
<1>7a. size \in Int /\ HeaderSize + Ends(WriteWidths(R))[Len(R)] <= size
  <2>1. PICK x : x = HeaderSize + Ends(WriteWidths(R))[Len(R)]
    OBVIOUS
  <2> QED
    BY <1>3, <1>7, <2>1
<1>b. PICK b : b = PeekPacketBody(p)
  OBVIOUS
<1>8. /\ p.len = size /\ p.pos = size /\ ~p.panic
      /\ PacketTotalSize(p) = size /\ PeekPacketID(p) = layout.id
      /\ \A s \in p.data : \/ \E n : s.v = Number(n) /\ s.v \in Value
                           \/ \E k \in 1 .. Len(R) : s.w = R[k].w /\ s.v = R[k].v
      /\ b.len = size - HeaderSize
      /\ \A k \in 1 .. Len(R) :
            Holds(b, Ends(WriteWidths(R))[k - 1], R[k].w, R[k].v)
  <2>1. R \in Seq(WriteOf(Value))
    BY <1>1
  <2>2. /\ p.len = size /\ ~p.panic
        /\ p.pos = HeaderSize + Ends(WriteWidths(R))[Len(R)]
        /\ PacketTotalSize(p) = size /\ PeekPacketID(p) = layout.id
        /\ \A s \in p.data : \/ \E n : s.v = Number(n) /\ s.v \in Value
                             \/ \E k \in 1 .. Len(R) : s.w = R[k].w /\ s.v = R[k].v
        /\ b.len = size - HeaderSize
        /\ \A k \in 1 .. Len(R) :
              Holds(b, Ends(WriteWidths(R))[k - 1], R[k].w, R[k].v)
    BY <2>1, <1>6, <1>7a, <1>p, <1>b, PacketFits
  <2> QED
    BY <2>2, <1>7, Zenon
<1>9. Packet(p)
  <2>1. ASSUME NEW s \in p.data
        PROVE  s.v \in Value /\ (s.v.text = "number" \/ s.v.n <= s.w)
    <3>1. CASE \E n : s.v = Number(n) /\ s.v \in Value
      BY <3>1 DEF Number
    <3>2. CASE \E k \in 1 .. Len(R) : s.w = R[k].w /\ s.v = R[k].v
      <4>1. PICK k \in 1 .. Len(F) : s.w = R[k].w /\ s.v = R[k].v
        BY <3>2, <1>1
      <4>2. s.w = width[F[k]] /\ s.v = val[F[k]]
        BY <4>1, <1>1
      <4> QED
        BY <4>2 DEF Fit
    <3> QED
      BY <3>1, <3>2, <1>8
  <2> QED
    BY <2>1, <1>3, <1>8 DEF Packet
<1>10. \A k \in 1 .. Len(F) :
          Holds(b, Ends(Widths(width, F))[k - 1], width[F[k]], val[F[k]])
  BY <1>1, <1>8
<1>11. b.len = Total(width, F) /\ b.len \in Int /\ Total(width, F) <= b.len
  BY <1>2, <1>3, <1>8
<1>12. /\ GetFields(width, b, F).ok
       /\ GetFields(width, b, F).values = Filled(F, val)
  BY <1>10, <1>11, GetFieldsHolds
<1>13. p.pos = p.len /\ PacketTotalSize(p) = p.len /\ PeekPacketID(p) = layout.id
  BY <1>8
<1> QED
  BY <1>5, <1>b, <1>9, <1>11, <1>12, <1>13, Zenon

-----------------------------------------------------------------------------
(* The fields of the program's packets.                                    *)

(* Both programs have the same widths.                                     *)
LEMMA SameWidths == ClientWidth = ServerWidth
  BY DEF ClientWidth, ServerWidth

(* Each is a positive number.                                              *)
LEMMA WidthsPositive ==
    \A f \in DOMAIN ServerWidth : ServerWidth[f] \in Nat /\ ServerWidth[f] > 0
  BY DEF ServerWidth

(* Where the first fields end.                                             *)
LEMMA FirstEnds ==
    ASSUME NEW width, NEW F, AreFields(width, F)
    PROVE  LET e == Ends(Widths(width, F))
           IN  /\ e[0] = 0
               /\ Len(F) >= 1 => e[1] = width[F[1]]
               /\ Len(F) >= 2 => e[2] = width[F[1]] + width[F[2]]
               /\ Len(F) >= 3 => e[3] = width[F[1]] + width[F[2]] + width[F[3]]
               /\ Len(F) >= 4 => e[4] = width[F[1]] + width[F[2]] + width[F[3]]
                                          + width[F[4]]
               /\ Len(F) >= 5 => e[5] = width[F[1]] + width[F[2]] + width[F[3]]
                                          + width[F[4]] + width[F[5]]
<1> PICK e : e = Ends(Widths(width, F))
  OBVIOUS
<1> PICK n : n = Len(F)
  OBVIOUS
<1>1. /\ n \in Nat /\ Widths(width, F) \in Seq(Nat) /\ Len(Widths(width, F)) = n
      /\ \A k \in 1 .. n : Widths(width, F)[k] = width[F[k]]
  BY WidthsAre
<1>2. /\ e[0] = 0
      /\ \A k \in 1 .. n : e[k] = e[k - 1] + Widths(width, F)[k]
  BY <1>1, EndsAre
<1>3. ASSUME NEW k \in 1 .. n
      PROVE  e[k] = e[k - 1] + width[F[k]] /\ width[F[k]] \in Nat
  BY <1>1, <1>2 DEF AreFields
<1>4. n >= 1 => e[1] = e[0] + width[F[1]] /\ width[F[1]] \in Nat
  <2>1. n >= 1 => 1 \in 1 .. n /\ 1 - 1 = 0
    BY <1>1
  <2> QED
    BY <1>3, <2>1
<1>5. n >= 2 => e[2] = e[1] + width[F[2]] /\ width[F[2]] \in Nat
  <2>1. n >= 2 => 2 \in 1 .. n /\ 2 - 1 = 1
    BY <1>1
  <2> QED
    BY <1>3, <2>1
<1>6. n >= 3 => e[3] = e[2] + width[F[3]] /\ width[F[3]] \in Nat
  <2>1. n >= 3 => 3 \in 1 .. n /\ 3 - 1 = 2
    BY <1>1
  <2> QED
    BY <1>3, <2>1
<1>7. n >= 4 => e[4] = e[3] + width[F[4]] /\ width[F[4]] \in Nat
  <2>1. n >= 4 => 4 \in 1 .. n /\ 4 - 1 = 3
    BY <1>1
  <2> QED
    BY <1>3, <2>1
<1>8. n >= 5 => e[5] = e[4] + width[F[5]] /\ width[F[5]] \in Nat
  <2>1. n >= 5 => 5 \in 1 .. n /\ 5 - 1 = 4
    BY <1>1
  <2> QED
    BY <1>3, <2>1
<1> QED
  BY <1>1, <1>2, <1>4, <1>5, <1>6, <1>7, <1>8

(* The rows of the two programs' packets, each with its length.            *)
LEMMA FieldsOfOne ==
    /\ AreFields(ServerWidth, <<"ErrorCode">>) /\ Total(ServerWidth, <<"ErrorCode">>) = 2
    /\ AreFields(ServerWidth, <<"UserID">>) /\ Total(ServerWidth, <<"UserID">>) = 16
<1>1. ASSUME NEW f \in DOMAIN ServerWidth
      PROVE  AreFields(ServerWidth, <<f>>) /\ Total(ServerWidth, <<f>>) = ServerWidth[f]
  <2>1. <<f>> \in Seq(DOMAIN ServerWidth) /\ Len(<<f>>) = 1 /\ <<f>>[1] = f
    OBVIOUS
  <2>2. AreFields(ServerWidth, <<f>>)
    BY <2>1, WidthsPositive DEF AreFields
  <2>3. Total(ServerWidth, <<f>>) = Ends(Widths(ServerWidth, <<f>>))[1]
    BY <2>1 DEF Total
  <2> QED
    BY <2>1, <2>2, <2>3, FirstEnds
<1>2. "ErrorCode" \in DOMAIN ServerWidth /\ ServerWidth["ErrorCode"] = 2
      /\ "UserID" \in DOMAIN ServerWidth /\ ServerWidth["UserID"] = 16
  BY DEF ServerWidth
<1> QED
  BY <1>1, <1>2

(* Packets of two fields.                                                  *)
LEMMA FieldsOfTwo ==
    /\ AreFields(ServerWidth, <<"UserID", "UserPW">>)
    /\ Total(ServerWidth, <<"UserID", "UserPW">>) = 32
    /\ AreFields(ServerWidth, <<"ChatRoomName", "ChatRoomPW">>)
    /\ Total(ServerWidth, <<"ChatRoomName", "ChatRoomPW">>) = 40
    /\ AreFields(ServerWidth, <<"ErrorCode", "ChatRoomID">>)
    /\ Total(ServerWidth, <<"ErrorCode", "ChatRoomID">>) = 4
    /\ AreFields(ServerWidth, <<"ErrorCode", "Len">>)
    /\ Total(ServerWidth, <<"ErrorCode", "Len">>) = 4
    /\ AreFields(ServerWidth, <<"UserID", "ChatRoomID">>)
    /\ Total(ServerWidth, <<"UserID", "ChatRoomID">>) = 18
<1>1. ASSUME NEW f \in DOMAIN ServerWidth, NEW g \in DOMAIN ServerWidth, f # g
      PROVE  /\ AreFields(ServerWidth, <<f, g>>)
             /\ Total(ServerWidth, <<f, g>>) = ServerWidth[f] + ServerWidth[g]
  <2>1. PICK F : F = <<f, g>>
    OBVIOUS
  <2>2. F \in Seq(DOMAIN ServerWidth) /\ Len(F) = 2 /\ F[1] = f /\ F[2] = g
    BY <2>1
  <2>3. AreFields(ServerWidth, F)
    <3>1. ASSUME NEW k \in 1 .. 2 PROVE F[k] = f \/ F[k] = g
      BY <2>2
    <3>2. \A k \in 1 .. 2 : ServerWidth[F[k]] \in Nat /\ ServerWidth[F[k]] > 0
      BY <3>1, WidthsPositive
    <3>3. \A j, k \in 1 .. 2 : F[j] = F[k] => j = k
      BY <1>1, <2>2
    <3> QED
      BY <2>2, <3>2, <3>3 DEF AreFields
  <2>4. Total(ServerWidth, F) = Ends(Widths(ServerWidth, F))[2]
    BY <2>2 DEF Total
  <2>5. Len(F) >= 2 => Ends(Widths(ServerWidth, F))[2] = ServerWidth[F[1]] + ServerWidth[F[2]]
    BY <2>3, FirstEnds
  <2> QED
    BY <2>1, <2>2, <2>3, <2>4, <2>5
<1>2. /\ "ErrorCode" \in DOMAIN ServerWidth /\ ServerWidth["ErrorCode"] = 2
      /\ "ChatRoomID" \in DOMAIN ServerWidth /\ ServerWidth["ChatRoomID"] = 2
      /\ "Len" \in DOMAIN ServerWidth /\ ServerWidth["Len"] = 2
      /\ "UserID" \in DOMAIN ServerWidth /\ ServerWidth["UserID"] = 16
      /\ "UserPW" \in DOMAIN ServerWidth /\ ServerWidth["UserPW"] = 16
      /\ "ChatRoomName" \in DOMAIN ServerWidth /\ ServerWidth["ChatRoomName"] = 20
      /\ "ChatRoomPW" \in DOMAIN ServerWidth /\ ServerWidth["ChatRoomPW"] = 20
  BY DEF ServerWidth
<1>3. "UserID" # "UserPW" /\ "ChatRoomName" # "ChatRoomPW" /\ "ErrorCode" # "ChatRoomID"
      /\ "ErrorCode" # "Len" /\ "UserID" # "ChatRoomID"
  OBVIOUS
<1> QED
  BY <1>1, <1>2, <1>3

(* Packets of three fields.                                                *)
LEMMA FieldsOfThree ==
    /\ AreFields(ServerWidth, <<"UserID", "UserPW", "UserName">>)
    /\ Total(ServerWidth, <<"UserID", "UserPW", "UserName">>) = 48
    /\ AreFields(ServerWidth, <<"ChatRoomID", "TimeChat", "Message">>)
    /\ Total(ServerWidth, <<"ChatRoomID", "TimeChat", "Message">>) = 538
<1>1. ASSUME NEW f \in DOMAIN ServerWidth, NEW g \in DOMAIN ServerWidth,
             NEW h \in DOMAIN ServerWidth, f # g, f # h, g # h
      PROVE  /\ AreFields(ServerWidth, <<f, g, h>>)
             /\ Total(ServerWidth, <<f, g, h>>)
                  = ServerWidth[f] + ServerWidth[g] + ServerWidth[h]
  <2>1. PICK F : F = <<f, g, h>>
    OBVIOUS
  <2>2. F \in Seq(DOMAIN ServerWidth) /\ Len(F) = 3 /\ F[1] = f /\ F[2] = g /\ F[3] = h
    BY <2>1
  <2>3. AreFields(ServerWidth, F)
    <3>1. ASSUME NEW k \in 1 .. 3 PROVE F[k] = f \/ F[k] = g \/ F[k] = h
      BY <2>2
    <3>2. \A k \in 1 .. 3 : ServerWidth[F[k]] \in Nat /\ ServerWidth[F[k]] > 0
      BY <3>1, WidthsPositive
    <3>3. \A j, k \in 1 .. 3 : F[j] = F[k] => j = k
      BY <1>1, <2>2
    <3> QED
      BY <2>2, <3>2, <3>3 DEF AreFields
  <2>4. Total(ServerWidth, F) = Ends(Widths(ServerWidth, F))[3]
    BY <2>2 DEF Total
  <2>5. Len(F) >= 3 => Ends(Widths(ServerWidth, F))[3]
                         = ServerWidth[F[1]] + ServerWidth[F[2]] + ServerWidth[F[3]]
    BY <2>3, FirstEnds
  <2> QED
    BY <2>1, <2>2, <2>3, <2>4, <2>5
<1>2. /\ "UserID" \in DOMAIN ServerWidth /\ ServerWidth["UserID"] = 16
      /\ "UserPW" \in DOMAIN ServerWidth /\ ServerWidth["UserPW"] = 16
      /\ "UserName" \in DOMAIN ServerWidth /\ ServerWidth["UserName"] = 16
      /\ "ChatRoomID" \in DOMAIN ServerWidth /\ ServerWidth["ChatRoomID"] = 2
      /\ "TimeChat" \in DOMAIN ServerWidth /\ ServerWidth["TimeChat"] = 24
      /\ "Message" \in DOMAIN ServerWidth /\ ServerWidth["Message"] = 512
  BY DEF ServerWidth
<1>3. "UserID" # "UserPW" /\ "UserID" # "UserName" /\ "UserPW" # "UserName"
      /\ "ChatRoomID" # "TimeChat" /\ "ChatRoomID" # "Message" /\ "TimeChat" # "Message"
  OBVIOUS
<1> QED
  BY <1>1, <1>2, <1>3

(* The broadcast.                                                          *)
LEMMA FieldsOfBroadcast ==
    LET F == <<"MessageSequence", "Message", "TimeChat", "UserName">>
    IN  AreFields(ServerWidth, F) /\ Total(ServerWidth, F) = 556
<1>1. PICK F : F = <<"MessageSequence", "Message", "TimeChat", "UserName">>
  OBVIOUS
<1>2. /\ F \in Seq(DOMAIN ServerWidth) /\ Len(F) = 4
      /\ ServerWidth[F[1]] = 4 /\ ServerWidth[F[2]] = 512
      /\ ServerWidth[F[3]] = 24 /\ ServerWidth[F[4]] = 16
  BY <1>1 DEF ServerWidth
<1>3. \A j, k \in 1 .. 4 : F[j] = F[k] => j = k
  BY <1>1
<1>4. \A k \in 1 .. 4 : k = 1 \/ k = 2 \/ k = 3 \/ k = 4
  OBVIOUS
<1>5. AreFields(ServerWidth, F)
  BY <1>2, <1>3, <1>4, WidthsPositive DEF AreFields
<1>6. Total(ServerWidth, F) = Ends(Widths(ServerWidth, F))[4]
  BY <1>2 DEF Total
<1>7. Total(ServerWidth, F) = 556
  <2>1. Len(F) >= 4 => Ends(Widths(ServerWidth, F))[4]
            = ServerWidth[F[1]] + ServerWidth[F[2]] + ServerWidth[F[3]] + ServerWidth[F[4]]
    BY <1>5, FirstEnds
  <2> QED
    BY <1>2, <1>6, <2>1
<1> QED
  BY <1>1, <1>5, <1>7

(* A row of the list of rooms, which both programs lay out alike.          *)
LEMMA FieldsOfRow ==
    LET F == ServerChatRoom
    IN  /\ AreFields(ServerWidth, F) /\ Total(ServerWidth, F) = 64 /\ Len(F) = 5
        /\ ClientChatRoom = F
<1>1. PICK F : F = ServerChatRoom
  OBVIOUS
<1>2. /\ F \in Seq(DOMAIN ServerWidth) /\ Len(F) = 5
      /\ ServerWidth[F[1]] = 2 /\ ServerWidth[F[2]] = 24
      /\ ServerWidth[F[3]] = 16 /\ ServerWidth[F[4]] = 20 /\ ServerWidth[F[5]] = 2
  BY <1>1 DEF ServerWidth, ServerChatRoom
<1>3. \A j, k \in 1 .. 5 : F[j] = F[k] => j = k
  BY <1>1 DEF ServerChatRoom
<1>4. \A k \in 1 .. 5 : k = 1 \/ k = 2 \/ k = 3 \/ k = 4 \/ k = 5
  OBVIOUS
<1>5. AreFields(ServerWidth, F)
  BY <1>2, <1>3, <1>4, WidthsPositive DEF AreFields
<1>6. Total(ServerWidth, F) = Ends(Widths(ServerWidth, F))[5]
  BY <1>2 DEF Total
<1>7. Total(ServerWidth, F) = 64
  <2>1. Len(F) >= 5 => Ends(Widths(ServerWidth, F))[5]
            = ServerWidth[F[1]] + ServerWidth[F[2]] + ServerWidth[F[3]] + ServerWidth[F[4]]
                + ServerWidth[F[5]]
    BY <1>5, FirstEnds
  <2> QED
    BY <1>2, <1>6, <2>1
<1>8. ClientChatRoom = ServerChatRoom
  BY DEF ClientChatRoom, ServerChatRoom
<1> QED
  BY <1>1, <1>2, <1>5, <1>7, <1>8

(* The fields of a packet other than the list of rooms.                    *)
FieldLists == {
    <<"ErrorCode">>, <<"UserID">>, <<"UserID", "UserPW">>,
    <<"ChatRoomName", "ChatRoomPW">>, <<"ErrorCode", "ChatRoomID">>,
    <<"UserID", "ChatRoomID">>, <<"UserID", "UserPW", "UserName">>,
    <<"ChatRoomID", "TimeChat", "Message">>,
    <<"MessageSequence", "Message", "TimeChat", "UserName">>}

(* None of them is too long for an int16.                                  *)
LEMMA FixedFits ==
    ASSUME NEW F \in FieldLists
    PROVE  /\ AreFields(ServerWidth, F)
           /\ HeaderSize + Total(ServerWidth, F) < WordSize \div 2
<1>1. AreFields(ServerWidth, F) /\ Total(ServerWidth, F) \in Nat /\ Total(ServerWidth, F) <= 556
  BY FieldsOfOne, FieldsOfTwo, FieldsOfThree, FieldsOfBroadcast DEF FieldLists
<1>2. ServerBroadcast.put = <<"MessageSequence", "Message", "TimeChat", "UserName">>
  BY DEF ServerBroadcast, Layout
<1>3. HeaderSize = 5
  BY DEF HeaderSize
<1>4. Total(ServerWidth, ServerBroadcast.put) = 556
  BY <1>2, FieldsOfBroadcast, Zenon
<1>5. 561 < WordSize \div 2
  BY <1>3, <1>4, LongestPacketFits
<1> PICK h : h = WordSize \div 2
  OBVIOUS
<1> QED
  BY <1>1, <1>3, <1>5, HalfWord

(* What a decoder makes of such a packet.                                  *)
LEMMA FixedRoundTrip ==
    ASSUME NEW F \in FieldLists, NEW val, Fit(ServerWidth, F, val),
           DOMAIN val = {F[k] : k \in 1 .. Len(F)}, val = [f \in DOMAIN val |-> val[f]],
           NEW id \in Int, NEW M, M.check = F, M.get = F
    PROVE  LET p == Encode(ServerWidth, Layout(id, F), val)
               r == Decode(ServerWidth, M, PeekPacketBody(p))
           IN  /\ Packet(p) /\ p.pos = p.len
               /\ PacketTotalSize(p) = p.len /\ PeekPacketID(p) = id
               /\ r.ok /\ r.values = val
<1>l. PICK L : L = Layout(id, F)
  OBVIOUS
<1>1. L.alloc = F /\ L.put = F /\ L.id = id
  BY <1>l DEF Layout
<1>2. AreFields(ServerWidth, F) /\ HeaderSize + Total(ServerWidth, F) < WordSize \div 2
  BY FixedFits
<1>p. PICK p : p = Encode(ServerWidth, L, val)
  OBVIOUS
<1>b. PICK b : b = PeekPacketBody(p)
  OBVIOUS
<1>3. /\ Packet(p) /\ p.pos = p.len
      /\ PacketTotalSize(p) = p.len /\ PeekPacketID(p) = L.id
      /\ b.len = Total(ServerWidth, F)
      /\ GetFields(ServerWidth, b, F).ok
      /\ GetFields(ServerWidth, b, F).values = Filled(F, val)
  BY <1>1, <1>2, <1>p, <1>b, RoundTrip
<1>4. Filled(F, val) = val
  BY Zenon DEF Filled
<1>5. Decode(ServerWidth, M, b) = GetFields(ServerWidth, b, F)
  BY <1>3 DEF Decode
<1>6. /\ Decode(ServerWidth, M, b).ok
      /\ Decode(ServerWidth, M, b).values = val
  BY <1>3, <1>4, <1>5
<1> QED
  BY <1>1, <1>3, <1>6, <1>l, <1>p, <1>b, Zenon

(* A slice is no longer than the field.                                    *)
LEMMA CutFits ==
    ASSUME NEW v \in Value, v.n \in Nat, NEW w \in Nat
    PROVE  /\ Cut(w, v) \in Value /\ Cut(w, v).n <= w /\ Cut(w, v).n \in Nat
           /\ Cut(w, v).text = v.text /\ Cut(w, Cut(w, v)) = Cut(w, v)
<1>1. PICK t \in Text, k \in Nat :
          v = [text |-> t, n |-> k]
  <2>1. v = [text |-> v.text, n |-> v.n]
        /\ v.text \in Text
    BY DEF Value
  <2> QED
    BY <2>1
<1>2. PICK m : m = Lesser(w, k)
  OBVIOUS
<1>3. m \in Nat /\ m <= w /\ Lesser(w, m) = m
  BY <1>2 DEF Lesser
<1>4. Cut(w, v) = [text |-> t, n |-> m]
  BY <1>1, <1>2 DEF Cut
<1>5. Cut(w, [text |-> t, n |-> m]) = [text |-> t, n |-> Lesser(w, m)]
  BY DEF Cut
<1>6. [text |-> t, n |-> m] \in Value
  BY <1>3 DEF Value
<1>7. v.text = t
  BY <1>1
<1> QED
  BY <1>3, <1>4, <1>5, <1>6, <1>7

-----------------------------------------------------------------------------
(* The list of rooms.                                                      *)

(* The writes of one row behind those of the rows before it.               *)
LEMMA RowPosition ==
    ASSUME NEW i \in Nat, i >= 1, NEW j \in 1 .. 5
    PROVE  LET k == 5 * (i - 1) + j
           IN  (k - 1) \div 5 = i - 1 /\ (k - 1) % 5 = j - 1
<1>1. PICK m \in Nat : m = i - 1
  OBVIOUS
<1>2. PICK x : x = 5 * m + (j - 1)
  OBVIOUS
<1>3. x \div 5 = m /\ x % 5 = j - 1
  BY <1>2
<1>4. (5 * (i - 1) + j) - 1 = x
  BY <1>1, <1>2
<1> QED
  BY <1>1, <1>3, <1>4

(* Every position is that of a field of a row.                             *)
LEMMA PositionRow ==
    ASSUME NEW n \in Nat, NEW k \in 1 .. 5 * n
    PROVE  \E i \in 1 .. n, j \in 1 .. 5 : k = 5 * (i - 1) + j
<1>1. PICK x \in Nat : x = k - 1
  OBVIOUS
<1>2. PICK q, r : q = x \div 5 /\ r = x % 5
  OBVIOUS
<1>3. q \in Nat /\ r \in 0 .. 4 /\ x = 5 * q + r
  BY <1>2
<1>4. q + 1 \in 1 .. n /\ r + 1 \in 1 .. 5 /\ k = 5 * ((q + 1) - 1) + (r + 1)
  BY <1>1, <1>3
<1> QED
  BY <1>4

(* Rows that fit.                                                          *)
AreRows(list) ==
    /\ list = [i \in 1 .. Len(list) |-> list[i]] /\ Len(list) \in Nat
    /\ \A i \in 1 .. Len(list) : Fit(ServerWidth, ServerChatRoom, list[i])

(* The writes of the rows.                                                 *)
LEMMA RowsWritten ==
    ASSUME NEW list, AreRows(list)
    PROVE  LET P == PutRows(ServerWidth, list)
           IN  /\ P \in Seq(WriteOf(Value)) /\ Len(P) = 5 * Len(list)
               /\ \A i \in 1 .. Len(list), j \in 1 .. 5 :
                     P[5 * (i - 1) + j] = PutFields(ServerWidth, ServerChatRoom, list[i])[j]
<1>n. PICK n : n = Len(list)
  OBVIOUS
<1>1. n \in Nat
  BY <1>n DEF AreRows
<1>2. AreFields(ServerWidth, ServerChatRoom) /\ Len(ServerChatRoom) = 5
  BY FieldsOfRow
<1> DEFINE put(k) == PutFields(ServerWidth, ServerChatRoom,
                               list[((k - 1) \div 5) + 1])[((k - 1) % 5) + 1]
<1>p. PICK P : P = PutRows(ServerWidth, list)
  OBVIOUS
<1>3. P = [k \in 1 .. 5 * n |-> put(k)]
  BY <1>p, <1>n, <1>2 DEF PutRows
<1>4. ASSUME NEW i \in 1 .. n, NEW j \in 1 .. 5
      PROVE  /\ put(5 * (i - 1) + j) = PutFields(ServerWidth, ServerChatRoom, list[i])[j]
             /\ 5 * (i - 1) + j \in 1 .. 5 * n
             /\ put(5 * (i - 1) + j) \in WriteOf(Value)
  <2>1. PICK k : k = 5 * (i - 1) + j
    OBVIOUS
  <2>2. (k - 1) \div 5 = i - 1 /\ (k - 1) % 5 = j - 1
    BY <1>1, <2>1, RowPosition
  <2>3. ((k - 1) \div 5) + 1 = i /\ ((k - 1) % 5) + 1 = j
    BY <2>2
  <2>4. put(k) = PutFields(ServerWidth, ServerChatRoom, list[i])[j]
    BY <2>3, Zenon
  <2>5. k \in 1 .. 5 * n
    BY <2>1, <1>1
  <2>6. Fit(ServerWidth, ServerChatRoom, list[i])
    BY <1>n DEF AreRows
  <2>7. /\ PutFields(ServerWidth, ServerChatRoom, list[i]) \in Seq(WriteOf(Value))
        /\ Len(PutFields(ServerWidth, ServerChatRoom, list[i])) = 5
    BY <1>2, <2>6, FieldsWritten
  <2>8. PutFields(ServerWidth, ServerChatRoom, list[i])[j] \in WriteOf(Value)
    BY <2>7
  <2> HIDE DEF put
  <2> QED
    BY <2>1, <2>4, <2>5, <2>8
<1> HIDE DEF put
<1>5. ASSUME NEW k \in 1 .. 5 * n PROVE put(k) \in WriteOf(Value)
  <2>1. PICK i \in 1 .. n, j \in 1 .. 5 : k = 5 * (i - 1) + j
    BY <1>1, PositionRow
  <2> QED
    BY <2>1, <1>4
<1>6. P \in Seq(WriteOf(Value)) /\ Len(P) = 5 * n
  <2>1. 5 * n \in Nat
    BY <1>1
  <2> QED
    BY <1>3, <1>5, <2>1
<1>7. \A i \in 1 .. n, j \in 1 .. 5 :
         P[5 * (i - 1) + j] = PutFields(ServerWidth, ServerChatRoom, list[i])[j]
  BY <1>3, <1>4
<1> QED
  BY <1>n, <1>p, <1>6, <1>7

(* Where they are.                                                         *)
RowsAt(P, d, e, list) ==
    /\ \A i \in 0 .. Len(list) : d[5 * i] = 64 * i
    /\ \A i \in 1 .. Len(list), j \in 1 .. 5 :
          /\ d[(5 * (i - 1) + j) - 1] = 64 * (i - 1) + e[j - 1]
          /\ P[5 * (i - 1) + j].w = ServerWidth[ServerChatRoom[j]]
          /\ P[5 * (i - 1) + j].v = list[i][ServerChatRoom[j]]

(* Row i begins 64 * (i - 1) bytes behind the first, and its fields follow.*)
LEMMA RowEnds ==
    ASSUME NEW list, AreRows(list)
    PROVE  RowsAt(PutRows(ServerWidth, list),
                  Ends(WriteWidths(PutRows(ServerWidth, list))),
                  Ends(Widths(ServerWidth, ServerChatRoom)), list)
<1>n. PICK n : n = Len(list)
  OBVIOUS
<1>1. n \in Nat
  BY <1>n DEF AreRows
<1>f. PICK F : F = ServerChatRoom
  OBVIOUS
<1>2. AreFields(ServerWidth, F) /\ Len(F) = 5 /\ Total(ServerWidth, F) = 64
  BY <1>f, FieldsOfRow
<1>p. PICK P : P = PutRows(ServerWidth, list)
  OBVIOUS
<1>3. /\ P \in Seq(WriteOf(Value)) /\ Len(P) = 5 * n
      /\ \A i \in 1 .. n, j \in 1 .. 5 :
            P[5 * (i - 1) + j] = PutFields(ServerWidth, F, list[i])[j]
  <2>1. /\ P \in Seq(WriteOf(Value)) /\ Len(P) = 5 * Len(list)
        /\ \A i \in 1 .. Len(list), j \in 1 .. 5 :
              P[5 * (i - 1) + j] = PutFields(ServerWidth, ServerChatRoom, list[i])[j]
    BY <1>p, RowsWritten
  <2> QED
    BY <2>1, <1>n, <1>f, Zenon
<1>4. ASSUME NEW i \in 1 .. n, NEW j \in 1 .. 5
      PROVE  /\ P[5 * (i - 1) + j].w = ServerWidth[F[j]]
             /\ P[5 * (i - 1) + j].v = list[i][F[j]]
  <2>1. Fit(ServerWidth, F, list[i])
    BY <1>n, <1>f DEF AreRows
  <2>2. \A k \in 1 .. Len(F) : /\ PutFields(ServerWidth, F, list[i])[k].w = ServerWidth[F[k]]
                               /\ PutFields(ServerWidth, F, list[i])[k].v = list[i][F[k]]
    BY <1>2, <2>1, FieldsWritten
  <2>3. P[5 * (i - 1) + j] = PutFields(ServerWidth, F, list[i])[j] /\ j \in 1 .. Len(F)
    BY <1>2, <1>3
  <2> QED
    BY <2>2, <2>3
<1>e. PICK e : e = Ends(Widths(ServerWidth, F))
  OBVIOUS
<1>5. /\ e[0] = 0 /\ e[5] = 64
      /\ \A j \in 1 .. 5 : e[j] = e[j - 1] + ServerWidth[F[j]]
      /\ \A j \in 0 .. 5 : e[j] \in Nat
  <2>1. /\ Widths(ServerWidth, F) \in Seq(Nat) /\ Len(Widths(ServerWidth, F)) = 5
        /\ \A k \in 1 .. 5 : Widths(ServerWidth, F)[k] = ServerWidth[F[k]]
        /\ Total(ServerWidth, F) = Ends(Widths(ServerWidth, F))[5]
    BY <1>2, WidthsAre
  <2>2. /\ e[0] = 0 /\ \A k \in 0 .. 5 : e[k] \in Nat
        /\ \A k \in 1 .. 5 : e[k] = e[k - 1] + Widths(ServerWidth, F)[k]
    BY <2>1, <1>e, EndsAre
  <2> QED
    BY <2>1, <2>2, <1>2, <1>e
<1>d. PICK d : d = Ends(WriteWidths(P))
  OBVIOUS
<1>6. /\ d[0] = 0
      /\ \A k \in 1 .. 5 * n : d[k] = d[k - 1] + P[k].w
  <2>1. P \in Seq(WriteOf(Value)) /\ Len(P) = 5 * n
    BY <1>3
  <2>2. /\ WriteWidths(P) \in Seq(Nat) /\ Len(WriteWidths(P)) = Len(P)
        /\ \A k \in 1 .. Len(P) : WriteWidths(P)[k] = P[k].w
    BY <2>1, WidthsOfWrites
  <2>3. /\ d[0] = 0
        /\ \A k \in 1 .. Len(P) : d[k] = d[k - 1] + WriteWidths(P)[k]
    BY <2>2, <1>d, EndsAre
  <2> QED
    BY <2>1, <2>2, <2>3
<1>7. ASSUME NEW i \in 1 .. n, d[5 * (i - 1)] = 64 * (i - 1), NEW j \in 0 .. 5
      PROVE  d[5 * (i - 1) + j] = 64 * (i - 1) + e[j]
  <2>1. PICK m : m = 5 * (i - 1)
    OBVIOUS
  <2>2. PICK x : x = 64 * (i - 1)
    OBVIOUS
  <2>3. m \in Nat /\ x \in Nat /\ d[m] = x /\ m + 5 <= 5 * n
    BY <1>1, <1>7, <2>1, <2>2
  <2>4. ASSUME NEW k \in 1 .. 5 PROVE d[m + k] = d[m + (k - 1)] + ServerWidth[F[k]]
    <3>1. m + k \in 1 .. 5 * n /\ (m + k) - 1 = m + (k - 1)
      BY <2>3, <1>1
    <3>2. P[m + k].w = ServerWidth[F[k]]
      BY <1>4, <2>1
    <3> QED
      BY <3>1, <3>2, <1>6
  <2>5. \A k \in 1 .. 5 : d[m + k] = d[m + (k - 1)] + ServerWidth[F[k]]
                          /\ e[k] = e[k - 1] + ServerWidth[F[k]] /\ e[k - 1] \in Nat
                          /\ ServerWidth[F[k]] \in Nat
    <3>1. ASSUME NEW k \in 1 .. 5 PROVE e[k - 1] \in Nat /\ ServerWidth[F[k]] \in Nat
      <4>1. k - 1 \in 0 .. 5 /\ k \in 1 .. Len(F)
        BY <1>2
      <4> QED
        BY <4>1, <1>2, <1>5 DEF AreFields
    <3> QED
      BY <2>4, <1>5, <3>1
  <2>6. m + 0 = m
    BY <2>3
  <2>7. d[m + 0] = x + e[0]
    BY <2>3, <2>6, <1>5
  <2>8. d[m + 1] = x + e[1]
    <3>1. 1 \in 1 .. 5 /\ 1 - 1 = 0
      OBVIOUS
    <3> QED
      BY <2>3, <2>5, <2>7, <3>1
  <2>9. d[m + 2] = x + e[2]
    <3>1. 2 \in 1 .. 5 /\ 2 - 1 = 1
      OBVIOUS
    <3> QED
      BY <2>3, <2>5, <2>8, <3>1
  <2>10. d[m + 3] = x + e[3]
    <3>1. 3 \in 1 .. 5 /\ 3 - 1 = 2
      OBVIOUS
    <3> QED
      BY <2>3, <2>5, <2>9, <3>1
  <2>11. d[m + 4] = x + e[4]
    <3>1. 4 \in 1 .. 5 /\ 4 - 1 = 3
      OBVIOUS
    <3> QED
      BY <2>3, <2>5, <2>10, <3>1
  <2>12. d[m + 5] = x + e[5]
    <3>1. 5 \in 1 .. 5 /\ 5 - 1 = 4
      OBVIOUS
    <3> QED
      BY <2>3, <2>5, <2>11, <3>1
  <2>13. j = 0 \/ j = 1 \/ j = 2 \/ j = 3 \/ j = 4 \/ j = 5
    OBVIOUS
  <2>14. d[m + j] = x + e[j]
    BY <2>7, <2>8, <2>9, <2>10, <2>11, <2>12, <2>13
  <2> QED
    BY <2>1, <2>2, <2>14
<1> DEFINE T == {i \in Nat : i <= n => d[5 * i] = 64 * i}
<1>8. 0 \in T
  BY <1>6
<1>9. ASSUME NEW i \in Nat, i \in T PROVE i + 1 \in T
  <2> SUFFICES ASSUME i + 1 <= n PROVE d[5 * (i + 1)] = 64 * (i + 1)
    OBVIOUS
  <2>1. PICK k \in 1 .. n : k = i + 1 /\ k - 1 = i
    BY <1>1
  <2>a. i <= n /\ (i <= n => d[5 * i] = 64 * i)
    BY <1>1, <1>9
  <2>b. d[5 * i] = 64 * i
    BY <2>a, Zenon
  <2>2. d[5 * (k - 1)] = 64 * (k - 1)
    BY <2>b, <2>1
  <2>3. d[5 * (k - 1) + 5] = 64 * (k - 1) + e[5]
    BY <1>7, <2>2
  <2>4. 5 * (k - 1) + 5 = 5 * (i + 1) /\ 64 * (k - 1) + 64 = 64 * (i + 1)
    BY <2>1
  <2> QED
    BY <2>3, <2>4, <1>5
<1>10. Nat \subseteq T
  <2> HIDE DEF T
  <2> QED
    BY <1>8, <1>9, NatInd
<1>11. \A i \in 0 .. n : d[5 * i] = 64 * i
  BY <1>10
<1>12. ASSUME NEW i \in 1 .. n, NEW j \in 1 .. 5
       PROVE  d[(5 * (i - 1) + j) - 1] = 64 * (i - 1) + e[j - 1]
  <2>1. i - 1 \in 0 .. n /\ j - 1 \in 0 .. 5
    BY <1>1
  <2>2. d[5 * (i - 1)] = 64 * (i - 1)
    BY <1>11, <2>1
  <2>3. d[5 * (i - 1) + (j - 1)] = 64 * (i - 1) + e[j - 1]
    BY <1>7, <2>1, <2>2
  <2>4. (5 * (i - 1) + j) - 1 = 5 * (i - 1) + (j - 1)
    OBVIOUS
  <2> QED
    BY <2>3, <2>4
<1>13. e = Ends(Widths(ServerWidth, ServerChatRoom))
  BY <1>e, <1>f, Zenon
<1>14. RowsAt(P, d, e, list)
  BY <1>n, <1>f, <1>4, <1>11, <1>12 DEF RowsAt
<1> QED
  BY <1>p, <1>d, <1>13, <1>14, Zenon

(* A buffer without a panic has room for everything when an integer is     *)
(* written last.                                                           *)
LEMMA NoPanicFits ==
    ASSUME NEW V, NEW writes \in Seq(WriteOf(V)), NEW size \in Int,
           Len(writes) > 0, writes[Len(writes)].kind = "integer",
           ~Write(size, writes).panic
    PROVE  Ends(WriteWidths(writes))[Len(writes)] <= size
<1> DEFINE end == Ends(WriteWidths(writes))
           panics(k) == end[IF writes[k].kind = "integer" THEN k ELSE k - 1] > size
           data == {[at |-> end[k - 1],
                     w |-> Lesser(writes[k].w, size - end[k - 1]),
                     v |-> writes[k].v] : k \in DOMAIN writes}
<1>1. Write(size, writes) =
        [len |-> size, pos |-> end[Len(writes)], data |-> data,
         panic |-> size < 0 \/ \E k \in DOMAIN writes : panics(k)]
  BY DEF Write, WriteWidths
<1> HIDE DEF data
<1>2. ~\E k \in DOMAIN writes : panics(k)
  <2> PICK b : b = (size < 0 \/ \E k \in DOMAIN writes : panics(k))
    OBVIOUS
  <2> HIDE DEF panics
  <2>1. Write(size, writes) = [len |-> size, pos |-> end[Len(writes)], data |-> data,
                               panic |-> b]
    BY <1>1, Zenon
  <2>2. ~b
    BY <2>1
  <2> QED
    BY <2>2
<1>3. Len(writes) \in DOMAIN writes /\ Len(writes) \in Nat
  OBVIOUS
<1>4. ~panics(Len(writes))
  <2> HIDE DEF panics
  <2> QED
    BY <1>2, <1>3
<1>5. ~(end[Len(writes)] > size)
  BY <1>4
<1>6. /\ WriteWidths(writes) \in Seq(Nat)
      /\ Len(writes) \in 0 .. Len(WriteWidths(writes))
  BY WidthsOfWrites, <1>3
<1>7. end[Len(writes)] \in Nat
  BY <1>6, EndsAre
<1> HIDE DEF end
<1>8. end[Len(writes)] <= size
  BY <1>5, <1>7
<1> QED
  BY <1>8 DEF end

(* What follows the header of a list.                                      *)
ListWrites(code, m, list) ==
    PutFields(ServerWidth, <<"ErrorCode", "Len">>,
              [ErrorCode |-> Number(code), Len |-> Number(m)])
      \o PutRows(ServerWidth, list)

(* R is what follows the header, and d is where its parts end.             *)
FollowsHeader(R, d, code, m, list) ==
    /\ R \in Seq(WriteOf(Value)) /\ Len(R) = 2 + 5 * Len(list)
    /\ d[Len(R)] = 4 + 64 * Len(list)
    /\ d[0] = 0 /\ d[1] = 2
    /\ R[1].w = 2 /\ R[1].v = Number(code)
    /\ R[2].w = 2 /\ R[2].v = Number(m)
    /\ R[Len(R)].kind = "integer"
    /\ \A i \in 1 .. Len(list), j \in 1 .. 5 :
          LET k == 2 + (5 * (i - 1) + j)
          IN  /\ k \in 1 .. Len(R)
              /\ d[k - 1] = 4 + (64 * (i - 1)
                                    + Ends(Widths(ServerWidth, ServerChatRoom))[j - 1])
              /\ R[k].w = ServerWidth[ServerChatRoom[j]]
              /\ R[k].v = list[i][ServerChatRoom[j]]
    /\ \A k \in 1 .. Len(R) : R[k].v.text = "number" \/ R[k].v.n <= R[k].w

(* What follows the header of the list: its first two fields and the rows. *)
LEMMA ListWritten ==
    ASSUME NEW list, AreRows(list), NEW code \in Int, NEW m \in Int
    PROVE  FollowsHeader(ListWrites(code, m, list),
                         Ends(WriteWidths(ListWrites(code, m, list))),
                         code, m, list)
<1>n. PICK n : n = Len(list)
  OBVIOUS
<1>0. n \in Nat
  BY <1>n DEF AreRows
<1>c. PICK G : G = <<"ErrorCode", "Len">>
  OBVIOUS
<1>v. PICK val : val = [ErrorCode |-> Number(code), Len |-> Number(m)]
  OBVIOUS
<1>a. PICK A : A = PutFields(ServerWidth, G, val)
  OBVIOUS
<1>1. /\ AreFields(ServerWidth, G) /\ Len(G) = 2 /\ Total(ServerWidth, G) = 4
      /\ G[1] = "ErrorCode" /\ G[2] = "Len"
      /\ ServerWidth["ErrorCode"] = 2 /\ ServerWidth["Len"] = 2
  BY <1>c, FieldsOfTwo DEF ServerWidth
<1>2. /\ Fit(ServerWidth, G, val) /\ val["ErrorCode"] = Number(code) /\ val["Len"] = Number(m)
      /\ Number(code).text = "number" /\ Number(m).text = "number"
  <2>1. val["ErrorCode"] = Number(code) /\ val["Len"] = Number(m)
    BY <1>v
  <2>2. /\ Number(code) \in Value /\ Number(m) \in Value
        /\ Number(code).text = "number" /\ Number(m).text = "number"
    BY NumberIsValue
  <2>3. \A k \in 1 .. 2 : k = 1 \/ k = 2
    OBVIOUS
  <2> QED
    BY <1>1, <2>1, <2>2, <2>3 DEF Fit
<1>3. /\ A \in Seq(WriteOf(Value)) /\ Len(A) = 2 /\ WriteWidths(A) = Widths(ServerWidth, G)
      /\ A[1].w = 2 /\ A[1].v = Number(code) /\ A[2].w = 2 /\ A[2].v = Number(m)
  <2>1. /\ A \in Seq(WriteOf(Value)) /\ Len(A) = Len(G)
        /\ WriteWidths(A) = Widths(ServerWidth, G)
        /\ \A k \in 1 .. Len(G) : A[k].w = ServerWidth[G[k]] /\ A[k].v = val[G[k]]
    BY <1>1, <1>2, <1>a, FieldsWritten
  <2>2. 1 \in 1 .. Len(G) /\ 2 \in 1 .. Len(G)
    BY <1>1
  <2> QED
    BY <2>1, <2>2, <1>1, <1>2
<1>4. A[2].kind = "integer"
  <2>1. A[2] = [kind |-> IF G[2] \in IntegerField THEN "integer" ELSE "bytes",
                w |-> ServerWidth[G[2]], v |-> val[G[2]]]
    <3>1. 2 \in DOMAIN G
      BY <1>c
    <3> QED
      BY <3>1, <1>a DEF PutFields
  <2>2. G[2] \in IntegerField
    BY <1>1 DEF IntegerField, Integers16
  <2> QED
    BY <2>1, <2>2
<1>b. PICK B : B = PutRows(ServerWidth, list)
  OBVIOUS
<1>e. PICK e : e = Ends(Widths(ServerWidth, ServerChatRoom))
  OBVIOUS
<1>5. /\ B \in Seq(WriteOf(Value)) /\ Len(B) = 5 * n
      /\ \A i \in 1 .. n, j \in 1 .. 5 :
            B[5 * (i - 1) + j] = PutFields(ServerWidth, ServerChatRoom, list[i])[j]
  <2>1. /\ B \in Seq(WriteOf(Value)) /\ Len(B) = 5 * Len(list)
        /\ \A i \in 1 .. Len(list), j \in 1 .. 5 :
              B[5 * (i - 1) + j] = PutFields(ServerWidth, ServerChatRoom, list[i])[j]
    BY <1>b, RowsWritten
  <2> QED
    BY <2>1, <1>n, Zenon
<1>f. PICK f : f = Ends(WriteWidths(B))
  OBVIOUS
<1>6. /\ \A i \in 0 .. n : f[5 * i] = 64 * i
      /\ \A i \in 1 .. n, j \in 1 .. 5 :
            /\ f[(5 * (i - 1) + j) - 1] = 64 * (i - 1) + e[j - 1]
            /\ B[5 * (i - 1) + j].w = ServerWidth[ServerChatRoom[j]]
            /\ B[5 * (i - 1) + j].v = list[i][ServerChatRoom[j]]
  <2>1. RowsAt(B, f, e, list)
    BY <1>b, <1>e, <1>f, RowEnds, Zenon
  <2> QED
    BY <2>1, <1>n DEF RowsAt
<1>r. PICK R : R = A \o B
  OBVIOUS
<1>7. /\ R \in Seq(WriteOf(Value)) /\ Len(R) = 2 + 5 * n
      /\ \A k \in 1 .. 2 : R[k] = A[k]
      /\ \A k \in 1 .. 5 * n : R[2 + k] = B[k]
  <2>1. A \in Seq(WriteOf(Value)) /\ B \in Seq(WriteOf(Value))
    BY <1>3, <1>5
  <2>2. /\ R \in Seq(WriteOf(Value)) /\ Len(R) = Len(A) + Len(B)
        /\ \A k \in 1 .. Len(A) : R[k] = A[k]
        /\ \A k \in 1 .. Len(B) : R[Len(A) + k] = B[k]
    BY <2>1, <1>r, Concatenated
  <2> QED
    BY <2>2, <1>3, <1>5
<1>d. PICK d : d = Ends(WriteWidths(R))
  OBVIOUS
<1>8. /\ \A k \in 0 .. 5 * n : d[2 + k] = 4 + f[k]
      /\ d[0] = 0 /\ d[1] = 2
  <2>1. WriteWidths(R) = WriteWidths(A) \o WriteWidths(B)
    BY <1>3, <1>5, <1>r, WidthsConcat
  <2>2. /\ WriteWidths(A) \in Seq(Nat) /\ Len(WriteWidths(A)) = 2
        /\ WriteWidths(B) \in Seq(Nat) /\ Len(WriteWidths(B)) = 5 * n
    <3>1. A \in Seq(WriteOf(Value)) /\ B \in Seq(WriteOf(Value)) /\ Len(A) = 2 /\ Len(B) = 5 * n
      BY <1>3, <1>5
    <3> QED
      BY <3>1, WidthsOfWrites
  <2>u. PICK u : u = WriteWidths(A)
    OBVIOUS
  <2>w. PICK w : w = WriteWidths(B)
    OBVIOUS
  <2>3. /\ \A k \in 0 .. Len(u) : Ends(u \o w)[k] = Ends(u)[k]
        /\ \A k \in 0 .. Len(w) : Ends(u \o w)[Len(u) + k] = Ends(u)[Len(u)] + Ends(w)[k]
    <3>1. u \in Seq(Nat) /\ w \in Seq(Nat)
      BY <2>2, <2>u, <2>w
    <3> QED
      BY <3>1, EndsConcat
  <2>4. d = Ends(u \o w)
    BY <2>1, <2>u, <2>w, <1>d, Zenon
  <2>5. Ends(u)[0] = 0 /\ Ends(u)[1] = 2 /\ Ends(u)[2] = 4
    <3>1. /\ Ends(Widths(ServerWidth, G))[0] = 0
          /\ Len(G) >= 1 => Ends(Widths(ServerWidth, G))[1] = ServerWidth[G[1]]
          /\ Total(ServerWidth, G) = Ends(Widths(ServerWidth, G))[Len(G)]
      BY <1>1, FirstEnds, WidthsAre
    <3>2. u = Widths(ServerWidth, G)
      BY <1>3, <2>u
    <3> QED
      BY <1>1, <3>1, <3>2
  <2>6. Len(u) = 2 /\ Len(w) = 5 * n /\ Ends(w) = f
    BY <2>2, <2>u, <2>w, <1>f
  <2>7. \A k \in 0 .. 2 : d[k] = Ends(u)[k]
    BY <2>3, <2>4, <2>6
  <2>8. \A k \in 0 .. 5 * n : d[2 + k] = 4 + f[k]
    BY <2>3, <2>4, <2>5, <2>6
  <2> QED
    BY <2>5, <2>7, <2>8
<1>9. ASSUME NEW i \in 1 .. n, NEW j \in 1 .. 5
      PROVE  LET k == 2 + (5 * (i - 1) + j)
             IN  /\ k \in 1 .. Len(R)
                 /\ d[k - 1] = 4 + (64 * (i - 1) + e[j - 1])
                 /\ R[k].w = ServerWidth[ServerChatRoom[j]]
                 /\ R[k].v = list[i][ServerChatRoom[j]]
                 /\ R[k] = B[5 * (i - 1) + j]
  <2>1. PICK k : k = 5 * (i - 1) + j
    OBVIOUS
  <2>2. k \in 1 .. 5 * n /\ k - 1 \in 0 .. 5 * n /\ 2 + k \in 1 .. 2 + 5 * n
        /\ (2 + k) - 1 = 2 + (k - 1)
    BY <1>0, <2>1
  <2>3. R[2 + k] = B[k]
    BY <1>7, <2>2
  <2>4. /\ f[k - 1] = 64 * (i - 1) + e[j - 1]
        /\ B[k].w = ServerWidth[ServerChatRoom[j]]
        /\ B[k].v = list[i][ServerChatRoom[j]]
    BY <1>6, <2>1
  <2>5. d[(2 + k) - 1] = 4 + f[k - 1]
    BY <1>8, <2>2
  <2> QED
    BY <1>7, <2>1, <2>2, <2>3, <2>4, <2>5
<1>10. d[Len(R)] = 4 + 64 * n
  <2>1. n \in 0 .. n /\ 5 * n \in 0 .. 5 * n
    BY <1>0
  <2> QED
    BY <2>1, <1>6, <1>7, <1>8
<1>11. R[Len(R)].kind = "integer"
  <2>1. CASE n = 0
    <3>1. Len(R) = 2 /\ 2 \in 1 .. 2
      BY <2>1, <1>7
    <3> QED
      BY <3>1, <1>4, <1>7
  <2>2. CASE n # 0
    <3>1. n \in 1 .. n /\ 5 \in 1 .. 5 /\ Len(R) = 2 + (5 * (n - 1) + 5)
      BY <2>2, <1>0, <1>7
    <3>2. R[Len(R)] = PutFields(ServerWidth, ServerChatRoom, list[n])[5]
      BY <3>1, <1>5, <1>9
    <3>3. ServerChatRoom[5] \in IntegerField /\ 5 \in DOMAIN ServerChatRoom
      BY DEF ServerChatRoom, IntegerField, Integers16
    <3>4. PutFields(ServerWidth, ServerChatRoom, list[n])[5] =
            [kind |-> IF ServerChatRoom[5] \in IntegerField THEN "integer" ELSE "bytes",
             w |-> ServerWidth[ServerChatRoom[5]],
             v |-> list[n][ServerChatRoom[5]]]
      BY <3>3 DEF PutFields
    <3> QED
      BY <3>2, <3>3, <3>4
  <2> QED
    BY <2>1, <2>2
<1>12. ASSUME NEW k \in 1 .. Len(R)
       PROVE  R[k].v.text = "number" \/ R[k].v.n <= R[k].w
  <2>1. CASE k <= 2
    <3>1. (k = 1 \/ k = 2) /\ k \in 1 .. 2
      BY <2>1
    <3> QED
      BY <3>1, <1>2, <1>3, <1>7
  <2>2. CASE ~(k <= 2)
    <3>1. k - 2 \in 1 .. 5 * n
      BY <2>2, <1>0, <1>7
    <3>2. PICK i \in 1 .. n, j \in 1 .. 5 : k - 2 = 5 * (i - 1) + j
      BY <3>1, <1>0, PositionRow
    <3>3. k = 2 + (5 * (i - 1) + j)
      BY <3>2
    <3>4. R[k].w = ServerWidth[ServerChatRoom[j]] /\ R[k].v = list[i][ServerChatRoom[j]]
      BY <3>3, <1>9
    <3>5. Fit(ServerWidth, ServerChatRoom, list[i])
      BY <1>n DEF AreRows
    <3>6. j \in 1 .. Len(ServerChatRoom)
      BY FieldsOfRow
    <3> QED
      BY <3>4, <3>5, <3>6 DEF Fit
  <2> QED
    BY <2>1, <2>2
<1>13. R = ListWrites(code, m, list)
  BY <1>a, <1>b, <1>c, <1>r, <1>v DEF ListWrites
<1>14. FollowsHeader(R, d, code, m, list)
  BY <1>n, <1>e, <1>3, <1>7, <1>8, <1>9, <1>10, <1>11, <1>12 DEF FollowsHeader
<1> QED
  BY <1>d, <1>13, <1>14, Zenon

(* A packet with such a list in it, and its body.                          *)
HasList(p, b, size, code, m, list) ==
    /\ Packet(p) /\ p.len = size /\ p.pos = HeaderSize + (4 + 64 * Len(list))
    /\ PacketTotalSize(p) = size /\ PeekPacketID(p) = 804
    /\ b.len = size - HeaderSize /\ b.data \subseteq SlotOf(Value)
    /\ Holds(b, 0, 2, Number(code)) /\ Holds(b, 2, 2, Number(m))
    /\ \A i \in 1 .. Len(list), j \in 1 .. 5 :
          Holds(b, 4 + (64 * (i - 1) + Ends(Widths(ServerWidth, ServerChatRoom))[j - 1]),
                ServerWidth[ServerChatRoom[j]], list[i][ServerChatRoom[j]])

(* The buffer of the list.                                                 *)
ListBuffer(size, code, m, list) ==
    Write(size, Header(size, 804) \o ListWrites(code, m, list))

(* A buffer that has room for the list holds it.                           *)
LEMMA ListPacket ==
    ASSUME NEW list, AreRows(list), NEW code \in Int, NEW m \in Int,
           NEW size \in Int, HeaderSize + (4 + 64 * Len(list)) <= size,
           NEW p, p = ListBuffer(size, code, m, list)
    PROVE  HasList(p, PeekPacketBody(p), size, code, m, list)
<1>r. PICK R : R = ListWrites(code, m, list)
  OBVIOUS
<1>d. PICK d : d = Ends(WriteWidths(R))
  OBVIOUS
<1>1. FollowsHeader(R, d, code, m, list)
  BY <1>r, <1>d, ListWritten, Zenon
<1>n. PICK n : n = Len(list)
  OBVIOUS
<1>0. n \in Nat
  BY <1>n DEF AreRows
<1>e. PICK e : e = Ends(Widths(ServerWidth, ServerChatRoom))
  OBVIOUS
<1>2. /\ R \in Seq(WriteOf(Value)) /\ Len(R) = 2 + 5 * n
      /\ d[Len(R)] = 4 + 64 * n /\ d[0] = 0 /\ d[1] = 2
      /\ R[1].w = 2 /\ R[1].v = Number(code) /\ R[2].w = 2 /\ R[2].v = Number(m)
      /\ \A i \in 1 .. n, j \in 1 .. 5 :
            /\ 2 + (5 * (i - 1) + j) \in 1 .. Len(R)
            /\ d[(2 + (5 * (i - 1) + j)) - 1] = 4 + (64 * (i - 1) + e[j - 1])
            /\ R[2 + (5 * (i - 1) + j)].w = ServerWidth[ServerChatRoom[j]]
            /\ R[2 + (5 * (i - 1) + j)].v = list[i][ServerChatRoom[j]]
      /\ \A k \in 1 .. Len(R) : R[k].v.text = "number" \/ R[k].v.n <= R[k].w
  BY <1>1, <1>n, <1>e DEF FollowsHeader
<1>3. HeaderSize + (4 + 64 * n) <= size /\ 0 <= size
  <2>1. HeaderSize + (4 + 64 * n) <= size
    BY <1>n, Zenon
  <2> QED
    BY <2>1, <1>0 DEF HeaderSize
<1>4. HeaderSize + Ends(WriteWidths(R))[Len(R)] <= size
  BY <1>2, <1>3, <1>d, Zenon
<1>5. Number(size) \in Value /\ Number(804) \in Value /\ Number(0) \in Value
  BY NumberIsValue
<1>p. p = Write(size, Header(size, 804) \o R)
  BY <1>r DEF ListBuffer
<1>b. PICK b : b = PeekPacketBody(p)
  OBVIOUS
<1>6. /\ p.len = size /\ ~p.panic
      /\ p.pos = HeaderSize + d[Len(R)]
      /\ PacketTotalSize(p) = size /\ PeekPacketID(p) = 804
      /\ \A s \in p.data : \/ \E x : s.v = Number(x) /\ s.v \in Value
                           \/ \E k \in 1 .. Len(R) : s.w = R[k].w /\ s.v = R[k].v
      /\ b.len = size - HeaderSize /\ b.data \subseteq SlotOf(Value)
      /\ \A k \in 1 .. Len(R) : Holds(b, d[k - 1], R[k].w, R[k].v)
  <2>1. R \in Seq(WriteOf(Value))
    BY <1>2
  <2>2. /\ p.len = size /\ ~p.panic
        /\ p.pos = HeaderSize + Ends(WriteWidths(R))[Len(R)]
        /\ PacketTotalSize(p) = size /\ PeekPacketID(p) = 804
        /\ \A s \in p.data : \/ \E x : s.v = Number(x) /\ s.v \in Value
                             \/ \E k \in 1 .. Len(R) : s.w = R[k].w /\ s.v = R[k].v
        /\ b.len = size - HeaderSize /\ b.data \subseteq SlotOf(Value)
        /\ \A k \in 1 .. Len(R) :
              Holds(b, Ends(WriteWidths(R))[k - 1], R[k].w, R[k].v)
    BY <2>1, <1>4, <1>5, <1>p, <1>b, PacketFits
  <2> QED
    BY <2>2, <1>d, Zenon
<1>7. Packet(p)
  <2>1. ASSUME NEW s \in p.data
        PROVE  s.v \in Value /\ (s.v.text = "number" \/ s.v.n <= s.w)
    <3>1. CASE \E x : s.v = Number(x) /\ s.v \in Value
      BY <3>1 DEF Number
    <3>2. CASE \E k \in 1 .. Len(R) : s.w = R[k].w /\ s.v = R[k].v
      <4>1. PICK k \in 1 .. Len(R) : s.w = R[k].w /\ s.v = R[k].v
        BY <3>2
      <4>2. R[k] \in WriteOf(Value)
        BY <1>2
      <4>3. R[k].v \in Value
        BY <4>2 DEF WriteOf
      <4> QED
        BY <4>1, <4>3, <1>2
    <3> QED
      BY <3>1, <3>2, <1>6
  <2>2. p.len \in Nat /\ p.pos \in Nat
    BY <1>0, <1>2, <1>3, <1>6 DEF HeaderSize
  <2> QED
    BY <2>1, <2>2, <1>6 DEF Packet
<1>8. Holds(b, 0, 2, Number(code)) /\ Holds(b, 2, 2, Number(m))
  <2>1. 1 \in 1 .. Len(R) /\ 2 \in 1 .. Len(R) /\ 1 - 1 = 0 /\ 2 - 1 = 1
    BY <1>0, <1>2
  <2>2. Holds(b, d[0], R[1].w, R[1].v) /\ Holds(b, d[1], R[2].w, R[2].v)
    BY <2>1, <1>6
  <2> QED
    BY <2>2, <1>2
<1>9. ASSUME NEW i \in 1 .. n, NEW j \in 1 .. 5
      PROVE  Holds(b, 4 + (64 * (i - 1) + e[j - 1]),
                   ServerWidth[ServerChatRoom[j]], list[i][ServerChatRoom[j]])
  <2>k. PICK k : k = 2 + (5 * (i - 1) + j)
    OBVIOUS
  <2>1. /\ k \in 1 .. Len(R) /\ d[k - 1] = 4 + (64 * (i - 1) + e[j - 1])
        /\ R[k].w = ServerWidth[ServerChatRoom[j]]
        /\ R[k].v = list[i][ServerChatRoom[j]]
    BY <1>2, <2>k
  <2>2. Holds(b, d[k - 1], R[k].w, R[k].v)
    BY <2>1, <1>6
  <2> QED
    BY <2>1, <2>2, Zenon
<1>10. p.pos = HeaderSize + (4 + 64 * Len(list))
  BY <1>2, <1>6, <1>n, Zenon
<1>11. HasList(p, b, size, code, m, list)
  BY <1>6, <1>7, <1>8, <1>9, <1>10, <1>n, <1>e DEF HasList
<1> QED
  BY <1>11, <1>b

(* Every field of a row lies within its 64 bytes.                          *)
LEMMA RowInside ==
    ASSUME NEW j \in 1 .. 5
    PROVE  LET e == Ends(Widths(ServerWidth, ServerChatRoom))
               w == ServerWidth[ServerChatRoom[j]]
           IN  e[j - 1] \in Nat /\ w \in Nat /\ e[j - 1] + w <= 64
<1>f. PICK F : F = ServerChatRoom
  OBVIOUS
<1>1. AreFields(ServerWidth, F)
  BY <1>f, FieldsOfRow
<1>2. Len(F) = 5 /\ Total(ServerWidth, F) = 64
  BY <1>f, FieldsOfRow
<1>e. PICK e : e = Ends(Widths(ServerWidth, F))
  OBVIOUS
<1>3. /\ Widths(ServerWidth, F) \in Seq(Nat) /\ Len(Widths(ServerWidth, F)) = 5
      /\ \A k \in 1 .. 5 : Widths(ServerWidth, F)[k] = ServerWidth[F[k]]
      /\ Total(ServerWidth, F) = Ends(Widths(ServerWidth, F))[5]
  <2>1. AreFields(ServerWidth, F) /\ Len(F) = 5
    BY <1>1, <1>2
  <2>2. /\ Widths(ServerWidth, F) \in Seq(Nat)
        /\ Len(Widths(ServerWidth, F)) = Len(F)
        /\ \A k \in 1 .. Len(F) : Widths(ServerWidth, F)[k] = ServerWidth[F[k]]
        /\ Total(ServerWidth, F) = Ends(Widths(ServerWidth, F))[Len(F)]
    BY <1>1, WidthsAre
  <2> QED
    BY <1>2, <2>2
<1>4. /\ \A k \in 0 .. 5 : e[k] \in Nat
      /\ \A k \in 1 .. 5 : e[k] = e[k - 1] + Widths(ServerWidth, F)[k]
  BY <1>3, <1>e, EndsAre
<1>5. /\ \A k \in 1 .. 5 : e[k] = e[k - 1] + ServerWidth[F[k]]
      /\ \A k \in 1 .. 5 : ServerWidth[F[k]] \in Nat
      /\ e[5] = 64
  <2>1. \A k \in 1 .. 5 : ServerWidth[F[k]] \in Nat
    BY <1>1, <1>2 DEF AreFields
  <2>2. e[5] = 64
    BY <1>2, <1>3, <1>e, Zenon
  <2> QED
    <3>1. \A k \in 1 .. 5 : e[k] = e[k - 1] + ServerWidth[F[k]]
      BY <1>3, <1>4
    <3> QED
      BY <2>1, <2>2, <3>1, Zenon
<1>6. /\ 1 - 1 = 0 /\ 2 - 1 = 1 /\ 3 - 1 = 2 /\ 4 - 1 = 3 /\ 5 - 1 = 4
      /\ 1 \in 1 .. 5 /\ 2 \in 1 .. 5 /\ 3 \in 1 .. 5 /\ 4 \in 1 .. 5 /\ 5 \in 1 .. 5
      /\ 0 \in 0 .. 5
  OBVIOUS
<1>8. /\ e[0] \in Nat /\ e[1] = e[0] + ServerWidth[F[1]] /\ e[2] = e[1] + ServerWidth[F[2]]
      /\ e[3] = e[2] + ServerWidth[F[3]] /\ e[4] = e[3] + ServerWidth[F[4]]
      /\ e[5] = e[4] + ServerWidth[F[5]] /\ e[5] = 64
  BY <1>4, <1>5, <1>6
<1>9. /\ ServerWidth[F[1]] \in Nat /\ ServerWidth[F[2]] \in Nat
      /\ ServerWidth[F[3]] \in Nat /\ ServerWidth[F[4]] \in Nat /\ ServerWidth[F[5]] \in Nat
  BY <1>5, <1>6
<1>10. e[1] <= 64 /\ e[2] <= 64 /\ e[3] <= 64 /\ e[4] <= 64 /\ e[5] <= 64
  BY <1>8, <1>9
<1>11. e[j - 1] \in Nat /\ ServerWidth[F[j]] \in Nat /\ e[j - 1] + ServerWidth[F[j]] <= 64
  <2>1. j - 1 \in 0 .. 5
    OBVIOUS
  <2>2. e[j] <= 64
    <3>1. j = 1 \/ j = 2 \/ j = 3 \/ j = 4 \/ j = 5
      OBVIOUS
    <3> QED
      BY <3>1, <1>10
  <2> QED
    BY <2>1, <2>2, <1>4, <1>5
<1>12. e = Ends(Widths(ServerWidth, ServerChatRoom)) /\ F = ServerChatRoom
  BY <1>e, <1>f, Zenon
<1> QED
  BY <1>11, <1>12, Zenon

(* A row is read from where it was written.                                *)
LEMMA RowDecoded ==
    ASSUME NEW b, b.data \subseteq SlotOf(Value), NEW x \in Int, NEW row
    PROVE  (\A j \in 1 .. 5 :
              Holds(b, x + Ends(Widths(ServerWidth, ServerChatRoom))[j - 1],
                    ServerWidth[ServerChatRoom[j]], row[ServerChatRoom[j]]))
           => GetFields(ServerWidth, Slice(b, x, 64), ServerChatRoom).values
                = Filled(ServerChatRoom, row)
<1>h. SUFFICES ASSUME \A j \in 1 .. 5 :
              Holds(b, x + Ends(Widths(ServerWidth, ServerChatRoom))[j - 1],
                    ServerWidth[ServerChatRoom[j]], row[ServerChatRoom[j]])
      PROVE  GetFields(ServerWidth, Slice(b, x, 64), ServerChatRoom).values
                = Filled(ServerChatRoom, row)
  OBVIOUS
<1>f. PICK F : F = ServerChatRoom
  OBVIOUS
<1>e. PICK e : e = Ends(Widths(ServerWidth, F))
  OBVIOUS
<1>12. e = Ends(Widths(ServerWidth, ServerChatRoom)) /\ F = ServerChatRoom
  BY <1>e, <1>f, Zenon
<1>1. AreFields(ServerWidth, F)
  BY <1>f, FieldsOfRow
<1>2. Len(F) = 5 /\ Total(ServerWidth, F) = 64
  BY <1>f, FieldsOfRow
<1>s. PICK s : s = Slice(b, x, 64)
  OBVIOUS
<1>3. s.len = 64
  BY <1>s DEF Slice
<1>4. ASSUME NEW j \in 1 .. 5
      PROVE  Holds(s, e[j - 1], ServerWidth[F[j]], row[F[j]])
  <2>1. PICK y \in Nat, w \in Nat : y = e[j - 1] /\ w = ServerWidth[F[j]] /\ y + w <= 64
    BY <1>12, RowInside
  <2>2. Holds(b, x + e[j - 1], ServerWidth[F[j]], row[F[j]])
    BY <1>h, <1>12
  <2>3. Holds(b, x + y, w, row[F[j]])
    BY <2>1, <2>2, Zenon
  <2>4. y \in Int /\ w \in Int /\ 64 \in Int /\ 0 <= y /\ y + w <= 64
    BY <2>1
  <2>5. Holds(Slice(b, x, 64), y, w, row[F[j]])
    BY <2>3, <2>4, SliceHolds
  <2> QED
    BY <2>1, <2>5, <1>s, Zenon
<1>5. \A k \in 1 .. Len(F) :
          Holds(s, Ends(Widths(ServerWidth, F))[k - 1], ServerWidth[F[k]], row[F[k]])
  <2>1. \A k \in 1 .. Len(F) : k \in 1 .. 5
    BY <1>2
  <2> QED
    BY <2>1, <1>4, <1>e, Zenon
<1>6. s.len \in Int /\ Total(ServerWidth, F) <= s.len
  BY <1>2, <1>3
<1>7. GetFields(ServerWidth, s, F).values = Filled(F, row)
  <2>1. Total(ServerWidth, F) <= s.len
    BY <1>6
  <2>2. s.len \in Int
    BY <1>6
  <2>3. /\ GetFields(ServerWidth, s, F).ok
        /\ GetFields(ServerWidth, s, F).values = Filled(F, row)
    BY <1>1, <1>5, <2>1, <2>2, GetFieldsHolds, Zenon
  <2> QED
    BY <2>3
<1> QED
  BY <1>7, <1>f, <1>s, Zenon

(* The client's decoder finds the list.                                    *)
LEMMA ListDecoded ==
    ASSUME NEW list, AreRows(list), NEW code \in Int, NEW p, NEW b, NEW size \in Int,
           HasList(p, b, size, code, Len(list), list),
           HeaderSize + (4 + 64 * Len(list)) <= size
    PROVE  (\A i \in 1 .. Len(list) : list[i] = Filled(ServerChatRoom, list[i]))
           => ClientViewRes(b) = [ErrorCode |-> Number(code),
                                  Len |-> Number(Len(list)), rows |-> list]
<1>w. SUFFICES ASSUME \A i \in 1 .. Len(list) : list[i] = Filled(ServerChatRoom, list[i])
      PROVE  ClientViewRes(b) = [ErrorCode |-> Number(code),
                                 Len |-> Number(Len(list)), rows |-> list]
  OBVIOUS
<1>n. PICK n : n = Len(list)
  OBVIOUS
<1>0. n \in Nat
  BY <1>n DEF AreRows
<1>e. PICK e : e = Ends(Widths(ServerWidth, ServerChatRoom))
  OBVIOUS
<1>c. PICK G : G = <<"ErrorCode", "Len">>
  OBVIOUS
<1>v. PICK val : val = [ErrorCode |-> Number(code), Len |-> Number(n)]
  OBVIOUS
<1>f. PICK F : F = ServerChatRoom
  OBVIOUS
<1>1. /\ b.len = size - HeaderSize /\ b.data \subseteq SlotOf(Value)
      /\ Holds(b, 0, 2, Number(code)) /\ Holds(b, 2, 2, Number(n))
      /\ \A i \in 1 .. n, j \in 1 .. 5 :
            Holds(b, 4 + (64 * (i - 1) + e[j - 1]), ServerWidth[F[j]], list[i][F[j]])
  BY <1>n, <1>e, <1>f DEF HasList
<1>2. b.len \in Int /\ 4 <= b.len
  <2>1. HeaderSize + (4 + 64 * n) <= size
    BY <1>n, Zenon
  <2> QED
    BY <2>1, <1>0, <1>1 DEF HeaderSize
<1>3. /\ AreFields(ServerWidth, G) /\ Len(G) = 2 /\ Total(ServerWidth, G) = 4
      /\ G[1] = "ErrorCode" /\ G[2] = "Len"
      /\ ServerWidth["ErrorCode"] = 2 /\ ServerWidth["Len"] = 2
  BY <1>c, FieldsOfTwo DEF ServerWidth
<1>4. val["ErrorCode"] = Number(code) /\ val["Len"] = Number(n)
  BY <1>v
<1>h. PICK head : head = GetFields(ServerWidth, b, G)
  OBVIOUS
<1>5. head.ok /\ head.values = Filled(G, val)
  <2>1. /\ Ends(Widths(ServerWidth, G))[0] = 0
        /\ Ends(Widths(ServerWidth, G))[1] = 2
    <3>1. /\ Ends(Widths(ServerWidth, G))[0] = 0
          /\ Len(G) >= 1 => Ends(Widths(ServerWidth, G))[1] = ServerWidth[G[1]]
      BY <1>3, FirstEnds
    <3> QED
      BY <3>1, <1>3
  <2>2. ASSUME NEW k \in 1 .. Len(G)
        PROVE  Holds(b, Ends(Widths(ServerWidth, G))[k - 1], ServerWidth[G[k]], val[G[k]])
    <3>1. CASE k = 1
      <4>1. k - 1 = 0
        BY <3>1
      <4> QED
        BY <3>1, <4>1, <2>1, <1>1, <1>3, <1>4
    <3>2. CASE k = 2
      <4>1. k - 1 = 1
        BY <3>2
      <4> QED
        BY <3>2, <4>1, <2>1, <1>1, <1>3, <1>4
    <3>3. k = 1 \/ k = 2
      BY <1>3
    <3> QED
      BY <3>1, <3>2, <3>3
  <2>3. Total(ServerWidth, G) <= b.len
    BY <1>2, <1>3
  <2>4. AreFields(ServerWidth, G) /\ b.len \in Int
    BY <1>2, <1>3
  <2>5. /\ GetFields(ServerWidth, b, G).ok
        /\ GetFields(ServerWidth, b, G).values = Filled(G, val)
    BY <2>2, <2>3, <2>4, GetFieldsHolds, Zenon
  <2> QED
    BY <2>5, <1>h, Zenon
<1>6. head.values.ErrorCode = Number(code) /\ head.values.Len = Number(n)
  <2>1. {G[k] : k \in 1 .. Len(G)} = {"ErrorCode", "Len"}
    <3>1. \A k : k \in 1 .. 2 <=> k = 1 \/ k = 2
      OBVIOUS
    <3> QED
      BY <3>1, <1>3
  <2>2. head.values = [f \in {"ErrorCode", "Len"} |-> val[f]]
    BY <2>1, <1>5, Zenon DEF Filled
  <2> QED
    BY <2>2, <1>4
<1>7. Number(n).n = n
  BY <1>0, NumberIsValue
<1>8. /\ AreFields(ServerWidth, F) /\ Len(F) = 5 /\ Total(ServerWidth, F) = 64
      /\ ClientChatRoom = F
  BY <1>f, FieldsOfRow
<1>9. ASSUME NEW i \in 1 .. n
      PROVE  GetFields(ServerWidth, Slice(b, 4 + (i - 1) * 64, 64), F).values = list[i]
  <2>x. PICK x \in Int : x = 4 + (i - 1) * 64
    OBVIOUS
  <2>1. ASSUME NEW j \in 1 .. 5
        PROVE  Holds(b, x + e[j - 1], ServerWidth[F[j]], list[i][F[j]])
    <3>1. Holds(b, 4 + (64 * (i - 1) + e[j - 1]), ServerWidth[F[j]], list[i][F[j]])
      BY <1>1
    <3>2. PICK y \in Nat : y = e[j - 1]
      BY <1>e, RowInside
    <3>3. 4 + (64 * (i - 1) + y) = x + y
      BY <2>x
    <3>4. Holds(b, 4 + (64 * (i - 1) + y), ServerWidth[F[j]], list[i][F[j]])
      BY <3>1, <3>2, Zenon
    <3>5. Holds(b, x + y, ServerWidth[F[j]], list[i][F[j]])
      BY <3>3, <3>4, Zenon
    <3> QED
      BY <3>2, <3>5, Zenon
  <2>2. b.data \subseteq SlotOf(Value)
    BY <1>1
  <2>r. PICK row : row = list[i]
    OBVIOUS
  <2>3. \A j \in 1 .. 5 :
            Holds(b, x + Ends(Widths(ServerWidth, ServerChatRoom))[j - 1],
                  ServerWidth[ServerChatRoom[j]], row[ServerChatRoom[j]])
    BY <2>1, <2>r, <1>e, <1>f, Zenon
  <2>4. GetFields(ServerWidth, Slice(b, x, 64), ServerChatRoom).values
          = Filled(ServerChatRoom, row)
    BY <2>2, <2>3, RowDecoded
  <2>5. row = Filled(ServerChatRoom, row)
    BY <2>r, <1>n, <1>w
  <2> QED
    BY <2>4, <2>5, <2>r, <2>x, <1>f, Zenon
<1> DEFINE rows == [i \in 1 .. n |->
                     GetFields(ServerWidth, Slice(b, 4 + (i - 1) * 64, 64), F).values]
<1>10. rows = list
  <2>1. list = [i \in 1 .. n |-> list[i]]
    BY <1>n DEF AreRows
  <2>2. rows = [i \in 1 .. n |-> list[i]]
    BY <1>9, Zenon
  <2> QED
    BY <2>1, <2>2, Zenon
<1>11. ClientViewRes(b) = [ErrorCode |-> head.values.ErrorCode, Len |-> head.values.Len,
                           rows |-> [i \in 1 .. head.values.Len.n |->
                             GetFields(ServerWidth, Slice(b, 4 + (i - 1) * 64, 64), F).values]]
  <2>1. Total(ServerWidth, <<"ErrorCode", "Len">>) = 4 /\ Total(ServerWidth, F) = 64
    BY <1>3, <1>8, <1>c
  <2>2. head = GetFields(ServerWidth, b, <<"ErrorCode", "Len">>)
    BY <1>h, <1>c, Zenon
  <2> QED
    BY <2>1, <2>2, <1>5, <1>8, SameWidths, Zenon DEF ClientViewRes
<1>12. [i \in 1 .. head.values.Len.n |->
            GetFields(ServerWidth, Slice(b, 4 + (i - 1) * 64, 64), F).values] = rows
  BY <1>6, <1>7, Zenon
<1> QED
  BY <1>6, <1>10, <1>11, <1>12, <1>n, Zenon

(* An int16 of a number that is not negative is no larger.                 *)
LEMMA Int16Below ==
    ASSUME NEW v \in Nat
    PROVE  Int16(v) \in Int /\ Int16(v) <= v
<1>1. PICK h : h = WordSize \div 2
  OBVIOUS
<1>2. h \in Nat /\ WordSize \in Nat \ {0}
  BY <1>1, HalfWord, PacketsAssumption
<1>3. Int16(v) = ((v + h) % WordSize) - h
  BY <1>1 DEF Int16
<1>4. PICK x \in Nat : x = v + h
  BY <1>2
<1>5. x % WordSize \in Nat /\ x % WordSize <= x
  <2>1. x % WordSize \in 0 .. WordSize - 1
    BY <1>2
  <2>2. CASE x < WordSize
    BY <2>2, <1>2
  <2>3. CASE ~(x < WordSize)
    BY <2>1, <2>3, <1>2
  <2> QED
    BY <2>2, <2>3
<1> PICK r : r = x % WordSize
  OBVIOUS
<1> QED
  BY <1>2, <1>3, <1>4, <1>5

(* The encoder of the list, in these terms: n is what an int16 makes of    *)
(* the number of rows, and L has the rows that are written.                *)
EncodedAs(list, n, size, L, p) ==
    /\ n = Int16(Len(list)) /\ n <= Len(list)
    /\ size = Int16(HeaderSize + (4 + 64 * n))
    /\ AreRows(L) /\ n <= Len(L)
    /\ n = Len(list) => L = list
    /\ p = Write(size, Header(size, 804) \o ListWrites(0, n, L))

(* The encoder writes the list so.                                         *)
LEMMA ListEncoded ==
    ASSUME NEW S, NEW list \in Seq(S), AreRows(list)
    PROVE  \E n \in Int : \E size \in Int : \E L :
               EncodedAs(list, n, size, L, ServerViewRes(0, list))
<1>k. PICK N : N = Len(list)
  OBVIOUS
<1>1. N \in Nat
  BY <1>k
<1>n. PICK n : n = Int16(N)
  OBVIOUS
<1>2. n \in Int /\ n <= N
  BY <1>1, <1>n, Int16Below
<1>l. PICK L : L = SubSeq(list, 1, n)
  OBVIOUS
<1>3. /\ L \in Seq(S) /\ Len(L) \in Nat /\ Len(L) <= N
      /\ Len(L) = IF 1 <= n THEN n ELSE 0
      /\ \A i \in 1 .. Len(L) : L[i] = list[i]
  <2>1. \A i \in 1 .. n : list[i] \in S
    BY <1>2, <1>1, <1>k
  <2>2. 1 \in Int /\ n - 1 + 1 = n /\ \A i \in 1 .. n : 1 + i - 1 = i
    BY <1>2
  <2>3. /\ L \in Seq(S) /\ Len(L) = IF 1 <= n THEN n - 1 + 1 ELSE 0
        /\ \A i \in 1 .. n - 1 + 1 : L[i] = list[1 + i - 1]
    BY <2>1, <2>2, <1>2, <1>l, SubSeqProperties
  <2>4. Len(L) = IF 1 <= n THEN n ELSE 0
    BY <2>2, <2>3
  <2>5. ASSUME NEW i \in 1 .. Len(L) PROVE L[i] = list[i]
    <3>1. i \in 1 .. n
      BY <2>4, <1>2
    <3> QED
      BY <3>1, <2>2, <2>3
  <2> QED
    BY <2>3, <2>4, <2>5, <1>1, <1>2
<1>4. AreRows(L)
  <2>1. L = [i \in 1 .. Len(L) |-> L[i]]
    BY <1>3
  <2>2. ASSUME NEW i \in 1 .. Len(L)
        PROVE  Fit(ServerWidth, ServerChatRoom, L[i])
    <3>1. i \in 1 .. N /\ L[i] = list[i]
      BY <1>3, <1>1
    <3>2. Fit(ServerWidth, ServerChatRoom, list[i])
      BY <3>1, <1>k DEF AreRows
    <3> QED
      BY <3>1, <3>2
  <2> QED
    BY <2>1, <2>2, <1>3 DEF AreRows
<1>5. n = N => L = list
  BY <1>1, <1>k, <1>l, SubSeqFull
<1>6. ListSize(ServerWidth, n) = Int16(HeaderSize + (4 + 64 * n))
  <2>1. ServerWidth.ErrorCode = 2 /\ ServerWidth.Len = 2
    BY DEF ServerWidth
  <2>2. Total(ServerWidth, ServerChatRoom) = 64
    BY FieldsOfRow
  <2>3. HeaderSize + ServerWidth.ErrorCode + ServerWidth.Len
          + n * Total(ServerWidth, ServerChatRoom) = HeaderSize + (4 + 64 * n)
    BY <2>1, <2>2, <1>2 DEF HeaderSize
  <2> QED
    BY <2>3, Zenon DEF ListSize
<1>s. PICK size : size = Int16(HeaderSize + (4 + 64 * n))
  OBVIOUS
<1>7. size \in Int
  <2>1. HeaderSize + (4 + 64 * n) \in Int
    BY <1>2 DEF HeaderSize
  <2> QED
    BY <2>1, <1>s, Int16Range
<1>8. ServerViewRes(0, list) = Write(size, Header(size, 804) \o ListWrites(0, n, L))
  <2>1. ServerViewRes(0, list) =
            Write(ListSize(ServerWidth, n),
                  Header(ListSize(ServerWidth, n), 804) \o ListWrites(0, n, L))
    BY <1>k, <1>n, <1>l DEF ServerViewRes, ListWrites
  <2>2. ListSize(ServerWidth, n) = size
    BY <1>6, <1>s, Zenon
  <2> QED
    BY <2>1, <2>2, Zenon
<1>9. n <= Len(L)
  BY <1>2, <1>3
<1>10. n = Int16(Len(list)) /\ n <= Len(list) /\ (n = Len(list) => L = list)
  BY <1>2, <1>5, <1>k, <1>n, Zenon
<1>11. EncodedAs(list, n, size, L, ServerViewRes(0, list))
  BY <1>4, <1>8, <1>9, <1>10, <1>s, Zenon DEF EncodedAs
<1> QED
  BY <1>2, <1>7, <1>11, Zenon

(* What the list of rooms becomes when its encoder does not panic: a       *)
(* packet, and the client finds the list in it when an int16 can count its *)
(* rows.                                                                   *)
LEMMA ListSent ==
    ASSUME NEW S, NEW list \in Seq(S), AreRows(list),
           NEW p, p = ServerViewRes(0, list), ~p.panic
    PROVE  /\ Packet(p) /\ PeekPacketID(p) = 804
           /\ Len(list) < WordSize \div 2 => p.pos = p.len /\ PacketTotalSize(p) = p.len
           /\ Len(list) < WordSize \div 2
              /\ (\A i \in 1 .. Len(list) : list[i] = Filled(ServerChatRoom, list[i]))
              => ClientViewRes(PeekPacketBody(p))
                   = [ErrorCode |-> Number(0), Len |-> Number(Len(list)), rows |-> list]
<1>k. PICK N : N = Len(list)
  OBVIOUS
<1>0. N \in Nat
  BY <1>k
<1>g. PICK n \in Int : \E size \in Int : \E L :
          EncodedAs(list, n, size, L, ServerViewRes(0, list))
  BY ListEncoded
<1>c. PICK size \in Int : \E L : EncodedAs(list, n, size, L, ServerViewRes(0, list))
  BY <1>g
<1>a. PICK L : EncodedAs(list, n, size, L, ServerViewRes(0, list))
  BY <1>c
<1>1. /\ n = Int16(N) /\ n <= N
      /\ size = Int16(HeaderSize + (4 + 64 * n))
      /\ AreRows(L) /\ n <= Len(L)
      /\ n = N => L = list
      /\ p = Write(size, Header(size, 804) \o ListWrites(0, n, L))
  BY <1>a, <1>k, Zenon DEF EncodedAs
<1>r. PICK R : R = ListWrites(0, n, L)
  OBVIOUS
<1>m. PICK M : M = Len(L)
  OBVIOUS
<1>2. M \in Nat /\ n <= M
  BY <1>1, <1>m DEF AreRows
<1>3. /\ R \in Seq(WriteOf(Value)) /\ Len(R) = 2 + 5 * M
      /\ Ends(WriteWidths(R))[Len(R)] = 4 + 64 * M
      /\ R[Len(R)].kind = "integer"
  <2>1. FollowsHeader(R, Ends(WriteWidths(R)), 0, n, L)
    <3>1. 0 \in Int /\ AreRows(L)
      BY <1>1
    <3> QED
      BY <3>1, <1>r, ListWritten, Zenon
  <2> QED
    BY <2>1, <1>m DEF FollowsHeader
<1>w. PICK P : P = Header(size, 804) \o R
  OBVIOUS
<1>4. /\ P \in Seq(WriteOf(Value)) /\ Len(P) = 3 + Len(R)
      /\ \A k \in 1 .. Len(R) : P[3 + k] = R[k]
      /\ \A k \in 0 .. Len(R) :
            Ends(WriteWidths(P))[3 + k] = HeaderSize + Ends(WriteWidths(R))[k]
  <2>1. R \in Seq(WriteOf(Value))
    BY <1>3
  <2>2. Number(size) \in Value /\ Number(804) \in Value /\ Number(0) \in Value
    BY NumberIsValue
  <2> QED
    BY <2>1, <2>2, <1>w, HeaderFirst
<1>5. /\ Len(P) > 0 /\ P[Len(P)].kind = "integer"
      /\ Ends(WriteWidths(P))[Len(P)] = HeaderSize + (4 + 64 * M)
  <2>1. Len(R) \in 1 .. Len(R) /\ Len(R) \in 0 .. Len(R) /\ 3 + Len(R) > 0
    BY <1>2, <1>3
  <2> QED
    BY <2>1, <1>3, <1>4
<1>6. p = Write(size, P)
  BY <1>1, <1>r, <1>w, Zenon
<1>7. HeaderSize + (4 + 64 * M) <= size
  <2>1. P \in Seq(WriteOf(Value)) /\ ~Write(size, P).panic
    BY <1>4, <1>6
  <2>2. Ends(WriteWidths(P))[Len(P)] <= size
    BY <2>1, <1>5, NoPanicFits
  <2> QED
    BY <2>2, <1>5, Zenon
<1>b. PICK b : b = PeekPacketBody(p)
  OBVIOUS
<1>8. HasList(p, b, size, 0, n, L)
  <2>1. 0 \in Int /\ AreRows(L)
    BY <1>1
  <2>2. HeaderSize + (4 + 64 * Len(L)) <= size
    BY <1>7, <1>m, Zenon
  <2>3. p = Write(size, Header(size, 804) \o ListWrites(0, n, L))
    BY <1>1
  <2> QED
    BY <2>1, <2>2, <2>3, <1>b, ListPacket DEF ListBuffer
<1>9. Packet(p) /\ PeekPacketID(p) = 804 /\ p.len = size /\ PacketTotalSize(p) = size
      /\ p.pos = HeaderSize + (4 + 64 * M)
  BY <1>8, <1>m DEF HasList
<1>10. ASSUME N < WordSize \div 2
       PROVE  n = N /\ L = list /\ p.pos = size
  <2>1. n = N
    <3>1. PICK h \in Nat : h = WordSize \div 2
      BY HalfWord
    <3>2. N \in Int /\ N < WordSize \div 2 /\ -(WordSize \div 2) <= N
      BY <1>0, <1>10, <3>1
    <3> QED
      BY <3>2, <1>1, Int16Fits
  <2>2. L = list
    BY <2>1, <1>1
  <2>3. M = n
    BY <2>1, <2>2, <1>k, <1>m
  <2>4. PICK x \in Nat : x = HeaderSize + (4 + 64 * n)
    BY <2>1, <1>0 DEF HeaderSize
  <2>5. size <= x
    BY <2>4, <1>1, Int16Below
  <2>6. x <= size
    BY <2>3, <2>4, <1>7
  <2>7. p.pos = x
    BY <2>3, <2>4, <1>9
  <2> QED
    BY <2>1, <2>2, <2>5, <2>6, <2>7
<1>11. ASSUME N < WordSize \div 2,
              \A i \in 1 .. N : list[i] = Filled(ServerChatRoom, list[i])
       PROVE  ClientViewRes(b) = [ErrorCode |-> Number(0), Len |-> Number(N), rows |-> list]
  <2>1. n = N /\ L = list
    BY <1>10, <1>11
  <2>2. HasList(p, b, size, 0, Len(list), list)
    BY <2>1, <1>8, <1>k, Zenon
  <2>3. HeaderSize + (4 + 64 * Len(list)) <= size
    BY <2>1, <1>7, <1>m, Zenon
  <2>4. \A i \in 1 .. Len(list) : list[i] = Filled(ServerChatRoom, list[i])
    BY <1>11, <1>k, Zenon
  <2>5. ClientViewRes(b) = [ErrorCode |-> Number(0), Len |-> Number(Len(list)), rows |-> list]
    <3>1. 0 \in Int /\ size \in Int
      OBVIOUS
    <3> QED
      BY <2>2, <2>3, <2>4, <3>1, ListDecoded, Zenon
  <2> QED
    BY <2>5, <1>k, Zenon
<1>12. N < WordSize \div 2 => p.pos = p.len /\ PacketTotalSize(p) = p.len
  BY <1>9, <1>10, Zenon
<1> QED
  BY <1>9, <1>11, <1>12, <1>b, <1>k, Zenon

(* The encoder of the list panics only when an int16 cannot hold its size. *)
LEMMA ListPanics ==
    ASSUME NEW S, NEW list \in Seq(S), AreRows(list),
           HeaderSize + (4 + 64 * Len(list)) < WordSize \div 2
    PROVE  ~ServerViewRes(0, list).panic
<1>k. PICK N : N = Len(list)
  OBVIOUS
<1>0. N \in Nat
  BY <1>k
<1>h. PICK h \in Nat : h = WordSize \div 2
  BY HalfWord
<1>g. PICK n \in Int : \E size \in Int : \E L :
          EncodedAs(list, n, size, L, ServerViewRes(0, list))
  BY ListEncoded
<1>c. PICK size \in Int : \E L : EncodedAs(list, n, size, L, ServerViewRes(0, list))
  BY <1>g
<1>a. PICK L : EncodedAs(list, n, size, L, ServerViewRes(0, list))
  BY <1>c
<1>1. /\ n = Int16(N) /\ n <= N
      /\ size = Int16(HeaderSize + (4 + 64 * n))
      /\ AreRows(L) /\ n <= Len(L)
      /\ n = N => L = list
      /\ ServerViewRes(0, list) = Write(size, Header(size, 804) \o ListWrites(0, n, L))
  BY <1>a, <1>k, Zenon DEF EncodedAs
<1>2. PICK x \in Nat : x = HeaderSize + (4 + 64 * N)
  BY <1>0 DEF HeaderSize
<1>3. x < h
  BY <1>2, <1>k, <1>h, Zenon
<1>4. N < h
  BY <1>0, <1>2, <1>3 DEF HeaderSize
<1>5. n = N
  <2>1. N \in Int /\ N < WordSize \div 2 /\ -(WordSize \div 2) <= N
    BY <1>0, <1>4, <1>h
  <2> QED
    BY <2>1, <1>1, Int16Fits
<1>6. size = x
  <2>1. x \in Int /\ x < WordSize \div 2 /\ -(WordSize \div 2) <= x
    BY <1>3, <1>h
  <2>2. Int16(x) = x
    BY <2>1, Int16Fits
  <2>3. size = Int16(x)
    BY <1>1, <1>2, <1>5, Zenon
  <2> QED
    BY <2>2, <2>3
<1>7. L = list
  BY <1>1, <1>5
<1>8. HeaderSize + (4 + 64 * Len(L)) <= size
  <2>1. HeaderSize + (4 + 64 * Len(L)) = x
    BY <1>2, <1>7, <1>k, Zenon
  <2> QED
    BY <2>1, <1>6
<1>p. PICK p : p = Write(size, Header(size, 804) \o ListWrites(0, n, L))
  OBVIOUS
<1>9. HasList(p, PeekPacketBody(p), size, 0, n, L)
  <2>1. 0 \in Int /\ AreRows(L)
    BY <1>1
  <2> QED
    BY <2>1, <1>8, <1>p, ListPacket DEF ListBuffer
<1>10. ~p.panic
  BY <1>9 DEF HasList, Packet
<1> QED
  BY <1>1, <1>10, <1>p, Zenon
=============================================================================
