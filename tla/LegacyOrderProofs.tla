--------------------------- MODULE LegacyOrderProofs ---------------------------
(* Proofs about what the modfiles of Content/Mods declare (LegacyMeaning), for   *)
(* any mods, modfiles and limits: that the list of mods holds all of it, and    *)
(* that it is registered and imported in ModImporter's order. A mod's entries   *)
(* are those of the origins behind the parser (ParseInv); the list holds the    *)
(* mods that have been read (ListInv); and what is registered and imported is   *)
(* the beginning of what the list claims (ProgressInv). The last part is the    *)
(* text of a modfile (ModfileText), which shares no variable with the rest: its *)
(* commands are those of the grammar (TextInv).                                 *)
EXTENDS LegacyConfigProofs, MCModfileText

--------------------------------------------------------------------------------
(* A sequence that holds the values of a set, in an order.                      *)

\* s holds val[x] of each x of A, once, and x before y only if <<x, y>> is in R.
Orders(s, A, val, R) ==
  \E from \in [1..Len(s) -> A] :
    /\ \A x \in A : \E i \in 1..Len(s) : from[i] = x
    /\ \A i \in 1..Len(s) : s[i] = val[from[i]]
    /\ \A i, j \in 1..Len(s) : i < j => <<from[i], from[j]>> \in R

LEMMA OrdersBy ==
  ASSUME NEW s, NEW A, NEW val, NEW R, NEW n, Len(s) = n, NEW from \in [1..n -> A],
         \A x \in A : \E i \in 1..n : from[i] = x,
         \A i \in 1..n : s[i] = val[from[i]],
         \A i, j \in 1..n : i < j => <<from[i], from[j]>> \in R
  PROVE  Orders(s, A, val, R)
BY DEF Orders

LEMMA OrdersNone ==
  ASSUME NEW val, NEW R
  PROVE  Orders(<<>>, {}, val, R)
<1>1. PICK from : from \in [1..0 -> {}]
  <2>1. [i \in 1..0 |-> i] \in [1..0 -> {}]
    OBVIOUS
  <2>2. QED
    BY <2>1
<1>2. Len(<<>>) = 0 /\ 1..0 = {}
  OBVIOUS
<1>3. QED
  BY <1>1, <1>2 DEF Orders

LEMMA OrdersOne ==
  ASSUME NEW x, NEW val, NEW R
  PROVE  Orders(<<val[x]>>, {x}, val, R)
<1>1. PICK from : from = [i \in 1..1 |-> x]
  OBVIOUS
<1>2. Len(<<val[x]>>) = 1 /\ <<val[x]>>[1] = val[x]
  OBVIOUS
<1>3. from \in [1..1 -> {x}] /\ from[1] = x
  BY <1>1
<1>4. QED
  BY <1>2, <1>3 DEF Orders

\* Of an empty set, and only of it.
LEMMA OrdersEmpty ==
  ASSUME NEW S, NEW s \in Seq(S), NEW A, NEW val, NEW R, Orders(s, A, val, R)
  PROVE  s = <<>> <=> A = {}
<1>1. PICK from \in [1..Len(s) -> A] : \A x \in A : \E i \in 1..Len(s) : from[i] = x
  BY DEF Orders
<1>2. Len(s) \in Nat /\ (s = <<>> <=> Len(s) = 0)
  BY EmptySeq, LenProperties
<1>3. QED
  BY <1>1, <1>2

\* One after the other.
LEMMA OrdersConcat ==
  ASSUME NEW S, NEW s \in Seq(S), NEW t \in Seq(S), NEW A, NEW B, NEW val, NEW R,
         Orders(s, A, val, R), Orders(t, B, val, R),
         \A x \in A, y \in B : <<x, y>> \in R
  PROVE  Orders(s \o t, A \cup B, val, R)
<1>1. PICK f \in [1..Len(s) -> A] :
        /\ \A x \in A : \E i \in 1..Len(s) : f[i] = x
        /\ \A i \in 1..Len(s) : s[i] = val[f[i]]
        /\ \A i, j \in 1..Len(s) : i < j => <<f[i], f[j]>> \in R
  BY DEF Orders
<1>2. PICK g \in [1..Len(t) -> B] :
        /\ \A x \in B : \E i \in 1..Len(t) : g[i] = x
        /\ \A i \in 1..Len(t) : t[i] = val[g[i]]
        /\ \A i, j \in 1..Len(t) : i < j => <<g[i], g[j]>> \in R
  BY DEF Orders
<1>3. PICK m, n : m = Len(s) /\ n = Len(t) /\ m \in Nat /\ n \in Nat
  OBVIOUS
<1>4. /\ Len(s \o t) = m + n
      /\ \A i \in 1..(m + n) : (s \o t)[i] = IF i <= m THEN s[i] ELSE t[i - m]
  BY <1>3, ConcatProperties
<1>5. PICK h : h = [i \in 1..(m + n) |-> IF i <= m THEN f[i] ELSE g[i - m]]
  OBVIOUS
<1>6. /\ \A i \in 1..m : h[i] = f[i] /\ f[i] \in A /\ i \in 1..(m + n)
      /\ \A i \in 1..n : h[m + i] = g[i] /\ g[i] \in B /\ m + i \in 1..(m + n)
  <2>1. ASSUME NEW i \in 1..m PROVE h[i] = f[i] /\ f[i] \in A /\ i \in 1..(m + n)
    <3>1. i \in 1..(m + n) /\ i <= m
      BY <1>3
    <3>2. QED
      BY <1>1, <1>3, <1>5, <3>1
  <2>2. ASSUME NEW i \in 1..n PROVE h[m + i] = g[i] /\ g[i] \in B /\ m + i \in 1..(m + n)
    <3>1. m + i \in 1..(m + n) /\ ~(m + i <= m) /\ (m + i) - m = i
      BY <1>3
    <3>2. QED
      BY <1>2, <1>3, <1>5, <3>1
  <2>3. QED
    BY <2>1, <2>2
<1>7. \A i \in 1..(m + n) : i \in 1..m \/ (i - m \in 1..n /\ m + (i - m) = i /\ ~(i <= m))
  BY <1>3
<1>8. h \in [1..(m + n) -> A \cup B]
  <2>1. \A i \in 1..(m + n) : h[i] \in A \cup B
    BY <1>6, <1>7
  <2>2. QED
    BY <1>5, <2>1
<1>9. \A x \in A \cup B : \E i \in 1..(m + n) : h[i] = x
  <2>1. \A x \in A : \E i \in 1..m : f[i] = x
    BY <1>1, <1>3
  <2>2. \A x \in B : \E i \in 1..n : g[i] = x
    BY <1>2, <1>3
  <2>3. QED
    BY <1>6, <2>1, <2>2
<1>10. ASSUME NEW i \in 1..(m + n) PROVE (s \o t)[i] = val[h[i]]
  <2>1. CASE i \in 1..m
    BY <1>1, <1>3, <1>4, <1>6, <2>1
  <2>2. CASE i - m \in 1..n /\ m + (i - m) = i /\ ~(i <= m)
    <3>1. h[i] = g[i - m]
      BY <1>6, <2>2
    <3>2. QED
      BY <1>2, <1>3, <1>4, <2>2, <3>1
  <2>3. QED
    BY <1>7, <2>1, <2>2
<1>11. ASSUME NEW i \in 1..(m + n), NEW j \in 1..(m + n), i < j PROVE <<h[i], h[j]>> \in R
  <2>1. CASE j \in 1..m
    <3>1. i \in 1..m
      BY <1>3, <1>11, <2>1
    <3>2. QED
      BY <1>1, <1>3, <1>6, <1>11, <2>1, <3>1
  <2>2. CASE i \in 1..m /\ j - m \in 1..n /\ m + (j - m) = j
    <3>1. h[i] \in A /\ h[j] \in B
      BY <1>6, <2>2
    <3>2. QED
      BY <3>1
  <2>3. CASE i - m \in 1..n /\ m + (i - m) = i /\ j - m \in 1..n /\ m + (j - m) = j
    <3>1. h[i] = g[i - m] /\ h[j] = g[j - m] /\ i - m < j - m
      BY <1>3, <1>6, <1>11, <2>3
    <3>2. QED
      BY <1>2, <1>3, <2>3, <3>1
  <2>4. QED
    BY <1>3, <1>7, <1>11, <2>1, <2>2, <2>3
<1>12. \A i, j \in 1..(m + n) : i < j => <<h[i], h[j]>> \in R
  BY <1>11
<1>13. \A i \in 1..(m + n) : (s \o t)[i] = val[h[i]]
  BY <1>10
<1>14. ASSUME NEW w, w = s \o t PROVE Orders(w, A \cup B, val, R)
  <2>1. Len(w) = m + n /\ \A i \in 1..(m + n) : w[i] = val[h[i]]
    BY <1>4, <1>13, <1>14
  <2>2. QED
    BY <1>8, <1>9, <1>12, <2>1, OrdersBy
<1>15. QED
  BY <1>14

\* Many, one after the other.
LEMMA OrdersFlatten ==
  ASSUME NEW S, NEW s \in Seq(Seq(S)), NEW A, NEW val, NEW R,
         \A i \in 1..Len(s) : Orders(s[i], A[i], val, R),
         \A i, j \in 1..Len(s) : i < j => \A x \in A[i], y \in A[j] : <<x, y>> \in R
  PROVE  Orders(FlattenSeq(s), UNION {A[i] : i \in 1..Len(s)}, val, R)
<1>. DEFINE all(n) == UNION {A[i] : i \in 1..n}
<1>0. Len(s) \in Nat
  OBVIOUS
<1>1. CASE Len(s) = 0
  <2>1. FlattenSeq(s) = <<>>
    BY <1>1 DEF FlattenSeq
  <2>2. all(Len(s)) = {}
    BY <1>1
  <2>3. QED
    BY <2>1, <2>2, OrdersNone
<1>2. CASE Len(s) # 0
  <2>1. Len(s) > 0 /\ \A i \in 1..Len(s) : s[i] \in Seq(S)
    BY <1>0, <1>2
  <2>2. PICK g : Unfolds(g, s, Len(s)) /\ FlattenSeq(s) = g[Len(s)]
    BY <1>0, <1>2, <2>1, UnfoldsAll DEF FlattenSeq, Unfolds
  <2>3. \A i \in 1..Len(s) : g[i] = IF i = 1 THEN s[i] ELSE g[i - 1] \o s[i]
    BY <2>2 DEF Unfolds
  <2>. DEFINE G(i) == g[i] \in Seq(S) /\ Orders(g[i], all(i), val, R)
              T == {i \in 1..Len(s) : ~G(i)}
  <2>. HIDE DEF G
  <2>4. ASSUME T # {} PROVE FALSE
    <3>1. T \in SUBSET Nat
      OBVIOUS
    <3>. HIDE DEF T
    <3>2. PICK i \in T : \A j \in T : i <= j
      BY <2>4, <3>1, LeastOne
    <3>3. i \in 1..Len(s) /\ ~G(i) /\ \A j \in 1..Len(s) : j < i => G(j)
      <4>1. \A j \in 1..Len(s) : j < i => j \notin T
        BY <1>0, <3>1, <3>2
      <4>2. QED
        BY <4>1 DEF T
    <3>. USE DEF G
    <3>4. CASE i = 1
      <4>1. all(1) = A[1]
        OBVIOUS
      <4>. HIDE DEF all
      <4>2. g[1] = s[1] /\ 1 \in 1..Len(s)
        BY <1>0, <2>1, <2>3
      <4>3. QED
        BY <2>1, <3>3, <3>4, <4>1, <4>2
    <3>5. CASE i # 1
      <4>1. i - 1 \in 1..Len(s) /\ i - 1 < i /\ i \in Nat
        BY <1>0, <3>3, <3>5
      <4>2. /\ g[i - 1] \in Seq(S) /\ Orders(g[i - 1], all(i - 1), val, R)
            /\ s[i] \in Seq(S) /\ Orders(s[i], A[i], val, R)
        BY <2>1, <3>3, <4>1
      <4>3. all(i) = all(i - 1) \cup A[i]
        <5>1. 1..i = 1..(i - 1) \cup {i}
          BY <4>1
        <5>2. QED
          BY <5>1
      <4>4. ASSUME NEW x \in all(i - 1), NEW y \in A[i] PROVE <<x, y>> \in R
        <5>1. PICK j \in 1..(i - 1) : x \in A[j]
          OBVIOUS
        <5>2. j \in 1..Len(s) /\ j < i
          BY <1>0, <3>3, <4>1
        <5>3. QED
          BY <3>3, <5>1, <5>2
      <4>5. g[i] = g[i - 1] \o s[i]
        BY <2>3, <3>3, <3>5
      <4>. HIDE DEF all
      <4>6. Orders(g[i], all(i), val, R)
        <5>1. \A x \in all(i - 1), y \in A[i] : <<x, y>> \in R
          BY <4>4
        <5>2. PICK u, v, a, b : u = g[i - 1] /\ v = s[i] /\ a = all(i - 1) /\ b = A[i]
          OBVIOUS
        <5>3. /\ u \in Seq(S) /\ v \in Seq(S) /\ Orders(u, a, val, R) /\ Orders(v, b, val, R)
              /\ \A x \in a, y \in b : <<x, y>> \in R
          BY <4>2, <5>1, <5>2
        <5>4. Orders(u \o v, a \cup b, val, R)
          BY <5>3, OrdersConcat
        <5>5. QED
          BY <4>3, <4>5, <5>2, <5>4
      <4>7. g[i] \in Seq(S)
        BY <4>2, <4>5, ConcatProperties
      <4>8. QED
        BY <3>3, <4>6, <4>7
    <3>6. QED
      BY <3>4, <3>5
  <2>5. Len(s) \in 1..Len(s) /\ Len(s) \notin T
    BY <1>0, <2>1, <2>4
  <2>6. QED
    BY <2>2, <2>5 DEF G
<1>3. QED
  BY <1>1, <1>2

\* The same values, of the members of another set, in an order that is the same.
LEMMA OrdersMap ==
  ASSUME NEW S, NEW s \in Seq(S), NEW A, NEW val, NEW R, Orders(s, A, val, R),
         NEW g, NEW B, NEW val2, NEW R2,
         \A x \in A : g[x] \in B /\ val2[g[x]] = val[x],
         \A y \in B : \E x \in A : g[x] = y,
         \A x, y \in A : <<x, y>> \in R => <<g[x], g[y]>> \in R2
  PROVE  Orders(s, B, val2, R2)
<1>1. PICK f \in [1..Len(s) -> A] :
        /\ \A x \in A : \E i \in 1..Len(s) : f[i] = x
        /\ \A i \in 1..Len(s) : s[i] = val[f[i]]
        /\ \A i, j \in 1..Len(s) : i < j => <<f[i], f[j]>> \in R
  BY DEF Orders
<1>2. PICK n : n = Len(s) /\ n \in Nat
  OBVIOUS
<1>3. PICK h : h = [i \in 1..n |-> g[f[i]]]
  OBVIOUS
<1>4. \A i \in 1..n : h[i] = g[f[i]] /\ f[i] \in A
  BY <1>1, <1>2, <1>3
<1>5. h \in [1..n -> B]
  BY <1>3, <1>4
<1>6. \A y \in B : \E i \in 1..n : h[i] = y
  <2>1. ASSUME NEW y \in B PROVE \E i \in 1..n : h[i] = y
    <3>1. PICK x \in A : g[x] = y
      OBVIOUS
    <3>2. PICK i \in 1..n : f[i] = x
      BY <1>1, <1>2
    <3>3. QED
      BY <1>4, <3>1, <3>2
  <2>2. QED
    BY <2>1
<1>7. \A i \in 1..n : s[i] = val2[h[i]]
  BY <1>1, <1>2, <1>4
<1>8. \A i, j \in 1..n : i < j => <<h[i], h[j]>> \in R2
  <2>1. ASSUME NEW i \in 1..n, NEW j \in 1..n, i < j PROVE <<h[i], h[j]>> \in R2
    <3>1. <<f[i], f[j]>> \in R
      BY <1>1, <1>2, <2>1
    <3>2. QED
      BY <1>4, <3>1
  <2>2. QED
    BY <2>1
<1>9. QED
  BY <1>2, <1>5, <1>6, <1>7, <1>8, OrdersBy

\* No member is before itself, or before one that is before it.
Irreflexive(A, R) == \A x \in A : <<x, x>> \notin R
Asymmetric(A, R) == \A x, y \in A : <<x, y>> \in R => <<y, x>> \notin R

\* The first, and the rest.
BeforeAll(x, A, R) == \A y \in A \ {x} : <<x, y>> \in R
Begins(s, first, rest) == first = Head(s) /\ rest = Tail(s)
LEMMA OrdersTail ==
  ASSUME NEW S, NEW s \in Seq(S), s # <<>>, NEW A, NEW val, NEW R, Orders(s, A, val, R),
         Irreflexive(A, R), NEW first, NEW rest, Begins(s, first, rest)
  PROVE  \E x \in A : val[x] = first /\ Orders(rest, A \ {x}, val, R) /\ BeforeAll(x, A, R)
<1>. USE DEF Begins
<1>1. PICK f \in [1..Len(s) -> A] :
        /\ \A x \in A : \E i \in 1..Len(s) : f[i] = x
        /\ \A i \in 1..Len(s) : s[i] = val[f[i]]
        /\ \A i, j \in 1..Len(s) : i < j => <<f[i], f[j]>> \in R
  BY DEF Orders
<1>2. PICK n : n = Len(s) /\ n \in Nat /\ n # 0 /\ 1 \in 1..n
  BY EmptySeq, LenProperties
<1>3. Head(s) = s[1] /\ Len(Tail(s)) = n - 1 /\ \A i \in 1..(n - 1) : Tail(s)[i] = s[i + 1]
  BY <1>2, HeadTailProperties
<1>4. PICK x \in A : x = f[1]
  BY <1>1, <1>2
<1>5. PICK t, h : t = Tail(s) /\ h = [i \in 1..(n - 1) |-> f[i + 1]]
  OBVIOUS
<1>6. \A i \in 1..(n - 1) : h[i] = f[i + 1] /\ i + 1 \in 1..n /\ 1 < i + 1
  BY <1>2, <1>5
<1>7. \A i \in 1..(n - 1) : h[i] \in A /\ <<x, h[i]>> \in R /\ t[i] = val[h[i]]
  BY <1>1, <1>2, <1>3, <1>4, <1>5, <1>6
<1>8. h \in [1..(n - 1) -> A \ {x}]
  BY <1>5, <1>7 DEF Irreflexive
<1>9. ASSUME NEW y \in A \ {x} PROVE \E i \in 1..(n - 1) : h[i] = y
  <2>1. PICK j \in 1..n : f[j] = y
    BY <1>1, <1>2
  <2>2. j # 1
    BY <1>4, <2>1
  <2>3. j - 1 \in 1..(n - 1) /\ (j - 1) + 1 = j
    BY <1>2, <2>2
  <2>4. QED
    BY <1>6, <2>1, <2>3
<1>10. \A y \in A \ {x} : <<x, y>> \in R
  BY <1>7, <1>9
<1>11. \A i, j \in 1..(n - 1) : i < j => <<h[i], h[j]>> \in R
  <2>1. ASSUME NEW i \in 1..(n - 1), NEW j \in 1..(n - 1), i < j PROVE <<h[i], h[j]>> \in R
    <3>1. i + 1 < j + 1
      BY <1>2, <2>1
    <3>2. QED
      BY <1>1, <1>2, <1>6, <3>1
  <2>2. QED
    BY <2>1
<1>12. Orders(t, A \ {x}, val, R)
  <2>1. Len(t) = n - 1 /\ \A i \in 1..(n - 1) : t[i] = val[h[i]]
    BY <1>3, <1>5, <1>7
  <2>2. \A y \in A \ {x} : \E i \in 1..(n - 1) : h[i] = y
    BY <1>9
  <2>3. QED
    BY <1>8, <1>11, <2>1, <2>2, OrdersBy
<1>13. val[x] = Head(s)
  BY <1>1, <1>2, <1>3, <1>4
<1>14. QED
  BY <1>5, <1>10, <1>12, <1>13 DEF BeforeAll

\* Those whose values are in a set.
Picks(t, s, E) == t = [i \in DOMAIN s |-> IF s[i] \in E THEN <<s[i]>> ELSE <<>>]
LEMMA OrdersSome ==
  ASSUME NEW S, NEW s \in Seq(S), NEW A, NEW val, NEW R, Orders(s, A, val, R), NEW E, NEW t, Picks(t, s, E),
         NEW X, X = {x \in A : val[x] \in E}
  PROVE  Orders(FlattenSeq(t), X, val, R)
<1>. USE DEF Picks
<1>1. PICK f \in [1..Len(s) -> A] :
        /\ \A x \in A : \E i \in 1..Len(s) : f[i] = x
        /\ \A i \in 1..Len(s) : s[i] = val[f[i]]
        /\ \A i, j \in 1..Len(s) : i < j => <<f[i], f[j]>> \in R
  BY DEF Orders
<1>2. PICK n : n = Len(s) /\ n \in Nat /\ DOMAIN s = 1..n
  OBVIOUS
<1>3. \A i \in 1..n : s[i] \in S /\ t[i] = IF s[i] \in E THEN <<s[i]>> ELSE <<>>
  BY <1>2
<1>4. t \in Seq(Seq(S)) /\ Len(t) = n
  <2>1. \A i \in 1..n : t[i] \in Seq(S)
    <3>1. <<>> \in Seq(S) /\ \A x \in S : <<x>> \in Seq(S)
      OBVIOUS
    <3>2. QED
      BY <1>3, <3>1
  <2>2. t \in [1..n -> Seq(S)]
    BY <1>2, <2>1
  <2>3. QED
    BY <1>2, <2>2
<1>5. PICK B : B = [i \in 1..n |-> IF s[i] \in E THEN {f[i]} ELSE {}]
  OBVIOUS
<1>6. ASSUME NEW i \in 1..n PROVE Orders(t[i], B[i], val, R)
  <2>1. CASE s[i] \in E
    <3>1. s[i] = val[f[i]]
      BY <1>1, <1>2
    <3>2. PICK x : x = f[i]
      OBVIOUS
    <3>3. t[i] = <<val[x]>> /\ B[i] = {x}
      BY <1>3, <1>5, <2>1, <3>1, <3>2
    <3>4. Orders(<<val[x]>>, {x}, val, R)
      BY OrdersOne
    <3>5. QED
      BY <3>3, <3>4
  <2>2. CASE s[i] \notin E
    <3>1. t[i] = <<>> /\ B[i] = {}
      BY <1>3, <1>5, <2>2
    <3>2. QED
      BY <3>1, OrdersNone
  <2>3. QED
    BY <2>1, <2>2
<1>7. \A i, j \in 1..n : i < j => \A x \in B[i], y \in B[j] : <<x, y>> \in R
  BY <1>1, <1>2, <1>5
<1>8. UNION {B[i] : i \in 1..n} = {x \in A : val[x] \in E}
  <2>1. ASSUME NEW x \in A, val[x] \in E PROVE \E i \in 1..n : x \in B[i]
    <3>1. PICK i \in 1..n : f[i] = x
      BY <1>1, <1>2
    <3>2. s[i] = val[x]
      BY <1>1, <1>2, <3>1
    <3>3. QED
      BY <1>5, <2>1, <3>1, <3>2
  <2>2. ASSUME NEW i \in 1..n, NEW x \in B[i] PROVE x \in A /\ val[x] \in E
    <3>1. s[i] \in E /\ x = f[i]
      BY <1>5
    <3>2. QED
      BY <1>1, <1>2, <3>1
  <2>3. QED
    BY <2>1, <2>2
<1>9. Orders(FlattenSeq(t), UNION {B[i] : i \in 1..n}, val, R)
  <2>1. \A i \in 1..Len(t) : Orders(t[i], B[i], val, R)
    BY <1>4, <1>6
  <2>2. QED
    BY <1>4, <1>7, <2>1, OrdersFlatten
<1>10. QED
  BY <1>8, <1>9

\* As many of each value.
AreOf(s, I, A, val, X, e) == I = {i \in DOMAIN s : s[i] = e} /\ X = {x \in A : val[x] = e}
LEMMA OrdersCount ==
  ASSUME NEW S, NEW s \in Seq(S), NEW A, NEW val, NEW R, Orders(s, A, val, R),
         Irreflexive(A, R), NEW e, NEW I, NEW X, AreOf(s, I, A, val, X, e)
  PROVE  Cardinality(I) = Cardinality(X)
<1>. USE DEF AreOf
<1>1. PICK f \in [1..Len(s) -> A] :
        /\ \A x \in A : \E i \in 1..Len(s) : f[i] = x
        /\ \A i \in 1..Len(s) : s[i] = val[f[i]]
        /\ \A i, j \in 1..Len(s) : i < j => <<f[i], f[j]>> \in R
  BY DEF Orders
<1>2. PICK n : n = Len(s) /\ n \in Nat /\ DOMAIN s = 1..n
  OBVIOUS
<1>. DEFINE g == [i \in I |-> f[i]]
<1>3. IsFiniteSet(I)
  <2>1. I \subseteq 1..n /\ IsFiniteSet(1..n)
    BY <1>2, FS_Interval
  <2>2. QED
    BY <2>1, FS_Subset
<1>4. \A i, j \in 1..n : f[i] = f[j] => i = j
  <2>1. ASSUME NEW i \in 1..n, NEW j \in 1..n, f[i] = f[j], i < j PROVE FALSE
    <3>1. <<f[i], f[j]>> \in R /\ f[i] \in A
      BY <1>1, <1>2, <2>1
    <3>2. QED
      BY <2>1, <3>1 DEF Irreflexive
  <2>2. QED
    BY <1>2, <2>1
<1>5. g \in Bijection(I, X)
  <2>1. \A i \in I : f[i] \in X
    BY <1>1, <1>2
  <2>2. g \in [I -> X]
    BY <2>1
  <2>3. \A x \in X : \E i \in I : g[i] = x
    <3>1. ASSUME NEW x \in X PROVE \E i \in I : g[i] = x
      <4>1. PICK i \in 1..n : f[i] = x
        BY <1>1, <1>2
      <4>2. i \in I
        BY <1>1, <1>2, <4>1
      <4>3. QED
        BY <4>1, <4>2
    <3>2. QED
      BY <3>1
  <2>4. \A i, j \in I : g[i] = g[j] => i = j
    BY <1>2, <1>4
  <2>. HIDE DEF g
  <2>5. QED
    BY <2>2, <2>3, <2>4 DEF Bijection, Injection, Surjection, IsInjective
<1>. HIDE DEF g
<1>6. Cardinality(I) = Cardinality(X)
  BY <1>3, <1>5, FS_Bijection DEF ExistsBijection
<1>7. QED
  BY <1>6

\* The place of each is the number of those before it.
Under(x, A, R) == {y \in A : <<y, x>> \in R}
LEMMA OrdersRank ==
  ASSUME NEW S, NEW s \in Seq(S), NEW A, NEW val, NEW R, Orders(s, A, val, R),
         Asymmetric(A, R)
  PROVE  /\ Len(s) = Cardinality(A)
         /\ \A x \in A : s[1 + Cardinality(Under(x, A, R))] = val[x]
         /\ \A j \in 1..Len(s) : \E x \in A : Cardinality(Under(x, A, R)) = j - 1
<1>1. PICK f \in [1..Len(s) -> A] :
        /\ \A x \in A : \E i \in 1..Len(s) : f[i] = x
        /\ \A i \in 1..Len(s) : s[i] = val[f[i]]
        /\ \A i, j \in 1..Len(s) : i < j => <<f[i], f[j]>> \in R
  BY DEF Orders
<1>2. PICK n : n = Len(s) /\ n \in Nat
  OBVIOUS
<1>3. /\ \A i \in 1..n : f[i] \in A /\ s[i] = val[f[i]]
      /\ \A x \in A : \E i \in 1..n : f[i] = x
      /\ \A i, j \in 1..n : i < j => <<f[i], f[j]>> \in R
  BY <1>1, <1>2
<1>4. ASSUME NEW i \in 1..n, NEW j \in 1..n PROVE <<f[i], f[j]>> \in R <=> i < j
  <2>1. f[i] \in A /\ f[j] \in A
    BY <1>3
  <2>2. i < j => <<f[i], f[j]>> \in R
    BY <1>3
  <2>3. j < i => <<f[j], f[i]>> \in R
    BY <1>3
  <2>4. i < j \/ j < i \/ i = j
    BY <1>2
  <2>5. CASE i = j
    <3>1. ~(i < j)
      BY <1>2, <2>5
    <3>2. QED
      BY <2>1, <2>5, <3>1 DEF Asymmetric
  <2>6. CASE j < i
    <3>1. ~(i < j)
      BY <1>2, <2>6
    <3>2. QED
      BY <2>1, <2>3, <2>6, <3>1 DEF Asymmetric
  <2>7. QED
    BY <2>2, <2>4, <2>5, <2>6
<1>5. ASSUME NEW i \in 1..n, NEW j \in 1..n, f[i] = f[j] PROVE i = j
  <2>1. f[i] \in A
    BY <1>3
  <2>2. <<f[i], f[j]>> \notin R /\ <<f[j], f[i]>> \notin R
    BY <1>5, <2>1 DEF Asymmetric
  <2>3. ~(i < j) /\ ~(j < i)
    BY <1>4, <2>2
  <2>4. QED
    BY <1>2, <2>3
<1>6. ASSUME NEW k \in 0..n PROVE Cardinality({f[i] : i \in 1..k}) = k
  <2>. DEFINE X == {f[i] : i \in 1..k}
              g == [i \in 1..k |-> f[i]]
  <2>1. g \in [1..k -> X] /\ \A i \in 1..k : i \in 1..n
    BY <1>2
  <2>2. \A x \in X : \E i \in 1..k : g[i] = x
    OBVIOUS
  <2>3. \A i, j \in 1..k : g[i] = g[j] => i = j
    BY <1>5, <2>1
  <2>4. g \in Bijection(1..k, X)
    <3>. HIDE DEF g, X
    <3>1. QED
      BY <2>1, <2>2, <2>3 DEF Bijection, Injection, Surjection, IsInjective
  <2>. HIDE DEF g, X
  <2>5. Cardinality(X) = k
    BY <1>2, <2>4, FS_CountingElements DEF ExistsBijection
  <2>6. QED
    BY <2>5 DEF X
<1>7. {f[i] : i \in 1..n} = A
  BY <1>3
<1>8. ASSUME NEW j \in 1..n PROVE Cardinality(Under(f[j], A, R)) = j - 1
  <2>1. PICK x : x = f[j] /\ x \in A
    BY <1>3
  <2>2. Under(x, A, R) = {f[i] : i \in 1..(j - 1)}
    <3>1. ASSUME NEW y \in A, <<y, x>> \in R PROVE \E i \in 1..(j - 1) : f[i] = y
      <4>1. PICK i \in 1..n : f[i] = y
        BY <1>3
      <4>2. i < j
        BY <1>4, <2>1, <3>1, <4>1
      <4>3. QED
        BY <1>2, <4>1, <4>2
    <3>2. ASSUME NEW i \in 1..(j - 1) PROVE f[i] \in A /\ <<f[i], x>> \in R
      <4>1. i \in 1..n /\ i < j
        BY <1>2
      <4>2. QED
        BY <1>3, <2>1, <4>1
    <3>3. QED
      BY <3>1, <3>2 DEF Under
  <2>3. j - 1 \in 0..n
    BY <1>2
  <2>4. QED
    BY <1>6, <2>1, <2>2, <2>3
<1>9. ASSUME NEW x \in A PROVE s[1 + Cardinality(Under(x, A, R))] = val[x]
  <2>1. PICK j \in 1..n : f[j] = x
    BY <1>3
  <2>2. Cardinality(Under(x, A, R)) = j - 1 /\ 1 + (j - 1) = j
    BY <1>2, <1>8, <2>1
  <2>3. QED
    BY <1>3, <2>1, <2>2
<1>10. ASSUME NEW j \in 1..n PROVE \E x \in A : Cardinality(Under(x, A, R)) = j - 1
  BY <1>3, <1>8
<1>11. n \in 0..n
  BY <1>2
<1>12. Cardinality(A) = n
  BY <1>6, <1>7, <1>11
<1>13. QED
  BY <1>2, <1>9, <1>10, <1>12

--------------------------------------------------------------------------------
(* What the modfiles declare (LegacyMeaning).                                   *)

\* A modfile: lines 1..n, with arguments in sequences.
LEMMA ModfileIs ==
  ASSUME body \in Worlds, NEW f \in DOMAIN body
  PROVE  /\ \E n \in Nat : DOMAIN body[f] = 1..n
         /\ \A i \in DOMAIN body[f] :
              /\ body[f][i].cmd = "To" => body[f][i].args \in Seq(Scripts)
              /\ body[f][i].cmd = "Priority" => body[f][i].args \in Seq(Int)
              /\ body[f][i].cmd = "Include" => body[f][i].args \in Seq(DOMAIN Folder)
              /\ body[f][i].cmd \in {"Import", "TopImport", "Replace", "SJSON"}
                   => body[f][i].args \in Seq(Sources)
<1>1. body[f] \in Seq(ToSet(body[f]))
  BY WorldsAssumption
<1>2. \E n \in Nat : DOMAIN body[f] = 1..n
  BY <1>1
<1>3. QED
  BY <1>2, WorldsAssumption

LEMMA StepIs ==
  ASSUME NEW f, NEW s \in StepsOf(f)
  PROVE  /\ s = [at |-> s.at, arg |-> s.arg, file |-> s.file]
         /\ s.at \in DOMAIN body[f] /\ body[f][s.at].cmd = "Include"
         /\ s.arg \in DOMAIN body[f][s.at].args
         /\ s.file \in Folder[body[f][s.at].args[s.arg]] /\ s.file \in DOMAIN body
<1>1. PICK i \in DOMAIN body[f] :
        /\ body[f][i].cmd = "Include"
        /\ \E a \in DOMAIN body[f][i].args : \E g \in Folder[body[f][i].args[a]] \cap DOMAIN body :
             s = [at |-> i, arg |-> a, file |-> g]
  BY DEF StepsOf
<1>2. PICK a \in DOMAIN body[f][i].args :
        \E g \in Folder[body[f][i].args[a]] \cap DOMAIN body : s = [at |-> i, arg |-> a, file |-> g]
  BY <1>1
<1>3. PICK g \in Folder[body[f][i].args[a]] \cap DOMAIN body : s = [at |-> i, arg |-> a, file |-> g]
  BY <1>2
<1>4. QED
  BY <1>1, <1>3

LEMMA StepMade ==
  ASSUME NEW f, NEW i \in DOMAIN body[f], body[f][i].cmd = "Include",
         NEW a \in DOMAIN body[f][i].args, NEW g \in Folder[body[f][i].args[a]], g \in DOMAIN body
  PROVE  [at |-> i, arg |-> a, file |-> g] \in StepsOf(f)
<1>1. PICK s : s = [at |-> i, arg |-> a, file |-> g]
  OBVIOUS
<1>2. s \in {[at |-> i, arg |-> a, file |-> h] : h \in Folder[body[f][i].args[a]] \cap DOMAIN body}
  BY <1>1
<1>3. s \in UNION {{[at |-> i, arg |-> b, file |-> h] : h \in Folder[body[f][i].args[b]] \cap DOMAIN body}
                   : b \in DOMAIN body[f][i].args}
  BY <1>2
<1>4. s \in StepsOf(f)
  BY <1>3 DEF StepsOf
<1>5. QED
  BY <1>1, <1>4

\* The numbers of a step.
LEMMA StepNumbers ==
  ASSUME body \in Worlds, NEW f \in DOMAIN body, NEW s \in StepsOf(f)
  PROVE  s.at \in Nat \ {0} /\ s.arg \in Nat \ {0}
<1>1. /\ s.at \in DOMAIN body[f] /\ body[f][s.at].cmd = "Include"
      /\ s.arg \in DOMAIN body[f][s.at].args
  BY StepIs
<1>2. PICK n \in Nat : DOMAIN body[f] = 1..n
  BY ModfileIs
<1>3. body[f][s.at].args \in Seq(DOMAIN Folder)
  BY <1>1, ModfileIs
<1>4. QED
  BY <1>1, <1>2, <1>3

LEMMA RouteIs ==
  ASSUME body \in Worlds, NEW m, NEW r \in Routes(m)
  PROVE  /\ Len(r) \in 0..MaxDepth /\ Len(r) \in Nat /\ r = [k \in 1..Len(r) |-> r[k]]
         /\ m \in DOMAIN body /\ DOMAIN r = 1..Len(r)
         /\ \A k \in 1..Len(r) : /\ r[k] \in StepsOf(FileAt(m, r, k - 1))
                                 /\ FileAt(m, r, k) = r[k].file
         /\ \A k \in 0..Len(r) : FileAt(m, r, k) \in DOMAIN body
         /\ \A k \in 1..Len(r) : r[k].at \in Nat \ {0} /\ r[k].arg \in Nat \ {0}
         /\ Reached(m, r) \in DOMAIN body
<1>1. PICK n \in 0..MaxDepth : r \in [1..n -> Steps]
  BY DEF Routes
<1>2. m \in DOMAIN body /\ \A k \in DOMAIN r : r[k] \in StepsOf(FileAt(m, r, k - 1))
  BY DEF Routes
<1>3. MaxDepth \in Nat /\ n \in Nat
  BY NumbersAssumption
<1>4. Len(r) = n /\ DOMAIN r = 1..n
  <2>1. r \in Seq(Steps)
    BY <1>1, <1>3
  <2>2. QED
    BY <1>1, <1>3, <2>1
<1>5. \A k \in 1..n : r[k] \in StepsOf(FileAt(m, r, k - 1)) /\ FileAt(m, r, k) = r[k].file
  <2>1. ASSUME NEW k \in 1..n PROVE r[k] \in StepsOf(FileAt(m, r, k - 1)) /\ FileAt(m, r, k) = r[k].file
    <3>1. k \in DOMAIN r /\ k # 0
      BY <1>3, <1>4
    <3>2. r[k] \in StepsOf(FileAt(m, r, k - 1))
      BY <1>2, <3>1
    <3>3. QED
      BY <3>1, <3>2 DEF FileAt
  <2>2. QED
    BY <2>1
<1>6. ASSUME NEW k \in 0..n PROVE FileAt(m, r, k) \in DOMAIN body
  <2>1. CASE k = 0
    BY <1>2, <2>1 DEF FileAt
  <2>2. CASE k # 0
    <3>1. k \in 1..n
      BY <2>2
    <3>2. QED
      BY <1>5, <3>1, StepIs
  <2>3. QED
    BY <2>1, <2>2
<1>7. ASSUME NEW k \in 1..n PROVE r[k].at \in Nat \ {0} /\ r[k].arg \in Nat \ {0}
  <2>1. k - 1 \in 0..n
    BY <1>3
  <2>2. FileAt(m, r, k - 1) \in DOMAIN body /\ r[k] \in StepsOf(FileAt(m, r, k - 1))
    BY <1>5, <1>6, <2>1
  <2>3. QED
    BY <2>2, StepNumbers
<1>8. Reached(m, r) \in DOMAIN body
  <2>1. n \in 0..n
    BY <1>3
  <2>2. QED
    BY <1>4, <1>6, <2>1 DEF Reached
<1>9. QED
  BY <1>1, <1>2, <1>3, <1>4, <1>5, <1>6, <1>7, <1>8

LEMMA RouteMade ==
  ASSUME NEW m \in DOMAIN body, NEW n \in 0..MaxDepth, NEW r, r = [k \in 1..n |-> r[k]],
         \A k \in 1..n : r[k] \in StepsOf(FileAt(m, r, k - 1))
  PROVE  r \in Routes(m) /\ Len(r) = n
<1>1. MaxDepth \in Nat /\ n \in Nat /\ DOMAIN r = 1..n
  BY NumbersAssumption
<1>2. ASSUME NEW k \in 1..n PROVE r[k] \in Steps
  <2>1. FileAt(m, r, k - 1) \in DOMAIN body
    <3>1. CASE k = 1
      BY <3>1 DEF FileAt
    <3>2. CASE k # 1
      <4>1. k - 1 \in 1..n /\ k - 1 # 0
        BY <1>1, <3>2
      <4>2. r[k - 1].file \in DOMAIN body
        BY <4>1, StepIs
      <4>3. QED
        BY <4>1, <4>2 DEF FileAt
    <3>3. QED
      BY <3>1, <3>2
  <2>2. QED
    BY <2>1 DEF Steps
<1>3. r \in [1..n -> Steps]
  BY <1>2
<1>4. Len(r) = n
  <2>1. r \in Seq(Steps)
    BY <1>1, <1>3
  <2>2. QED
    BY <1>1, <1>3, <2>1
<1>5. r \in Routes(m)
  BY <1>1, <1>3 DEF Routes
<1>6. QED
  BY <1>4, <1>5

LEMMA OriginIs ==
  ASSUME NEW m, NEW kinds, NEW o \in Origins(m, kinds)
  PROVE  /\ o.route \in Routes(m)
         /\ o = [route |-> o.route, at |-> o.at, target |-> o.target, arg |-> o.arg]
         /\ o.at \in DOMAIN body[Reached(m, o.route)]
         /\ body[Reached(m, o.route)][o.at].cmd \in kinds
         /\ o \in OriginsAt(Reached(m, o.route), o.route, o.at)
         /\ o.target \in DOMAIN TargetsAt(Reached(m, o.route), o.at)
         /\ o.arg \in DOMAIN body[Reached(m, o.route)][o.at].args
<1>0. PICK r \in Routes(m) : \E i \in DOMAIN body[Reached(m, r)] :
        body[Reached(m, r)][i].cmd \in kinds /\ o \in OriginsAt(Reached(m, r), r, i)
  BY DEF Origins
<1>1. PICK i \in DOMAIN body[Reached(m, r)] :
        body[Reached(m, r)][i].cmd \in kinds /\ o \in OriginsAt(Reached(m, r), r, i)
  BY <1>0
<1>2. o.route = r /\ o.at = i
  BY <1>1 DEF OriginsAt
<1>3. QED
  BY <1>1, <1>2 DEF OriginsAt

LEMMA OriginMade ==
  ASSUME NEW m, NEW kinds, NEW r \in Routes(m), NEW i \in DOMAIN body[Reached(m, r)],
         body[Reached(m, r)][i].cmd \in kinds
  PROVE  OriginsAt(Reached(m, r), r, i) \subseteq Origins(m, kinds)
<1>1. PICK f, A : f = Reached(m, r) /\ A = OriginsAt(Reached(m, r), r, i)
  OBVIOUS
<1>2. A \subseteq UNION {OriginsAt(f, r, j) : j \in {j \in DOMAIN body[f] : body[f][j].cmd \in kinds}}
  BY <1>1
<1>3. A \subseteq Origins(m, kinds)
  BY <1>1, <1>2 DEF Origins
<1>4. QED
  BY <1>1, <1>3

LEMMA OriginsGrow ==
  ASSUME NEW m, NEW kinds, NEW more, kinds \subseteq more
  PROVE  Origins(m, kinds) \subseteq Origins(m, more)
<1>1. ASSUME NEW o \in Origins(m, kinds) PROVE o \in Origins(m, more)
  <2>1. /\ o.route \in Routes(m) /\ o.at \in DOMAIN body[Reached(m, o.route)]
        /\ body[Reached(m, o.route)][o.at].cmd \in more
        /\ o \in OriginsAt(Reached(m, o.route), o.route, o.at)
    BY OriginIs
  <2>2. QED
    BY <2>1, OriginMade
<1>2. QED
  BY <1>1

\* A kind is of imports or of files.
LEMMA DeclaredIs ==
  ASSUME NEW m
  PROVE  /\ Declared(m) = Origins(m, ImportKinds) \cup Origins(m, FileKinds)
         /\ \A o \in Declared(m) : /\ o \in Origins(m, ImportKinds) <=> EntryOf(m, o).kind \in ImportKinds
                                   /\ o \in Origins(m, FileKinds) <=> EntryOf(m, o).kind \in FileKinds
                                   /\ EntryOf(m, o).kind \in ImportKinds \cup FileKinds
                                   /\ EntryOf(m, o).mod = m
<1>1. ASSUME NEW o \in Declared(m)
      PROVE  /\ o \in Origins(m, ImportKinds) <=> EntryOf(m, o).kind \in ImportKinds
             /\ o \in Origins(m, FileKinds) <=> EntryOf(m, o).kind \in FileKinds
             /\ EntryOf(m, o).kind \in ImportKinds \cup FileKinds
             /\ EntryOf(m, o).mod = m
  <2>1. /\ o.route \in Routes(m) /\ o.at \in DOMAIN body[Reached(m, o.route)]
        /\ body[Reached(m, o.route)][o.at].cmd \in ImportKinds \cup FileKinds
        /\ o \in OriginsAt(Reached(m, o.route), o.route, o.at)
    BY OriginIs DEF Declared
  <2>2. EntryOf(m, o).kind = body[Reached(m, o.route)][o.at].cmd /\ EntryOf(m, o).mod = m
    BY DEF EntryOf
  <2>3. ASSUME NEW kinds PROVE o \in Origins(m, kinds) <=> EntryOf(m, o).kind \in kinds
    BY <2>1, <2>2, OriginIs, OriginMade
  <2>4. QED
    BY <2>1, <2>2, <2>3
<1>2. Origins(m, ImportKinds) \subseteq Declared(m) /\ Origins(m, FileKinds) \subseteq Declared(m)
  BY OriginsGrow DEF Declared
<1>3. QED
  BY <1>1, <1>2

--------------------------------------------------------------------------------
(* What is in force at a line.                                                  *)

LEMMA MaxIs ==
  ASSUME NEW X \in SUBSET Nat, NEW n \in X, \A i \in X : i <= n
  PROVE  Max(X) = n
<1>1. n \in X /\ \A i \in X : n >= i
  <2>1. \A i \in X : i \in Nat /\ n \in Nat
    OBVIOUS
  <2>2. QED
    BY <2>1
<1>2. Max(X) \in X /\ \A i \in X : Max(X) >= i
  BY <1>1 DEF Max
<1>3. Max(X) \in Nat /\ n \in Nat /\ Max(X) >= n /\ Max(X) <= n
  BY <1>1, <1>2
<1>4. QED
  BY <1>3

\* The line above is the last, if it is one of them.
LEMMA LastArgsIs ==
  ASSUME body \in Worlds, NEW f \in DOMAIN body, NEW cmd
  PROVE  /\ LastArgs(f, cmd, 1) = <<>>
         /\ \A i \in DOMAIN body[f] :
              LastArgs(f, cmd, i + 1) = IF body[f][i].cmd = cmd THEN body[f][i].args
                                                                ELSE LastArgs(f, cmd, i)
<1>1. Above(f, cmd, 1) = {}
  BY DEF Above
<1>2. PICK n \in Nat : DOMAIN body[f] = 1..n
  BY ModfileIs
<1>3. ASSUME NEW i \in DOMAIN body[f]
      PROVE  LastArgs(f, cmd, i + 1) = IF body[f][i].cmd = cmd THEN body[f][i].args
                                                               ELSE LastArgs(f, cmd, i)
  <2>1. i \in Nat \ {0} /\ (i + 1) - 1 = i /\ 1..i = 1..(i - 1) \cup {i}
    BY <1>2
  <2>2. CASE body[f][i].cmd = cmd
    <3>1. Above(f, cmd, i + 1) \in SUBSET Nat /\ i \in Above(f, cmd, i + 1)
          /\ \A j \in Above(f, cmd, i + 1) : j <= i
      BY <2>1, <2>2 DEF Above
    <3>2. Max(Above(f, cmd, i + 1)) = i /\ Above(f, cmd, i + 1) # {}
      BY <3>1, MaxIs
    <3>3. QED
      BY <2>2, <3>2 DEF LastArgs
  <2>3. CASE body[f][i].cmd # cmd
    <3>1. Above(f, cmd, i + 1) = Above(f, cmd, i)
      BY <2>1, <2>3 DEF Above
    <3>2. QED
      BY <2>3, <3>1 DEF LastArgs
  <2>4. QED
    BY <2>2, <2>3
<1>4. QED
  BY <1>1, <1>3 DEF LastArgs

\* parse_modfile's targets and priority, line by line.
LEMMA TargetsAre ==
  ASSUME body \in Worlds, NEW f \in DOMAIN body
  PROVE  /\ TargetsAt(f, 1) = <<DefaultTarget>>
         /\ \A i \in DOMAIN body[f] :
              TargetsAt(f, i + 1) = IF body[f][i].cmd # "To" THEN TargetsAt(f, i)
                                    ELSE IF body[f][i].args = <<>> THEN <<DefaultTarget>>
                                    ELSE body[f][i].args
BY LastArgsIs DEF TargetsAt

LEMMA PriorityIs ==
  ASSUME body \in Worlds, NEW f \in DOMAIN body
  PROVE  /\ PriorityAt(f, 1) = DefaultPriority
         /\ \A i \in DOMAIN body[f] :
              PriorityAt(f, i + 1) = IF body[f][i].cmd # "Priority" THEN PriorityAt(f, i)
                                     ELSE IF body[f][i].args = <<>> THEN DefaultPriority
                                     ELSE body[f][i].args[1]
BY LastArgsIs DEF PriorityAt

LEMMA InForce ==
  ASSUME body \in Worlds, NEW f \in DOMAIN body, NEW i \in DOMAIN body[f]
  PROVE  TargetsAt(f, i) \in Seq(Scripts) /\ PriorityAt(f, i) \in Int
<1>1. PICK n \in Nat : DOMAIN body[f] = 1..n
  BY ModfileIs
<1>. DEFINE T == {j \in 1..n : ~(TargetsAt(f, j) \in Seq(Scripts) /\ PriorityAt(f, j) \in Int)}
<1>2. ASSUME T # {} PROVE FALSE
  <2>1. T \in SUBSET Nat
    OBVIOUS
  <2>. HIDE DEF T
  <2>2. PICK j \in T : \A k \in T : j <= k
    BY <1>2, <2>1, LeastOne
  <2>3. j \in 1..n /\ ~(TargetsAt(f, j) \in Seq(Scripts) /\ PriorityAt(f, j) \in Int)
    BY DEF T
  <2>4. <<DefaultTarget>> \in Seq(Scripts) /\ DefaultPriority \in Int
    BY TargetAssumption, NumbersAssumption
  <2>5. CASE j = 1
    BY <2>3, <2>4, <2>5, TargetsAre, PriorityIs
  <2>6. CASE j # 1
    <3>1. j - 1 \in 1..n /\ (j - 1) + 1 = j /\ ~(j <= j - 1)
      BY <2>3, <2>6
    <3>2. TargetsAt(f, j - 1) \in Seq(Scripts) /\ PriorityAt(f, j - 1) \in Int
      BY <2>2, <3>1 DEF T
    <3>3. PICK k : k = j - 1 /\ k \in DOMAIN body[f] /\ k + 1 = j
      BY <1>1, <3>1
    <3>4. /\ body[f][k].cmd = "To" => body[f][k].args \in Seq(Scripts)
          /\ body[f][k].cmd = "Priority" => body[f][k].args \in Seq(Int)
      BY <3>3, ModfileIs
    <3>5. TargetsAt(f, j) \in Seq(Scripts)
      BY <2>4, <3>2, <3>3, <3>4, TargetsAre
    <3>6. PriorityAt(f, j) \in Int
      <4>1. body[f][k].cmd = "Priority" /\ body[f][k].args # <<>> => body[f][k].args[1] \in Int
        BY <3>4
      <4>2. QED
        BY <2>4, <3>2, <3>3, <4>1, PriorityIs
    <3>7. QED
      BY <2>3, <3>5, <3>6
  <2>7. QED
    BY <2>5, <2>6
<1>3. QED
  BY <1>1, <1>2

--------------------------------------------------------------------------------
(* The order they are written in.                                               *)

\* Where they part, they are the files of one argument, a folder.
Siblings(o, q) ==
  \E k \in 0..(Len(o.route) - 1) :
    /\ Share(o, q, k) /\ k < Len(q.route)
    /\ o.route[k + 1].at = q.route[k + 1].at /\ o.route[k + 1].arg = q.route[k + 1].arg
    /\ o.route[k + 1].file # q.route[k + 1].file
After(o, q) == Precedes(o, q) \/ Siblings(o, q)

\* The place of an origin is three numbers.
LEMMA PlaceIs ==
  ASSUME body \in Worlds, NEW m, NEW o \in Declared(m), NEW k \in 1..(Len(o.route) + 1)
  PROVE  \E a, b, c \in Nat : Place(o, k) = <<a, b, c>>
<1>1. o.route \in Routes(m) /\ Len(o.route) \in Nat
  BY OriginIs, RouteIs DEF Declared
<1>2. CASE k <= Len(o.route)
  <2>1. k \in 1..Len(o.route)
    BY <1>1, <1>2
  <2>2. o.route[k].at \in Nat /\ o.route[k].arg \in Nat
    BY <1>1, <2>1, RouteIs
  <2>3. QED
    BY <1>2, <2>2 DEF Place
<1>3. CASE ~(k <= Len(o.route))
  <2>1. PICK f : f = Reached(m, o.route) /\ f \in DOMAIN body
    BY <1>1, RouteIs
  <2>2. /\ o.at \in DOMAIN body[f] /\ o.target \in DOMAIN TargetsAt(f, o.at)
        /\ o.arg \in DOMAIN body[f][o.at].args
        /\ body[f][o.at].cmd \in {"Import", "TopImport", "Replace", "SJSON"}
    BY <2>1, OriginIs DEF Declared, ImportKinds, FileKinds
  <2>3. o.at \in Nat
    <3>1. PICK n \in Nat : DOMAIN body[f] = 1..n
      BY <2>1, ModfileIs
    <3>2. QED
      BY <2>2, <3>1
  <2>4. o.arg \in Nat
    <3>1. body[f][o.at].args \in Seq(Sources)
      BY <2>1, <2>2, ModfileIs
    <3>2. QED
      BY <2>2, <3>1
  <2>5. o.target \in Nat
    <3>1. TargetsAt(f, o.at) \in Seq(Scripts)
      BY <2>1, <2>2, InForce
    <3>2. QED
      BY <2>2, <3>1
  <2>6. QED
    BY <1>3, <2>3, <2>4, <2>5 DEF Place
<1>4. QED
  BY <1>2, <1>3

LEMMA LessIs ==
  ASSUME NEW p, NEW q, \E a, b, c \in Nat : p = <<a, b, c>>, \E a, b, c \in Nat : q = <<a, b, c>>
  PROVE  Less(p, q) => p # q /\ ~Less(q, p)
<1>1. PICK a, b, c \in Nat : p = <<a, b, c>>
  OBVIOUS
<1>2. PICK x, y, z \in Nat : q = <<x, y, z>>
  OBVIOUS
<1>3. p[1] = a /\ p[2] = b /\ p[3] = c /\ q[1] = x /\ q[2] = y /\ q[3] = z
  BY <1>1, <1>2
<1>4. a \in Nat /\ b \in Nat /\ c \in Nat /\ x \in Nat /\ y \in Nat /\ z \in Nat
  OBVIOUS
<1>5. Less(p, q) <=> a < x \/ (a = x /\ (b < y \/ (b = y /\ c < z)))
  BY <1>3 DEF Less
<1>6. Less(q, p) <=> x < a \/ (x = a /\ (y < b \/ (y = b /\ z < c)))
  BY <1>3 DEF Less
<1>7. p = q => a = x /\ b = y /\ c = z
  BY <1>3
<1>. HIDE <1>1, <1>2, <1>3
<1>8. QED
  BY <1>4, <1>5, <1>6, <1>7

\* Where one parts from another, the other parts from it.
LEMMA OneParting ==
  ASSUME body \in Worlds, NEW m, NEW o \in Declared(m), NEW q \in Declared(m),
         NEW k \in Nat, Share(o, q, k), Less(Place(o, k + 1), Place(q, k + 1)),
         NEW j \in Nat, Share(q, o, j)
  PROVE  j <= k /\ (j = k => ~Less(Place(q, j + 1), Place(o, j + 1)))
<1>1. Len(o.route) \in Nat /\ Len(q.route) \in Nat
  BY OriginIs, RouteIs DEF Declared
<1>2. k + 1 \in 1..(Len(o.route) + 1) /\ k + 1 \in 1..(Len(q.route) + 1)
  BY <1>1 DEF Share
<1>3. /\ Place(o, k + 1) # Place(q, k + 1)
      /\ ~Less(Place(q, k + 1), Place(o, k + 1))
  <2>1. \E a, b, c \in Nat : Place(o, k + 1) = <<a, b, c>>
    BY <1>2, PlaceIs
  <2>2. \E a, b, c \in Nat : Place(q, k + 1) = <<a, b, c>>
    BY <1>2, PlaceIs
  <2>3. PICK x, y : x = Place(o, k + 1) /\ y = Place(q, k + 1)
    OBVIOUS
  <2>4. (\E a, b, c \in Nat : x = <<a, b, c>>) /\ (\E a, b, c \in Nat : y = <<a, b, c>>) /\ Less(x, y)
    BY <2>1, <2>2, <2>3
  <2>5. x # y /\ ~Less(y, x)
    BY <2>4, LessIs
  <2>6. QED
    BY <2>3, <2>5
<1>4. ASSUME j > k PROVE FALSE
  <2>1. k + 1 \in 1..j /\ k + 1 <= Len(o.route) /\ k + 1 <= Len(q.route)
    BY <1>1, <1>4 DEF Share
  <2>2. o.route[k + 1] = q.route[k + 1]
    BY <2>1 DEF Share
  <2>3. Place(o, k + 1) = Place(q, k + 1)
    BY <2>1, <2>2 DEF Place
  <2>4. QED
    BY <1>3, <2>3
<1>5. j <= k
  BY <1>4
<1>6. QED
  BY <1>3, <1>5

LEMMA PrecedesOneWay ==
  ASSUME body \in Worlds, NEW m, NEW o \in Declared(m), NEW q \in Declared(m), Precedes(o, q)
  PROVE  o # q /\ ~Precedes(q, o)
<1>1. Len(o.route) \in Nat /\ Len(q.route) \in Nat
  BY OriginIs, RouteIs DEF Declared
<1>2. PICK k \in Nat : Share(o, q, k) /\ Less(Place(o, k + 1), Place(q, k + 1))
  BY <1>1 DEF Precedes
<1>3. ASSUME Precedes(q, o) PROVE FALSE
  <2>1. PICK j \in Nat : Share(q, o, j) /\ Less(Place(q, j + 1), Place(o, j + 1))
    BY <1>1, <1>3 DEF Precedes
  <2>2. j <= k /\ k <= j
    BY <1>2, <2>1, OneParting
  <2>3. j = k
    BY <2>2
  <2>4. QED
    BY <1>2, <2>1, <2>3, OneParting
<1>4. QED
  BY <1>3

LEMMA AfterIsNot ==
  ASSUME body \in Worlds, NEW m, NEW o \in Declared(m)
  PROVE  ~After(o, o)
BY PrecedesOneWay DEF After, Siblings

\* Without folders, there are none.
LEMMA NoSiblings ==
  ASSUME body \in Worlds, NoFolders, NEW m, NEW o \in Declared(m), NEW q \in Declared(m)
  PROVE  ~Siblings(o, q)
<1>1. o.route \in Routes(m) /\ q.route \in Routes(m)
  BY OriginIs DEF Declared
<1>2. SUFFICES ASSUME NEW k \in 0..(Len(o.route) - 1), Share(o, q, k), k < Len(q.route),
                      o.route[k + 1].at = q.route[k + 1].at, o.route[k + 1].arg = q.route[k + 1].arg
               PROVE  o.route[k + 1].file = q.route[k + 1].file
  BY DEF Siblings
<1>3. /\ k + 1 \in 1..Len(o.route) /\ k + 1 \in 1..Len(q.route) /\ (k + 1) - 1 = k
      /\ k \in 0..Len(o.route)
  <2>1. PICK x \in Nat, y \in Nat : x = Len(o.route) /\ y = Len(q.route)
    BY <1>1, RouteIs
  <2>2. k \in 0..(x - 1) /\ k < y
    BY <1>2, <2>1
  <2>3. QED
    BY <2>1, <2>2
<1>4. FileAt(m, o.route, k) = FileAt(m, q.route, k)
  <2>1. CASE k = 0
    BY <2>1 DEF FileAt
  <2>2. CASE k # 0
    <3>1. k \in 1..k
      BY <2>2
    <3>2. QED
      BY <1>2, <3>1 DEF Share, FileAt
  <2>3. QED
    BY <2>1, <2>2
<1>5. PICK f \in DOMAIN body : f = FileAt(m, o.route, k)
  BY <1>1, <1>3, RouteIs
<1>6. o.route[k + 1] \in StepsOf(f) /\ q.route[k + 1] \in StepsOf(f)
  BY <1>1, <1>3, <1>4, <1>5, RouteIs
<1>7. PICK s, t : s = o.route[k + 1] /\ t = q.route[k + 1]
  OBVIOUS
<1>8. /\ s.at \in DOMAIN body[f] /\ body[f][s.at].cmd = "Include" /\ s.arg \in DOMAIN body[f][s.at].args
      /\ s.file \in Folder[body[f][s.at].args[s.arg]]
      /\ t.file \in Folder[body[f][t.at].args[t.arg]]
  BY <1>6, <1>7, StepIs
<1>9. s.file = t.file
  <2>1. t.at = s.at /\ t.arg = s.arg
    BY <1>2, <1>7
  <2>2. PICK i \in DOMAIN body[f] : i = s.at /\ body[f][i].cmd = "Include"
    BY <1>8
  <2>3. PICK a \in DOMAIN body[f][i].args : a = s.arg
    BY <1>8, <2>2
  <2>4. s.file \in Folder[body[f][i].args[a]] /\ t.file \in Folder[body[f][i].args[a]]
    BY <1>8, <2>1, <2>2, <2>3
  <2>5. QED
    BY <2>2, <2>4 DEF NoFolders
<1>10. QED
  BY <1>7, <1>9

--------------------------------------------------------------------------------
(* The modfiles being parsed, and what is behind them.                          *)

\* The Include a frame is in, and the argument it has come to.
Line(fr) == body[fr.file][fr.at - 1]
Arg(fr) == Len(Line(fr).args) - Len(fr.todo) + 1

FrameOK(fr) ==
  /\ fr.file \in DOMAIN body /\ fr.at \in Nat \ {0} /\ fr.at - 1 \in {0} \cup DOMAIN body[fr.file]
  /\ fr.targets = TargetsAt(fr.file, fr.at) /\ fr.priority = PriorityAt(fr.file, fr.at)
  /\ fr.todo \in Seq(SUBSET Modfiles)
  /\ fr.todo # <<>> =>
       /\ fr.at - 1 \in DOMAIN body[fr.file] /\ Line(fr).cmd = "Include"
       /\ Len(fr.todo) <= Len(Line(fr).args)
       /\ fr.todo[1] \subseteq Folder[Line(fr).args[Arg(fr)]]
       /\ \A k \in 2..Len(fr.todo) : fr.todo[k] = Folder[Line(fr).args[Arg(fr) + (k - 1)]]

\* The steps from each frame to the next.
Into(st, k) == [at |-> st[k].at - 1, arg |-> Arg(st[k]), file |-> st[k + 1].file]
Way(st, n) == [k \in 1..n |-> Into(st, k)]

StackOK(m, st) ==
  /\ Len(st) \in 0..(MaxDepth + 1) /\ (st = <<>> <=> Len(st) = 0)
  /\ Len(st) # 0 => st[1].file = m
  /\ \A k \in 1..Len(st) : FrameOK(st[k])
  /\ \A k \in 1..(Len(st) - 1) : /\ st[k].todo # <<>> /\ Into(st, k) \in StepsOf(st[k].file)
                                 /\ st[k + 1].file \notin st[k].todo[1]

\* A frame is past a step, and the parser past an origin.
Passed(fr, s) ==
  /\ s.at < fr.at
  /\ fr.todo # <<>> /\ s.at = fr.at - 1 =>
       s.arg < Arg(fr) \/ (s.arg = Arg(fr) /\ s.file \notin fr.todo[1])
AtTop(fr, o, k) == IF k <= Len(o.route) THEN Passed(fr, o.route[k]) ELSE o.at < fr.at
Agree(st, o, k) == k <= Len(o.route) /\ \A i \in 1..k : o.route[i] = Into(st, i)
PastAt(st, o, k) ==
  AtTop(st[k], o, k) /\ (k < Len(st) /\ k <= Len(o.route) => o.route[k] # Into(st, k))
Below(st, o) == \E k \in 1..(Len(st) - 1) : Agree(st, o, k - 1) /\ PastAt(st, o, k)
Behind(st, o) ==
  Len(st) # 0 => Below(st, o) \/ (Agree(st, o, Len(st) - 1) /\ AtTop(st[Len(st)], o, Len(st)))

\* st2 is st with another frame on top.
Swaps(st, st2, fr) ==
  /\ Len(st) \in Nat \ {0} /\ Len(st2) = Len(st)
  /\ \A k \in 1..(Len(st) - 1) : st2[k] = st[k]
  /\ st2[Len(st)] = fr

\* What an origin that agrees with the stack so far has next.
LEMMA NextIs ==
  ASSUME body \in Worlds, NEW m, NEW kinds, NEW o \in Origins(m, kinds), NEW st, StackOK(m, st),
         NEW k \in 1..Len(st), Agree(st, o, k - 1)
  PROVE  /\ k <= Len(o.route) => o.route[k] \in StepsOf(st[k].file)
         /\ ~(k <= Len(o.route)) =>
              /\ o.route = Way(st, k - 1) /\ Reached(m, o.route) = st[k].file
              /\ o.at \in DOMAIN body[st[k].file] /\ body[st[k].file][o.at].cmd \in kinds
<1>1. /\ o.route \in Routes(m) /\ Len(o.route) \in Nat /\ Len(st) \in Nat /\ k \in Nat \ {0}
      /\ o.route = [i \in 1..Len(o.route) |-> o.route[i]]
      /\ \A i \in 1..Len(o.route) : o.route[i] \in StepsOf(FileAt(m, o.route, i - 1))
  <2>1. Len(st) \in Nat
    BY NumbersAssumption DEF StackOK
  <2>2. o.route \in Routes(m)
    BY OriginIs
  <2>3. PICK r : r = o.route /\ r \in Routes(m)
    BY <2>2
  <2>4. Len(r) \in Nat /\ r = [i \in 1..Len(r) |-> r[i]]
        /\ \A i \in 1..Len(r) : r[i] \in StepsOf(FileAt(m, r, i - 1))
    <3>1. Len(r) \in Nat /\ r = [i \in 1..Len(r) |-> r[i]]
      BY <2>3, RouteIs
    <3>2. \A i \in 1..Len(r) : r[i] \in StepsOf(FileAt(m, r, i - 1))
      BY <2>3, RouteIs
    <3>3. QED
      BY <3>1, <3>2
  <2>5. k \in Nat \ {0}
    BY <2>1
  <2>6. QED
    BY <2>1, <2>3, <2>4, <2>5
<1>2. FileAt(m, o.route, k - 1) = st[k].file
  <2>1. CASE k = 1
    BY <2>1 DEF FileAt, StackOK
  <2>2. CASE k # 1
    <3>1. k - 1 \in 1..(k - 1) /\ (k - 1) + 1 = k /\ k - 1 # 0
      BY <1>1, <2>2
    <3>2. o.route[k - 1] = Into(st, k - 1)
      BY <3>1 DEF Agree
    <3>3. Into(st, k - 1).file = st[k].file
      BY <3>1 DEF Into
    <3>4. QED
      BY <3>1, <3>2, <3>3 DEF FileAt
  <2>3. QED
    BY <2>1, <2>2
<1>3. CASE k <= Len(o.route)
  <2>1. k \in 1..Len(o.route)
    BY <1>1, <1>3
  <2>2. QED
    BY <1>1, <1>2, <1>3, <2>1
<1>4. CASE ~(k <= Len(o.route))
  <2>1. Len(o.route) = k - 1
    <3>1. k - 1 <= Len(o.route)
      BY DEF Agree
    <3>2. QED
      BY <1>1, <1>4, <3>1
  <2>2. \A i \in 1..(k - 1) : o.route[i] = Into(st, i)
    BY DEF Agree
  <2>3. o.route = Way(st, k - 1)
    BY <1>1, <2>1, <2>2 DEF Way
  <2>4. Reached(m, o.route) = st[k].file
    BY <1>2, <2>1 DEF Reached
  <2>5. QED
    BY <1>4, <2>3, <2>4, OriginIs
<1>5. QED
  BY <1>3, <1>4

\* The way to the top is a route.
LEMMA WayIs ==
  ASSUME body \in Worlds, NEW m, NEW st, StackOK(m, st), Len(st) # 0
  PROVE  /\ Way(st, Len(st) - 1) \in Routes(m) /\ Len(Way(st, Len(st) - 1)) = Len(st) - 1
         /\ Reached(m, Way(st, Len(st) - 1)) = st[Len(st)].file
<1>1. MaxDepth \in Nat
  BY NumbersAssumption
<1>2. PICK n : n = Len(st) - 1 /\ n \in 0..MaxDepth /\ n \in Nat /\ Len(st) = n + 1
  BY <1>1 DEF StackOK
<1>3. PICK r : r = Way(st, n)
  OBVIOUS
<1>4. r = [k \in 1..n |-> r[k]] /\ \A k \in 1..n : r[k] = Into(st, k)
  BY <1>3 DEF Way
<1>5. st[1].file = m /\ m \in DOMAIN body
  <2>1. 1 \in 1..Len(st)
    BY <1>2
  <2>2. QED
    BY <2>1 DEF StackOK, FrameOK
<1>6. \A k \in 0..n : FileAt(m, r, k) = st[k + 1].file
  <2>1. ASSUME NEW k \in 0..n PROVE FileAt(m, r, k) = st[k + 1].file
    <3>1. CASE k = 0
      BY <1>5, <3>1 DEF FileAt
    <3>2. CASE k # 0
      <4>1. k \in 1..n
        BY <1>2, <3>2
      <4>2. r[k].file = st[k + 1].file
        BY <1>4, <4>1 DEF Into
      <4>3. QED
        BY <3>2, <4>2 DEF FileAt
    <3>3. QED
      BY <3>1, <3>2
  <2>2. QED
    BY <2>1
<1>7. ASSUME NEW k \in 1..n PROVE r[k] \in StepsOf(FileAt(m, r, k - 1))
  <2>1. k - 1 \in 0..n /\ (k - 1) + 1 = k /\ k \in 1..(Len(st) - 1)
    BY <1>2
  <2>2. FileAt(m, r, k - 1) = st[k].file
    BY <1>6, <2>1
  <2>3. QED
    BY <1>4, <2>1, <2>2 DEF StackOK
<1>8. r \in Routes(m) /\ Len(r) = n
  BY <1>2, <1>4, <1>5, <1>7, RouteMade
<1>9. Reached(m, r) = st[n + 1].file
  BY <1>2, <1>6, <1>8 DEF Reached
<1>10. QED
  BY <1>2, <1>3, <1>8, <1>9

\* Below the top, nothing changes.
LEMMA SwapKeeps ==
  ASSUME NEW st, NEW st2, NEW fr, Swaps(st, st2, fr), fr.file = st[Len(st)].file
  PROVE  /\ \A k \in 1..(Len(st) - 1) : Into(st2, k) = Into(st, k)
         /\ Way(st2, Len(st) - 1) = Way(st, Len(st) - 1)
         /\ \A o : /\ Agree(st2, o, Len(st) - 1) <=> Agree(st, o, Len(st) - 1)
                   /\ Below(st2, o) <=> Below(st, o)
<1>1. PICK n \in Nat : Len(st) = n + 1 /\ Len(st) - 1 = n
  <2>1. Len(st) \in Nat \ {0}
    BY DEF Swaps
  <2>2. Len(st) - 1 \in Nat /\ Len(st) = (Len(st) - 1) + 1
    BY <2>1
  <2>3. QED
    BY <2>2
<1>2. /\ \A k \in 1..n : st2[k] = st[k]
      /\ st2[n + 1].file = st[n + 1].file /\ Len(st2) = n + 1
  BY <1>1 DEF Swaps
<1>3. \A k \in 1..n : Into(st2, k) = Into(st, k)
  <2>1. ASSUME NEW k \in 1..n PROVE Into(st2, k) = Into(st, k)
    <3>1. st2[k] = st[k] /\ st2[k + 1].file = st[k + 1].file
      <4>1. k + 1 \in 1..n \/ k + 1 = n + 1
        BY <1>1
      <4>2. QED
        BY <1>2, <4>1
    <3>2. QED
      BY <3>1 DEF Into
  <2>2. QED
    BY <2>1
<1>4. Way(st2, n) = Way(st, n)
  BY <1>3 DEF Way
<1>5. ASSUME NEW o, NEW k \in 0..n PROVE Agree(st2, o, k) <=> Agree(st, o, k)
  <2>1. \A i \in 1..k : Into(st2, i) = Into(st, i)
    BY <1>1, <1>3
  <2>2. QED
    BY <2>1 DEF Agree
<1>6. ASSUME NEW o, NEW k \in 1..n PROVE PastAt(st2, o, k) <=> PastAt(st, o, k)
  BY <1>1, <1>2, <1>3 DEF PastAt
<1>7. ASSUME NEW o PROVE Below(st2, o) <=> Below(st, o)
  <2>1. \A k \in 1..n : k - 1 \in 0..n
    BY <1>1
  <2>2. \A k \in 1..n : Agree(st2, o, k - 1) /\ PastAt(st2, o, k) <=> Agree(st, o, k - 1) /\ PastAt(st, o, k)
    BY <1>5, <1>6, <2>1
  <2>3. QED
    BY <1>1, <1>2, <2>2 DEF Below
<1>8. n \in 0..n
  BY <1>1
<1>9. QED
  BY <1>1, <1>3, <1>4, <1>5, <1>7, <1>8

\* A frame on top that is right.
LEMMA SwapOK ==
  ASSUME NEW m, NEW st, NEW st2, NEW fr, StackOK(m, st), Swaps(st, st2, fr), FrameOK(fr),
         fr.file = st[Len(st)].file
  PROVE  StackOK(m, st2)
<1>1. PICK n \in Nat : Len(st) = n + 1 /\ Len(st) - 1 = n /\ Len(st2) = n + 1
  <2>1. Len(st) \in Nat \ {0} /\ Len(st2) = Len(st)
    BY DEF Swaps
  <2>2. Len(st) - 1 \in Nat /\ Len(st) = (Len(st) - 1) + 1
    BY <2>1
  <2>3. QED
    BY <2>1, <2>2
<1>2. /\ \A k \in 1..n : st2[k] = st[k] /\ Into(st2, k) = Into(st, k)
      /\ st2[n + 1] = fr /\ fr.file = st[n + 1].file
  BY <1>1, SwapKeeps DEF Swaps
<1>3. /\ n + 1 \in 0..(MaxDepth + 1) /\ st[1].file = m
      /\ \A k \in 1..(n + 1) : FrameOK(st[k])
      /\ \A k \in 1..n : /\ st[k].todo # <<>> /\ Into(st, k) \in StepsOf(st[k].file)
                         /\ st[k + 1].file \notin st[k].todo[1]
  BY <1>1 DEF StackOK
<1>4. \A k \in 1..(n + 1) : k \in 1..n \/ k = n + 1
  BY <1>1
<1>5. \A k \in 1..(n + 1) : FrameOK(st2[k]) /\ st2[k].file = st[k].file
  BY <1>2, <1>3, <1>4
<1>6. 1 \in 1..(n + 1) /\ \A k \in 1..n : k + 1 \in 1..(n + 1)
  BY <1>1
<1>7. \A k \in 1..n : /\ st2[k].todo # <<>> /\ Into(st2, k) \in StepsOf(st2[k].file)
                      /\ st2[k + 1].file \notin st2[k].todo[1]
  BY <1>2, <1>3, <1>5, <1>6
<1>8. st2[1].file = m
  BY <1>3, <1>5, <1>6
<1>9. st2 = <<>> <=> Len(st2) = 0
  BY <1>1
<1>10. QED
  BY <1>1, <1>3, <1>5, <1>7, <1>8, <1>9 DEF StackOK

\* What is next of an origin at the top: a step of the modfile, or a line of it.
Meets(fr, o, k) ==
  /\ k <= Len(o.route) => o.route[k] \in StepsOf(fr.file)
  /\ ~(k <= Len(o.route)) => o.at \in DOMAIN body[fr.file]

\* A line that Includes nothing.
LEMMA LineOver ==
  ASSUME body \in Worlds, NEW fr, FrameOK(fr), fr.todo = <<>>, fr.at \in DOMAIN body[fr.file],
         body[fr.file][fr.at].cmd # "Include",
         NEW fr2, fr2.file = fr.file, fr2.at = fr.at + 1, fr2.todo = <<>>,
         fr2.targets = TargetsAt(fr.file, fr.at + 1), fr2.priority = PriorityAt(fr.file, fr.at + 1)
  PROVE  /\ FrameOK(fr2)
         /\ \A o, k : Meets(fr, o, k) =>
              (AtTop(fr2, o, k) <=> AtTop(fr, o, k) \/ (~(k <= Len(o.route)) /\ o.at = fr.at))
<1>1. fr.file \in DOMAIN body /\ fr.at \in Nat \ {0}
  BY DEF FrameOK
<1>2. PICK n \in Nat : DOMAIN body[fr.file] = 1..n
  BY <1>1, ModfileIs
<1>3. FrameOK(fr2)
  <2>1. fr.at + 1 \in Nat \ {0} /\ (fr.at + 1) - 1 = fr.at
    BY <1>1
  <2>2. <<>> \in Seq(SUBSET Modfiles)
    OBVIOUS
  <2>3. QED
    BY <1>1, <2>1, <2>2 DEF FrameOK
<1>4. ASSUME NEW o, NEW k, Meets(fr, o, k)
      PROVE  AtTop(fr2, o, k) <=> AtTop(fr, o, k) \/ (~(k <= Len(o.route)) /\ o.at = fr.at)
  <2>1. CASE k <= Len(o.route)
    <3>1. PICK s : s = o.route[k] /\ s \in StepsOf(fr.file)
      BY <1>4, <2>1 DEF Meets
    <3>2. s.at \in 1..n /\ s.at # fr.at
      BY <1>2, <3>1, StepIs
    <3>3. s.at < fr.at + 1 <=> s.at < fr.at
      BY <1>1, <1>2, <3>2
    <3>4. Passed(fr2, s) <=> Passed(fr, s)
      BY <3>3 DEF Passed
    <3>5. QED
      BY <2>1, <3>1, <3>4 DEF AtTop
  <2>2. CASE ~(k <= Len(o.route))
    <3>1. o.at \in 1..n
      BY <1>2, <1>4, <2>2 DEF Meets
    <3>2. o.at < fr.at + 1 <=> o.at < fr.at \/ o.at = fr.at
      BY <1>1, <1>2, <3>1
    <3>3. QED
      BY <2>2, <3>2 DEF AtTop
  <2>3. QED
    BY <2>1, <2>2
<1>5. QED
  BY <1>3, <1>4

\* An Include: nothing it names is behind yet.
LEMMA IncludeStarts ==
  ASSUME body \in Worlds, NEW fr, FrameOK(fr), fr.todo = <<>>, fr.at \in DOMAIN body[fr.file],
         body[fr.file][fr.at].cmd = "Include",
         NEW fr2, fr2.file = fr.file, fr2.at = fr.at + 1,
         fr2.todo = [i \in DOMAIN body[fr.file][fr.at].args |-> Folder[body[fr.file][fr.at].args[i]]],
         fr2.targets = fr.targets, fr2.priority = fr.priority
  PROVE  /\ FrameOK(fr2)
         /\ \A o, k : Meets(fr, o, k) /\ (~(k <= Len(o.route)) => o.at # fr.at) =>
              (AtTop(fr2, o, k) <=> AtTop(fr, o, k))
<1>1. fr.file \in DOMAIN body /\ fr.at \in Nat \ {0}
  BY DEF FrameOK
<1>2. PICK n \in Nat : DOMAIN body[fr.file] = 1..n
  BY <1>1, ModfileIs
<1>3. PICK args : args = body[fr.file][fr.at].args /\ args \in Seq(DOMAIN Folder)
  BY <1>1, ModfileIs
<1>4. PICK l \in Nat : Len(args) = l /\ DOMAIN args = 1..l
  BY <1>3
<1>5. PICK todo : todo = fr2.todo /\ todo = [i \in 1..l |-> Folder[args[i]]]
  BY <1>3, <1>4
<1>6. todo \in Seq(SUBSET Modfiles) /\ Len(todo) = l
  <2>1. \A i \in 1..l : Folder[args[i]] \in SUBSET Modfiles
    BY <1>3, <1>4 DEF Modfiles
  <2>2. todo \in [1..l -> SUBSET Modfiles]
    BY <1>5, <2>1
  <2>3. QED
    BY <2>2
<1>7. Line(fr2).args = args /\ Line(fr2).cmd = "Include" /\ Arg(fr2) = 1
  <2>1. fr2.at - 1 = fr.at
    BY <1>1
  <2>2. Line(fr2).args = args /\ Line(fr2).cmd = "Include"
    BY <1>3, <2>1 DEF Line
  <2>3. Arg(fr2) = l - l + 1
    BY <1>4, <1>5, <1>6, <2>2 DEF Arg
  <2>4. QED
    BY <2>2, <2>3
<1>8. todo # <<>> => 1 \in 1..l
  BY <1>6, EmptySeq, LenProperties
<1>9. FrameOK(fr2)
  <2>1. fr.at + 1 \in Nat \ {0} /\ (fr.at + 1) - 1 = fr.at
    BY <1>1
  <2>2. /\ fr2.targets = TargetsAt(fr.file, fr.at + 1)
        /\ fr2.priority = PriorityAt(fr.file, fr.at + 1)
    BY <1>1, TargetsAre, PriorityIs DEF FrameOK
  <2>3. \A k \in 1..l : todo[k] = Folder[args[1 + (k - 1)]]
    <3>1. \A k \in 1..l : 1 + (k - 1) = k
      BY <1>4
    <3>2. QED
      BY <1>5, <3>1
  <2>4. todo # <<>> => todo[1] = Folder[args[1]]
    BY <1>5, <1>8
  <2>5. \A k \in 2..l : k \in 1..l
    BY <1>4
  <2>6. fr2.todo # <<>> =>
          /\ fr2.at - 1 \in DOMAIN body[fr2.file] /\ Line(fr2).cmd = "Include"
          /\ Len(fr2.todo) <= Len(Line(fr2).args)
          /\ fr2.todo[1] \subseteq Folder[Line(fr2).args[Arg(fr2)]]
          /\ \A k \in 2..Len(fr2.todo) : fr2.todo[k] = Folder[Line(fr2).args[Arg(fr2) + (k - 1)]]
    <3>1. Len(fr2.todo) <= Len(Line(fr2).args)
      <4>1. fr2.todo = todo /\ Line(fr2).args = args
        BY <1>5, <1>7
      <4>2. Len(todo) = l /\ Len(args) = l /\ l <= l
        BY <1>4, <1>6
      <4>3. QED
        BY <4>1, <4>2
    <3>2. \A k \in 2..Len(fr2.todo) : fr2.todo[k] = Folder[Line(fr2).args[Arg(fr2) + (k - 1)]]
      BY <1>5, <1>6, <1>7, <2>3, <2>5
    <3>3. QED
      BY <1>5, <1>7, <2>1, <2>4, <3>1, <3>2
  <2>7. fr2.todo \in Seq(SUBSET Modfiles)
    BY <1>5, <1>6
  <2>8. QED
    BY <1>1, <2>1, <2>2, <2>6, <2>7 DEF FrameOK
<1>10. ASSUME NEW o, NEW k, Meets(fr, o, k), ~(k <= Len(o.route)) => o.at # fr.at
       PROVE  AtTop(fr2, o, k) <=> AtTop(fr, o, k)
  <2>1. CASE k <= Len(o.route)
    <3>1. PICK s : s = o.route[k] /\ s \in StepsOf(fr.file)
      BY <1>10, <2>1 DEF Meets
    <3>2. s.at \in 1..n /\ s.arg \in DOMAIN body[fr.file][s.at].args
          /\ s.file \in Folder[body[fr.file][s.at].args[s.arg]]
      BY <1>2, <3>1, StepIs
    <3>3. ASSUME s.at = fr.at PROVE ~Passed(fr2, s)
      <4>1. s.arg \in 1..l /\ s.file \in Folder[args[s.arg]]
        BY <1>3, <1>4, <3>2, <3>3
      <4>2. todo # <<>> /\ 1 \in 1..l /\ todo[1] = Folder[args[1]] /\ s.at = fr2.at - 1
        <5>1. l # 0
          BY <1>4, <4>1
        <5>2. todo # <<>>
          BY <1>6, <5>1, EmptySeq
        <5>3. 1 \in 1..l
          BY <1>8, <5>2
        <5>4. todo[1] = Folder[args[1]]
          BY <1>5, <5>3
        <5>5. s.at = fr2.at - 1
          BY <1>1, <3>3
        <5>6. QED
          BY <5>2, <5>3, <5>4, <5>5
      <4>3. ~(s.arg < 1) /\ (s.arg = 1 => s.file \in todo[1])
        BY <1>4, <4>1, <4>2
      <4>4. QED
        BY <1>5, <1>7, <4>2, <4>3 DEF Passed
    <3>4. ASSUME s.at # fr.at PROVE Passed(fr2, s) <=> Passed(fr, s)
      <4>1. (s.at < fr.at + 1 <=> s.at < fr.at) /\ s.at # (fr.at + 1) - 1
        BY <1>1, <1>2, <3>2, <3>4
      <4>2. QED
        BY <4>1 DEF Passed
    <3>5. Passed(fr, s) => s.at # fr.at
      BY <1>1 DEF Passed
    <3>6. QED
      BY <2>1, <3>1, <3>3, <3>4, <3>5 DEF AtTop
  <2>2. CASE ~(k <= Len(o.route))
    <3>1. o.at \in 1..n /\ o.at # fr.at
      BY <1>2, <1>10, <2>2 DEF Meets
    <3>2. o.at < fr.at + 1 <=> o.at < fr.at
      BY <1>1, <1>2, <3>1
    <3>3. QED
      BY <2>2, <3>2 DEF AtTop
  <2>3. QED
    BY <2>1, <2>2
<1>11. QED
  BY <1>9, <1>10

\* A folder that is empty now.
LEMMA FolderOver ==
  ASSUME body \in Worlds, NEW fr, FrameOK(fr), fr.todo # <<>>, fr.todo[1] = {},
         NEW fr2, fr2.file = fr.file, fr2.at = fr.at, fr2.todo = Tail(fr.todo),
         fr2.targets = fr.targets, fr2.priority = fr.priority
  PROVE  /\ FrameOK(fr2)
         /\ \A o, k : Meets(fr, o, k) => (AtTop(fr2, o, k) <=> AtTop(fr, o, k))
<1>1. /\ fr.file \in DOMAIN body /\ fr.at \in Nat \ {0} /\ fr.at - 1 \in DOMAIN body[fr.file]
      /\ Line(fr).cmd = "Include" /\ fr.todo \in Seq(SUBSET Modfiles)
      /\ Len(fr.todo) <= Len(Line(fr).args)
      /\ \A k \in 2..Len(fr.todo) : fr.todo[k] = Folder[Line(fr).args[Arg(fr) + (k - 1)]]
  BY DEF FrameOK
<1>2. PICK args : args = Line(fr).args /\ args \in Seq(DOMAIN Folder) /\ Line(fr2).args = args
                  /\ Line(fr2).cmd = "Include"
  BY <1>1, ModfileIs DEF Line
<1>3. PICK l \in Nat : Len(args) = l /\ DOMAIN args = 1..l
  BY <1>2
<1>4. PICK t : t = fr.todo
  OBVIOUS
<1>5. PICK n \in Nat \ {0} : Len(t) = n
  BY <1>1, <1>4, EmptySeq, LenProperties
<1>6. /\ Tail(t) \in Seq(SUBSET Modfiles) /\ Len(Tail(t)) = n - 1
      /\ \A k \in 1..(n - 1) : Tail(t)[k] = t[k + 1]
  BY <1>1, <1>4, <1>5, HeadTailProperties
<1>7. PICK a \in Nat \ {0} : Arg(fr) = a /\ a = l - n + 1 /\ Arg(fr2) = a + 1
  <2>1. Arg(fr) = l - n + 1 /\ n <= l
    BY <1>1, <1>2, <1>3, <1>4, <1>5 DEF Arg
  <2>2. Arg(fr2) = l - (n - 1) + 1
    BY <1>2, <1>3, <1>4, <1>6 DEF Arg
  <2>3. l - n + 1 \in Nat \ {0} /\ l - (n - 1) + 1 = (l - n + 1) + 1
    BY <1>3, <1>5, <2>1
  <2>4. QED
    BY <2>1, <2>2, <2>3
<1>8. \A k \in 1..(n - 1) : Tail(t)[k] = Folder[args[(a + 1) + (k - 1)]]
  <2>1. \A k \in 1..(n - 1) : k + 1 \in 2..n /\ a + ((k + 1) - 1) = (a + 1) + (k - 1)
    BY <1>5, <1>7
  <2>2. \A k \in 2..n : t[k] = Folder[args[a + (k - 1)]]
    BY <1>1, <1>2, <1>4, <1>5, <1>7
  <2>3. QED
    BY <1>6, <2>1, <2>2
<1>9. Tail(t) # <<>> => n - 1 # 0 /\ Tail(t)[1] = Folder[args[a + 1]]
  <2>1. ASSUME Tail(t) # <<>> PROVE n - 1 # 0
    BY <1>6, <2>1, EmptySeq
  <2>2. ASSUME n - 1 # 0 PROVE 1 \in 1..(n - 1) /\ (a + 1) + (1 - 1) = a + 1
    BY <1>5, <1>7, <2>2
  <2>3. QED
    BY <1>8, <2>1, <2>2
<1>10. FrameOK(fr2)
  <2>1. \A k \in 2..(n - 1) : k \in 1..(n - 1)
    BY <1>5
  <2>2. Len(fr2.todo) <= Len(Line(fr2).args)
    BY <1>1, <1>2, <1>3, <1>4, <1>5, <1>6
  <2>3. fr2.todo # <<>> => fr2.todo[1] \subseteq Folder[Line(fr2).args[Arg(fr2)]]
    BY <1>2, <1>4, <1>7, <1>9
  <2>4. \A k \in 2..Len(fr2.todo) : fr2.todo[k] = Folder[Line(fr2).args[Arg(fr2) + (k - 1)]]
    BY <1>2, <1>4, <1>6, <1>7, <1>8, <2>1
  <2>5. /\ fr2.targets = TargetsAt(fr2.file, fr2.at) /\ fr2.priority = PriorityAt(fr2.file, fr2.at)
    BY DEF FrameOK
  <2>6. fr2.todo \in Seq(SUBSET Modfiles)
    BY <1>4, <1>6
  <2>7. QED
    BY <1>1, <1>2, <2>2, <2>3, <2>4, <2>5, <2>6 DEF FrameOK
<1>11. ASSUME NEW o, NEW k, Meets(fr, o, k) PROVE AtTop(fr2, o, k) <=> AtTop(fr, o, k)
  <2>1. CASE k <= Len(o.route)
    <3>1. PICK s : s = o.route[k] /\ s \in StepsOf(fr.file)
      BY <1>11, <2>1 DEF Meets
    <3>2. ASSUME s.at = fr.at - 1 PROVE Passed(fr2, s) <=> Passed(fr, s)
      <4>1. s.arg \in 1..l /\ s.file \in Folder[args[s.arg]]
        <5>1. s.arg \in DOMAIN body[fr.file][s.at].args /\ s.file \in Folder[body[fr.file][s.at].args[s.arg]]
          BY <3>1, StepIs
        <5>2. body[fr.file][s.at].args = args
          BY <1>2, <3>2 DEF Line
        <5>3. QED
          BY <1>3, <5>1, <5>2
      <4>2. s.at < fr.at /\ s.at < fr2.at
        BY <1>1, <3>2
      <4>3. Passed(fr, s) <=> s.arg < a \/ s.arg = a
        BY <1>7, <3>2, <4>2 DEF Passed
      <4>4. CASE Tail(t) = <<>>
        <5>1. n = 1
          <6>1. PICK u : u = Tail(t)
            OBVIOUS
          <6>2. Len(u) = n - 1 /\ u = <<>>
            BY <1>6, <4>4, <6>1
          <6>3. n - 1 = 0
            BY <6>2
          <6>4. QED
            BY <1>5, <6>3
        <5>2. a = l
          BY <1>3, <1>7, <5>1
        <5>3. s.arg < a \/ s.arg = a
          BY <1>3, <4>1, <5>2
        <5>4. Passed(fr2, s)
          BY <1>4, <4>2, <4>4 DEF Passed
        <5>5. QED
          BY <4>3, <5>3, <5>4
      <4>5. CASE Tail(t) # <<>>
        <5>1. s.arg = a + 1 => s.file \in Tail(t)[1]
          BY <1>9, <4>1, <4>5
        <5>2. Passed(fr2, s) <=> s.arg < a + 1
          BY <1>4, <1>7, <3>2, <4>2, <4>5, <5>1 DEF Passed
        <5>3. s.arg < a + 1 <=> s.arg < a \/ s.arg = a
          BY <1>3, <1>7, <4>1
        <5>4. QED
          BY <4>3, <5>2, <5>3
      <4>6. QED
        BY <4>4, <4>5
    <3>3. ASSUME s.at # fr.at - 1 PROVE Passed(fr2, s) <=> Passed(fr, s)
      BY <3>3 DEF Passed
    <3>4. QED
      BY <2>1, <3>1, <3>2, <3>3 DEF AtTop
  <2>2. CASE ~(k <= Len(o.route))
    BY <2>2 DEF AtTop
  <2>3. QED
    BY <2>1, <2>2
<1>12. QED
  BY <1>10, <1>11

\* A modfile taken from a folder.
LEMMA FileTaken ==
  ASSUME body \in Worlds, NEW fr, FrameOK(fr), fr.todo # <<>>, NEW f \in fr.todo[1],
         NEW fr2, fr2.file = fr.file, fr2.at = fr.at, fr2.todo = [fr.todo EXCEPT ![1] = @ \ {f}],
         fr2.targets = fr.targets, fr2.priority = fr.priority
  PROVE  /\ FrameOK(fr2) /\ fr2.todo # <<>> /\ f \notin fr2.todo[1] /\ Arg(fr2) = Arg(fr)
         /\ f \in DOMAIN body => [at |-> fr.at - 1, arg |-> Arg(fr), file |-> f] \in StepsOf(fr.file)
         /\ \A o, k : Meets(fr, o, k) =>
              (AtTop(fr, o, k) <=>
                 AtTop(fr2, o, k) /\ (k <= Len(o.route) =>
                                        o.route[k] # [at |-> fr.at - 1, arg |-> Arg(fr), file |-> f]))
<1>1. /\ fr.file \in DOMAIN body /\ fr.at \in Nat \ {0} /\ fr.at - 1 \in DOMAIN body[fr.file]
      /\ Line(fr).cmd = "Include" /\ fr.todo \in Seq(SUBSET Modfiles)
      /\ Len(fr.todo) <= Len(Line(fr).args)
      /\ fr.todo[1] \subseteq Folder[Line(fr).args[Arg(fr)]]
      /\ \A k \in 2..Len(fr.todo) : fr.todo[k] = Folder[Line(fr).args[Arg(fr) + (k - 1)]]
  BY DEF FrameOK
<1>2. PICK args : args = Line(fr).args /\ args \in Seq(DOMAIN Folder) /\ Line(fr2).args = args
                  /\ Line(fr2).cmd = "Include"
  BY <1>1, ModfileIs DEF Line
<1>3. PICK l \in Nat : Len(args) = l /\ DOMAIN args = 1..l
  BY <1>2
<1>4. PICK t, t2 : t = fr.todo /\ t2 = fr2.todo
  OBVIOUS
<1>5. PICK n \in Nat \ {0} : Len(t) = n /\ DOMAIN t = 1..n
  BY <1>1, <1>4, EmptySeq, LenProperties
<1>6. /\ t2 \in Seq(SUBSET Modfiles) /\ Len(t2) = n /\ t2[1] = t[1] \ {f}
      /\ \A k \in 2..n : t2[k] = t[k]
  <2>1. t \in Seq(SUBSET Modfiles) /\ 1 \in 1..n /\ t[1] \in SUBSET Modfiles
    BY <1>1, <1>4, <1>5
  <2>2. t[1] \ {f} \in SUBSET Modfiles
    BY <2>1
  <2>3. t2 = [t EXCEPT ![1] = t[1] \ {f}]
    BY <1>4
  <2>4. t2 \in Seq(SUBSET Modfiles) /\ Len(t2) = Len(t)
    BY <1>5, <2>1, <2>2, <2>3, ExceptSeq
  <2>5. t2[1] = t[1] \ {f} /\ \A k \in 2..n : t2[k] = t[k]
    BY <1>5, <2>1, <2>3
  <2>6. QED
    BY <1>5, <2>4, <2>5
<1>7. PICK a \in Nat \ {0} : Arg(fr) = a /\ a = l - n + 1 /\ Arg(fr2) = a
  <2>1. Arg(fr) = l - n + 1 /\ n <= l
    BY <1>1, <1>2, <1>3, <1>4, <1>5 DEF Arg
  <2>2. Arg(fr2) = l - n + 1
    BY <1>2, <1>3, <1>4, <1>6 DEF Arg
  <2>3. l - n + 1 \in Nat \ {0}
    BY <1>3, <1>5, <2>1
  <2>4. QED
    BY <2>1, <2>2, <2>3
<1>8. t2 # <<>>
  BY <1>5, <1>6, EmptySeq
<1>9. FrameOK(fr2)
  <2>1. fr2.todo[1] \subseteq Folder[Line(fr2).args[Arg(fr2)]]
    BY <1>1, <1>2, <1>4, <1>6, <1>7
  <2>2. Len(fr2.todo) <= Len(Line(fr2).args)
    BY <1>1, <1>2, <1>4, <1>5, <1>6
  <2>3. \A k \in 2..Len(fr2.todo) : fr2.todo[k] = Folder[Line(fr2).args[Arg(fr2) + (k - 1)]]
    BY <1>1, <1>2, <1>4, <1>5, <1>6, <1>7
  <2>4. /\ fr2.targets = TargetsAt(fr2.file, fr2.at) /\ fr2.priority = PriorityAt(fr2.file, fr2.at)
    BY DEF FrameOK
  <2>5. QED
    BY <1>1, <1>2, <1>4, <1>6, <2>1, <2>2, <2>3, <2>4 DEF FrameOK
<1>10. ASSUME f \in DOMAIN body
       PROVE  [at |-> fr.at - 1, arg |-> Arg(fr), file |-> f] \in StepsOf(fr.file)
  <2>1. PICK i : i = fr.at - 1 /\ i \in DOMAIN body[fr.file]
    BY <1>1
  <2>2. body[fr.file][i].cmd = "Include" /\ body[fr.file][i].args = args
    BY <1>1, <1>2, <2>1 DEF Line
  <2>3. a \in DOMAIN args
    BY <1>1, <1>2, <1>3, <1>4, <1>5, <1>7
  <2>4. f \in Folder[args[a]]
    BY <1>1, <1>2, <1>4, <1>7
  <2>5. QED
    BY <1>7, <1>10, <2>1, <2>2, <2>3, <2>4, StepMade
<1>11. ASSUME NEW o, NEW k, Meets(fr, o, k)
       PROVE  AtTop(fr, o, k) <=>
                AtTop(fr2, o, k) /\ (k <= Len(o.route) =>
                                       o.route[k] # [at |-> fr.at - 1, arg |-> Arg(fr), file |-> f])
  <2>1. CASE k <= Len(o.route)
    <3>1. PICK s : s = o.route[k] /\ s \in StepsOf(fr.file)
      BY <1>11, <2>1 DEF Meets
    <3>2. s = [at |-> s.at, arg |-> s.arg, file |-> s.file]
      BY <3>1, StepIs
    <3>3. s = [at |-> fr.at - 1, arg |-> Arg(fr), file |-> f]
            <=> s.at = fr.at - 1 /\ s.arg = a /\ s.file = f
      BY <1>7, <3>2
    <3>4. Passed(fr, s) <=>
            s.at < fr.at /\ (s.at = fr.at - 1 => s.arg < a \/ (s.arg = a /\ s.file \notin t[1]))
      BY <1>4, <1>7 DEF Passed
    <3>5. Passed(fr2, s) <=>
            s.at < fr.at /\ (s.at = fr.at - 1 => s.arg < a \/ (s.arg = a /\ s.file \notin t[1] \ {f}))
      BY <1>4, <1>6, <1>7, <1>8 DEF Passed
    <3>6. f \in t[1] /\ (s.arg = a => ~(s.arg < a)) /\ (s.at = fr.at - 1 => s.at < fr.at)
      BY <1>1, <1>4, <1>7
    <3>7. Passed(fr, s) <=> Passed(fr2, s) /\ ~(s.at = fr.at - 1 /\ s.arg = a /\ s.file = f)
      BY <3>4, <3>5, <3>6
    <3>8. QED
      BY <2>1, <3>1, <3>3, <3>7 DEF AtTop
  <2>2. CASE ~(k <= Len(o.route))
    BY <2>2 DEF AtTop
  <2>3. QED
    BY <2>1, <2>2
<1>12. QED
  BY <1>4, <1>6, <1>7, <1>8, <1>9, <1>10, <1>11

LEMMA TopOK ==
  ASSUME NEW m, NEW st, StackOK(m, st), NEW st2, NEW fr, Swaps(st, st2, fr)
  PROVE  FrameOK(st[Len(st)]) /\ Len(st) # 0
<1>1. Len(st) \in 1..Len(st) /\ Len(st) # 0
  BY DEF Swaps
<1>2. QED
  BY <1>1 DEF StackOK

\* What is behind once the frame on top is another.
LEMMA SwapBehind ==
  ASSUME body \in Worlds, NEW m, NEW kinds, NEW st, StackOK(m, st), NEW st2, NEW fr,
         Swaps(st, st2, fr), fr.file = st[Len(st)].file, NEW o \in Origins(m, kinds)
  PROVE  /\ Behind(st, o) <=>
              Below(st, o) \/ (Agree(st, o, Len(st) - 1) /\ AtTop(st[Len(st)], o, Len(st)))
         /\ Behind(st2, o) <=>
              Below(st, o) \/ (Agree(st, o, Len(st) - 1) /\ AtTop(fr, o, Len(st)))
         /\ Agree(st, o, Len(st) - 1) =>
              /\ Meets(st[Len(st)], o, Len(st))
              /\ ~(Len(st) <= Len(o.route)) =>
                   /\ body[st[Len(st)].file][o.at].cmd \in kinds
                   /\ o.route = Way(st, Len(st) - 1) /\ Reached(m, o.route) = st[Len(st)].file
<1>1. Len(st) \in Nat \ {0} /\ Len(st2) = Len(st) /\ st2[Len(st)] = fr
  BY DEF Swaps
<1>2. /\ Agree(st2, o, Len(st) - 1) <=> Agree(st, o, Len(st) - 1)
      /\ Below(st2, o) <=> Below(st, o)
  BY SwapKeeps
<1>3. Len(st) # 0 /\ Len(st) \in 1..Len(st)
  BY <1>1
<1>4. Agree(st, o, Len(st) - 1) =>
        /\ Meets(st[Len(st)], o, Len(st))
        /\ ~(Len(st) <= Len(o.route)) =>
             /\ body[st[Len(st)].file][o.at].cmd \in kinds
             /\ o.route = Way(st, Len(st) - 1) /\ Reached(m, o.route) = st[Len(st)].file
  BY <1>3, NextIs DEF Meets
<1>5. QED
  BY <1>1, <1>2, <1>3, <1>4 DEF Behind

\* A line that is not of the kinds asked for.
LEMMA LineBehind ==
  ASSUME body \in Worlds, NEW m, NEW kinds, NEW st, StackOK(m, st), NEW st2, NEW fr, NEW fr2,
         Swaps(st, st2, fr2), fr = st[Len(st)],
         fr.todo = <<>>, fr.at \in DOMAIN body[fr.file],
         body[fr.file][fr.at].cmd \notin kinds \cup {"Include"},
         fr2.file = fr.file, fr2.at = fr.at + 1, fr2.todo = <<>>,
         fr2.targets = TargetsAt(fr.file, fr.at + 1), fr2.priority = PriorityAt(fr.file, fr.at + 1)
  PROVE  /\ StackOK(m, st2)
         /\ \A o \in Origins(m, kinds) : Behind(st2, o) <=> Behind(st, o)
<1>1. FrameOK(fr)
  BY TopOK
<1>2. FrameOK(fr2)
  BY <1>1, LineOver
<1>3. ASSUME NEW o \in Origins(m, kinds) PROVE Behind(st2, o) <=> Behind(st, o)
  <2>1. PICK k : k = Len(st)
    OBVIOUS
  <2>2. /\ Behind(st, o) <=> Below(st, o) \/ (Agree(st, o, k - 1) /\ AtTop(fr, o, k))
        /\ Behind(st2, o) <=> Below(st, o) \/ (Agree(st, o, k - 1) /\ AtTop(fr2, o, k))
        /\ Agree(st, o, k - 1) =>
             Meets(fr, o, k) /\ (~(k <= Len(o.route)) => body[fr.file][o.at].cmd \in kinds)
    BY <2>1, SwapBehind
  <2>3. Meets(fr, o, k) =>
          (AtTop(fr2, o, k) <=> AtTop(fr, o, k) \/ (~(k <= Len(o.route)) /\ o.at = fr.at))
    BY <1>1, LineOver
  <2>4. QED
    BY <2>2, <2>3
<1>4. QED
  BY <1>2, <1>3, SwapOK

\* A line of them: what it declares comes last.
LEMMA LineDeclares ==
  ASSUME body \in Worlds, NEW m, NEW kinds, NEW st, StackOK(m, st), NEW st2, NEW fr, NEW fr2,
         Swaps(st, st2, fr2), fr = st[Len(st)],
         fr.todo = <<>>, fr.at \in DOMAIN body[fr.file],
         body[fr.file][fr.at].cmd \in kinds, "Include" \notin kinds,
         fr2.file = fr.file, fr2.at = fr.at + 1, fr2.todo = <<>>,
         fr2.targets = TargetsAt(fr.file, fr.at + 1), fr2.priority = PriorityAt(fr.file, fr.at + 1)
  PROVE  /\ StackOK(m, st2)
         /\ \A o \in Origins(m, kinds) : Behind(st2, o) <=>
              Behind(st, o) \/ o \in OriginsAt(fr.file, Way(st, Len(st) - 1), fr.at)
         /\ OriginsAt(fr.file, Way(st, Len(st) - 1), fr.at) \subseteq Origins(m, kinds)
<1>1. FrameOK(fr) /\ Len(st) # 0
  BY TopOK
<1>2. FrameOK(fr2)
  BY <1>1, LineOver
<1>3. PICK k : k = Len(st)
  OBVIOUS
<1>4. /\ Way(st, k - 1) \in Routes(m) /\ Len(Way(st, k - 1)) = k - 1
      /\ Reached(m, Way(st, k - 1)) = fr.file
  BY <1>1, <1>3, WayIs
<1>5. OriginsAt(fr.file, Way(st, k - 1), fr.at) \subseteq Origins(m, kinds)
  BY <1>4, OriginMade
<1>6. ASSUME NEW o \in Origins(m, kinds)
      PROVE  Behind(st2, o) <=> Behind(st, o) \/ o \in OriginsAt(fr.file, Way(st, k - 1), fr.at)
  <2>1. /\ Behind(st, o) <=> Below(st, o) \/ (Agree(st, o, k - 1) /\ AtTop(fr, o, k))
        /\ Behind(st2, o) <=> Below(st, o) \/ (Agree(st, o, k - 1) /\ AtTop(fr2, o, k))
        /\ Agree(st, o, k - 1) => /\ Meets(fr, o, k)
                                  /\ ~(k <= Len(o.route)) => /\ o.route = Way(st, k - 1)
                                                             /\ Reached(m, o.route) = fr.file
    BY <1>3, SwapBehind
  <2>2. Meets(fr, o, k) =>
          (AtTop(fr2, o, k) <=> AtTop(fr, o, k) \/ (~(k <= Len(o.route)) /\ o.at = fr.at))
    BY <1>1, LineOver
  <2>3. ASSUME Agree(st, o, k - 1), ~(k <= Len(o.route)), o.at = fr.at
        PROVE  o \in OriginsAt(fr.file, Way(st, k - 1), fr.at)
    BY <2>1, <2>3, OriginIs
  <2>4. ASSUME o \in OriginsAt(fr.file, Way(st, k - 1), fr.at)
        PROVE  Agree(st, o, k - 1) /\ ~(k <= Len(o.route)) /\ o.at = fr.at
    <3>1. o.route = Way(st, k - 1) /\ o.at = fr.at
      BY <2>4 DEF OriginsAt
    <3>2. k \in Nat \ {0}
      BY <1>3 DEF Swaps
    <3>3. Len(o.route) = k - 1 /\ \A i \in 1..(k - 1) : o.route[i] = Into(st, i)
      BY <1>4, <3>1 DEF Way
    <3>4. ~(k <= k - 1) /\ k - 1 <= k - 1
      BY <3>2
    <3>5. QED
      BY <3>1, <3>3, <3>4 DEF Agree
  <2>5. QED
    BY <2>1, <2>2, <2>3, <2>4
<1>7. QED
  BY <1>2, <1>3, <1>5, <1>6, SwapOK

\* fr2 is fr past an Include, with the modfiles it names to open.
Includes(fr, fr2) ==
  /\ fr.todo = <<>> /\ fr.at \in DOMAIN body[fr.file] /\ body[fr.file][fr.at].cmd = "Include"
  /\ fr2.file = fr.file /\ fr2.at = fr.at + 1
  /\ fr2.todo = [i \in DOMAIN body[fr.file][fr.at].args |-> Folder[body[fr.file][fr.at].args[i]]]
  /\ fr2.targets = fr.targets /\ fr2.priority = fr.priority
LEMMA IncludesStart ==
  ASSUME body \in Worlds, NEW fr, FrameOK(fr), NEW fr2, Includes(fr, fr2)
  PROVE  /\ FrameOK(fr2)
         /\ \A o, k : Meets(fr, o, k) /\ (~(k <= Len(o.route)) => o.at # fr.at) =>
              (AtTop(fr2, o, k) <=> AtTop(fr, o, k))
<1>1. /\ fr.todo = <<>> /\ fr.at \in DOMAIN body[fr.file] /\ body[fr.file][fr.at].cmd = "Include"
      /\ fr2.file = fr.file /\ fr2.at = fr.at + 1
      /\ fr2.todo = [i \in DOMAIN body[fr.file][fr.at].args |-> Folder[body[fr.file][fr.at].args[i]]]
      /\ fr2.targets = fr.targets /\ fr2.priority = fr.priority
  BY DEF Includes
<1>2. QED
  BY <1>1, IncludeStarts

LEMMA IncludeBehind ==
  ASSUME body \in Worlds, NEW m, NEW kinds, NEW st, StackOK(m, st), NEW st2, NEW fr, NEW fr2,
         Swaps(st, st2, fr2), fr = st[Len(st)], Includes(fr, fr2), "Include" \notin kinds
  PROVE  /\ StackOK(m, st2)
         /\ \A o \in Origins(m, kinds) : Behind(st2, o) <=> Behind(st, o)
<1>1. FrameOK(fr)
  BY TopOK
<1>2. /\ FrameOK(fr2)
      /\ \A o, k : Meets(fr, o, k) /\ (~(k <= Len(o.route)) => o.at # fr.at) =>
           (AtTop(fr2, o, k) <=> AtTop(fr, o, k))
  BY <1>1, IncludesStart
<1>. USE DEF Includes
<1>3. ASSUME NEW o \in Origins(m, kinds) PROVE Behind(st2, o) <=> Behind(st, o)
  <2>1. PICK k : k = Len(st)
    OBVIOUS
  <2>2. /\ Behind(st, o) <=> Below(st, o) \/ (Agree(st, o, k - 1) /\ AtTop(fr, o, k))
        /\ Behind(st2, o) <=> Below(st, o) \/ (Agree(st, o, k - 1) /\ AtTop(fr2, o, k))
        /\ Agree(st, o, k - 1) =>
             Meets(fr, o, k) /\ (~(k <= Len(o.route)) => body[fr.file][o.at].cmd \in kinds)
    BY <2>1, SwapBehind
  <2>3. Meets(fr, o, k) /\ (~(k <= Len(o.route)) => o.at # fr.at) =>
          (AtTop(fr2, o, k) <=> AtTop(fr, o, k))
    BY <1>2
  <2>4. QED
    BY <2>2, <2>3
<1>4. QED
  BY <1>2, <1>3, SwapOK

LEMMA FolderBehind ==
  ASSUME body \in Worlds, NEW m, NEW kinds, NEW st, StackOK(m, st), NEW st2, NEW fr, NEW fr2,
         Swaps(st, st2, fr2), fr = st[Len(st)], fr.todo # <<>>, fr.todo[1] = {},
         fr2.file = fr.file, fr2.at = fr.at, fr2.todo = Tail(fr.todo),
         fr2.targets = fr.targets, fr2.priority = fr.priority
  PROVE  /\ StackOK(m, st2)
         /\ \A o \in Origins(m, kinds) : Behind(st2, o) <=> Behind(st, o)
<1>1. FrameOK(fr)
  BY TopOK
<1>2. FrameOK(fr2)
  BY <1>1, FolderOver
<1>3. ASSUME NEW o \in Origins(m, kinds) PROVE Behind(st2, o) <=> Behind(st, o)
  <2>1. PICK k : k = Len(st)
    OBVIOUS
  <2>2. /\ Behind(st, o) <=> Below(st, o) \/ (Agree(st, o, k - 1) /\ AtTop(fr, o, k))
        /\ Behind(st2, o) <=> Below(st, o) \/ (Agree(st, o, k - 1) /\ AtTop(fr2, o, k))
        /\ Agree(st, o, k - 1) => Meets(fr, o, k)
    BY <2>1, SwapBehind
  <2>3. Meets(fr, o, k) => (AtTop(fr2, o, k) <=> AtTop(fr, o, k))
    BY <1>1, FolderOver
  <2>4. QED
    BY <2>2, <2>3
<1>4. QED
  BY <1>2, <1>3, SwapOK

\* A modfile that cannot be opened, or is nested too deeply, declares nothing.
LEMMA LostBehind ==
  ASSUME body \in Worlds, NEW m, NEW kinds, NEW st, StackOK(m, st), NEW st2, NEW fr, NEW fr2,
         Swaps(st, st2, fr2), fr = st[Len(st)], fr.todo # <<>>, NEW f \in fr.todo[1],
         fr2.file = fr.file, fr2.at = fr.at, fr2.todo = [fr.todo EXCEPT ![1] = @ \ {f}],
         fr2.targets = fr.targets, fr2.priority = fr.priority,
         Len(st) > MaxDepth \/ f \notin DOMAIN body
  PROVE  /\ StackOK(m, st2)
         /\ \A o \in Origins(m, kinds) : Behind(st2, o) <=> Behind(st, o)
<1>1. FrameOK(fr)
  BY TopOK
<1>2. FrameOK(fr2)
  BY <1>1, FileTaken
<1>3. ASSUME NEW o \in Origins(m, kinds) PROVE Behind(st2, o) <=> Behind(st, o)
  <2>1. PICK k : k = Len(st)
    OBVIOUS
  <2>2. /\ Behind(st, o) <=> Below(st, o) \/ (Agree(st, o, k - 1) /\ AtTop(fr, o, k))
        /\ Behind(st2, o) <=> Below(st, o) \/ (Agree(st, o, k - 1) /\ AtTop(fr2, o, k))
        /\ Agree(st, o, k - 1) => Meets(fr, o, k)
    BY <2>1, SwapBehind
  <2>3. PICK step : step = [at |-> fr.at - 1, arg |-> Arg(fr), file |-> f]
    OBVIOUS
  <2>4. Meets(fr, o, k) =>
          (AtTop(fr, o, k) <=> AtTop(fr2, o, k) /\ (k <= Len(o.route) => o.route[k] # step))
    BY <1>1, <2>3, FileTaken
  <2>5. Meets(fr, o, k) => (k <= Len(o.route) => o.route[k] # step)
    <3>1. ASSUME k > MaxDepth, k <= Len(o.route) PROVE FALSE
      <4>1. o.route \in Routes(m)
        BY OriginIs
      <4>2. Len(o.route) \in 0..MaxDepth /\ MaxDepth \in Nat /\ k \in Nat
        BY <2>1, <4>1, RouteIs, NumbersAssumption DEF Swaps
      <4>3. QED
        BY <3>1, <4>2
    <3>2. ASSUME f \notin DOMAIN body, Meets(fr, o, k), k <= Len(o.route), o.route[k] = step PROVE FALSE
      <4>1. step \in StepsOf(fr.file) /\ step.file = f
        BY <2>3, <3>2 DEF Meets
      <4>2. QED
        BY <3>2, <4>1, StepIs
    <3>3. QED
      BY <2>1, <3>1, <3>2
  <2>6. QED
    BY <2>2, <2>4, <2>5
<1>4. QED
  BY <1>2, <1>3, SwapOK

LEMMA TakenIs ==
  ASSUME body \in Worlds, NEW fr, FrameOK(fr), fr.todo # <<>>, NEW f \in fr.todo[1],
         NEW fr2, fr2.file = fr.file, fr2.at = fr.at, fr2.todo = [fr.todo EXCEPT ![1] = @ \ {f}],
         fr2.targets = fr.targets, fr2.priority = fr.priority
  PROVE  FrameOK(fr2) /\ fr2.todo # <<>> /\ f \notin fr2.todo[1] /\ Arg(fr2) = Arg(fr)
BY FileTaken

\* st3 is st2 with a modfile on top, at its first line.
Opens(st2, st3, new) ==
  /\ Len(st3) = Len(st2) + 1 /\ st3[Len(st2) + 1] = new
  /\ \A k \in 1..Len(st2) : st3[k] = st2[k]
  /\ new.at = 1 /\ new.todo = <<>>
  /\ new.targets = <<DefaultTarget>> /\ new.priority = DefaultPriority
\* The modfile opened: nothing of it is behind.
LEMMA OpenedBehind ==
  ASSUME body \in Worlds, NEW m, NEW kinds, NEW st, StackOK(m, st), NEW st2, NEW fr, NEW fr2,
         Swaps(st, st2, fr2), fr = st[Len(st)], fr.todo # <<>>, NEW f \in fr.todo[1],
         fr2.file = fr.file, fr2.at = fr.at, fr2.todo = [fr.todo EXCEPT ![1] = @ \ {f}],
         fr2.targets = fr.targets, fr2.priority = fr.priority,
         Len(st) <= MaxDepth, f \in DOMAIN body, NEW st3, NEW new, Opens(st2, st3, new), new.file = f
  PROVE  /\ StackOK(m, st3)
         /\ \A o \in Origins(m, kinds) : Behind(st3, o) <=> Behind(st, o)
<1>. USE DEF Opens
<1>0. Len(st2) = Len(st)
  BY DEF Swaps
<1>1. FrameOK(fr) /\ Len(st) # 0
  BY TopOK
<1>2. PICK step : step = [at |-> fr.at - 1, arg |-> Arg(fr), file |-> f]
  OBVIOUS
<1>3. /\ FrameOK(fr2) /\ fr2.todo # <<>> /\ f \notin fr2.todo[1] /\ Arg(fr2) = Arg(fr)
      /\ step \in StepsOf(fr.file)
  <2>1. FrameOK(fr2) /\ fr2.todo # <<>> /\ f \notin fr2.todo[1] /\ Arg(fr2) = Arg(fr)
    BY <1>1, TakenIs
  <2>2. [at |-> fr.at - 1, arg |-> Arg(fr), file |-> f] \in StepsOf(fr.file)
    BY <1>1, FileTaken
  <2>3. QED
    BY <1>2, <2>1, <2>2
<1>4. StackOK(m, st2)
  BY <1>3, SwapOK
<1>5. PICK n \in Nat \ {0} : Len(st) = n /\ Len(st2) = n /\ Len(st3) = n + 1 /\ st2[n] = fr2
  BY <1>0 DEF Swaps
<1>6. n <= MaxDepth /\ MaxDepth \in Nat
  BY <1>5, NumbersAssumption
<1>7. FrameOK(new)
  <2>1. new.at - 1 = 0 /\ new.at \in Nat \ {0} /\ <<>> \in Seq(SUBSET Modfiles)
    OBVIOUS
  <2>2. new.targets = TargetsAt(new.file, new.at) /\ new.priority = PriorityAt(new.file, new.at)
    BY TargetsAre, PriorityIs
  <2>3. QED
    BY <2>1, <2>2 DEF FrameOK
<1>8. /\ \A k \in 1..n : st3[k] = st2[k]
      /\ st3[n + 1] = new
  BY <1>5
<1>9. \A k \in 1..(n - 1) : Into(st3, k) = Into(st2, k)
  <2>1. \A k \in 1..(n - 1) : k \in 1..n /\ k + 1 \in 1..n
    BY <1>5
  <2>2. QED
    BY <1>8, <2>1 DEF Into
<1>10. n \in 1..n /\ 1 \in 1..n /\ (n + 1) - 1 = n
  BY <1>5
<1>11. Into(st3, n) = step
  <2>1. st3[n] = fr2 /\ st3[n + 1].file = f
    BY <1>5, <1>8, <1>10
  <2>2. QED
    BY <1>2, <1>3, <2>1 DEF Into
<1>12. /\ st2[1].file = m /\ \A k \in 1..n : FrameOK(st2[k])
       /\ \A k \in 1..(n - 1) : /\ st2[k].todo # <<>> /\ Into(st2, k) \in StepsOf(st2[k].file)
                               /\ st2[k + 1].file \notin st2[k].todo[1]
  BY <1>4, <1>5 DEF StackOK
<1>13. StackOK(m, st3)
  <2>1. Len(st3) \in 0..(MaxDepth + 1) /\ Len(st3) # 0
    BY <1>5, <1>6
  <2>2. st3 # <<>>
    BY <2>1
  <2>3. st3[1].file = m
    BY <1>8, <1>10, <1>12
  <2>4. \A k \in 1..(n + 1) : k \in 1..n \/ k = n + 1
    BY <1>5
  <2>5. \A k \in 1..(n + 1) : FrameOK(st3[k])
    BY <1>7, <1>8, <1>12, <2>4
  <2>6. ASSUME NEW k \in 1..n
        PROVE  /\ st3[k].todo # <<>> /\ Into(st3, k) \in StepsOf(st3[k].file)
               /\ st3[k + 1].file \notin st3[k].todo[1]
    <3>1. CASE k = n
      BY <1>3, <1>5, <1>8, <1>10, <1>11, <3>1
    <3>2. CASE k # n
      <4>1. k \in 1..(n - 1) /\ k + 1 \in 1..n
        BY <1>5, <3>2
      <4>2. QED
        BY <1>8, <1>9, <1>12, <4>1
    <3>3. QED
      BY <3>1, <3>2
  <2>7. QED
    BY <1>5, <1>10, <2>1, <2>2, <2>3, <2>5, <2>6 DEF StackOK
<1>14. ASSUME NEW o \in Origins(m, kinds) PROVE Behind(st3, o) <=> Behind(st, o)
  <2>1. /\ Behind(st, o) <=> Below(st, o) \/ (Agree(st, o, n - 1) /\ AtTop(fr, o, n))
        /\ Agree(st, o, n - 1) => Meets(fr, o, n)
    BY <1>5, SwapBehind
  <2>2. /\ Below(st2, o) <=> Below(st, o)
        /\ Agree(st2, o, n - 1) <=> Agree(st, o, n - 1)
    BY <1>5, SwapKeeps
  <2>3. Meets(fr, o, n) =>
          (AtTop(fr, o, n) <=> AtTop(fr2, o, n) /\ (n <= Len(o.route) => o.route[n] # step))
    BY <1>1, <1>2, FileTaken
  <2>4. \A k \in 0..(n - 1) : Agree(st3, o, k) <=> Agree(st2, o, k)
    <3>1. \A k \in 0..(n - 1) : \A i \in 1..k : i \in 1..(n - 1)
      BY <1>5
    <3>2. QED
      BY <1>9, <3>1 DEF Agree
  <2>5. \A k \in 1..(n - 1) : PastAt(st3, o, k) <=> PastAt(st2, o, k)
    <3>1. \A k \in 1..(n - 1) : k \in 1..n /\ k < n /\ k < n + 1
      BY <1>5
    <3>2. QED
      BY <1>5, <1>8, <1>9, <3>1 DEF PastAt
  <2>6. PastAt(st3, o, n) <=> AtTop(fr2, o, n) /\ (n <= Len(o.route) => o.route[n] # step)
    <3>1. n < n + 1 /\ st3[n] = fr2
      BY <1>5, <1>8, <1>10
    <3>2. QED
      BY <1>5, <1>11, <3>1 DEF PastAt
  <2>7. ~(Agree(st3, o, n) /\ AtTop(new, o, n + 1))
    <3>1. SUFFICES ASSUME Agree(st3, o, n), AtTop(new, o, n + 1) PROVE FALSE
      OBVIOUS
    <3>2. n + 1 \in 1..Len(st3) /\ Agree(st3, o, (n + 1) - 1)
      BY <1>5, <1>10, <3>1
    <3>3. PICK i \in Nat : i = n + 1
      BY <1>5
    <3>4. /\ i <= Len(o.route) => o.route[i] \in StepsOf(new.file)
          /\ ~(i <= Len(o.route)) => o.at \in DOMAIN body[new.file]
      BY <1>8, <1>13, <3>2, <3>3, NextIs
    <3>5. PICK l \in Nat : DOMAIN body[new.file] = 1..l
      BY ModfileIs
    <3>6. CASE i <= Len(o.route)
      <4>1. o.route[i].at \in 1..l /\ o.route[i].at < 1
        BY <3>1, <3>3, <3>4, <3>5, <3>6, StepIs DEF AtTop, Passed
      <4>2. QED
        BY <4>1
    <3>7. CASE ~(i <= Len(o.route))
      <4>1. o.at \in 1..l /\ o.at < 1
        BY <3>1, <3>3, <3>4, <3>5, <3>7 DEF AtTop
      <4>2. QED
        BY <4>1
    <3>8. QED
      BY <3>6, <3>7
  <2>8. Behind(st3, o) <=> \E k \in 1..n : Agree(st3, o, k - 1) /\ PastAt(st3, o, k)
    BY <1>5, <1>8, <1>10, <2>7 DEF Behind, Below
  <2>9. (\E k \in 1..n : Agree(st3, o, k - 1) /\ PastAt(st3, o, k))
          <=> \/ \E k \in 1..(n - 1) : Agree(st3, o, k - 1) /\ PastAt(st3, o, k)
              \/ Agree(st3, o, n - 1) /\ PastAt(st3, o, n)
    <3>1. 1..n = 1..(n - 1) \cup {n}
      BY <1>5
    <3>2. QED
      BY <3>1
  <2>10. (\E k \in 1..(n - 1) : Agree(st3, o, k - 1) /\ PastAt(st3, o, k)) <=> Below(st2, o)
    <3>1. \A k \in 1..(n - 1) : k - 1 \in 0..(n - 1)
      BY <1>5
    <3>2. QED
      BY <1>5, <2>4, <2>5, <3>1 DEF Below
  <2>11. n - 1 \in 0..(n - 1)
    BY <1>5
  <2>12. Agree(st3, o, n - 1) <=> Agree(st, o, n - 1)
    BY <2>2, <2>4, <2>11
  <2>13. QED
    BY <2>1, <2>2, <2>3, <2>6, <2>8, <2>9, <2>10, <2>12
<1>15. QED
  BY <1>13, <1>14

\* The end of a modfile: all it declares is behind.
LEMMA EndBehind ==
  ASSUME body \in Worlds, NEW m, NEW kinds, NEW st, StackOK(m, st), Len(st) # 0, NEW fr,
         fr = st[Len(st)], fr.todo = <<>>, fr.at \notin DOMAIN body[fr.file],
         NEW st2, Len(st2) = Len(st) - 1, st2 = <<>> <=> Len(st2) = 0,
         \A k \in 1..(Len(st) - 1) : st2[k] = st[k]
  PROVE  /\ StackOK(m, st2)
         /\ \A o \in Origins(m, kinds) : Behind(st2, o) <=> Behind(st, o)
<1>1. PICK n \in Nat : Len(st) = n + 1 /\ Len(st2) = n /\ n + 1 <= MaxDepth + 1 /\ MaxDepth \in Nat
  <2>1. Len(st) \in 0..(MaxDepth + 1) /\ MaxDepth \in Nat
    BY NumbersAssumption DEF StackOK
  <2>2. Len(st) - 1 \in Nat /\ Len(st) = (Len(st) - 1) + 1
    BY <2>1
  <2>3. QED
    BY <2>1, <2>2
<1>2. /\ \A k \in 1..n : st2[k] = st[k]
      /\ fr = st[n + 1] /\ n + 1 \in 1..(n + 1) /\ (n + 1) - 1 = n
  BY <1>1
<1>3. /\ st[1].file = m /\ \A k \in 1..(n + 1) : FrameOK(st[k])
      /\ \A k \in 1..n : /\ st[k].todo # <<>> /\ Into(st, k) \in StepsOf(st[k].file)
                         /\ st[k + 1].file \notin st[k].todo[1]
  BY <1>1, <1>2 DEF StackOK
<1>4. \A k \in 1..(n - 1) : /\ k \in 1..n /\ k \in 1..(n + 1) /\ k + 1 \in 1..n
                           /\ Into(st2, k) = Into(st, k)
  <2>1. \A k \in 1..(n - 1) : k \in 1..n /\ k \in 1..(n + 1) /\ k + 1 \in 1..n
    BY <1>1
  <2>2. QED
    BY <1>2, <2>1 DEF Into
<1>5. StackOK(m, st2)
  <2>1. n \in 0..(MaxDepth + 1) /\ \A k \in 1..n : k \in 1..(n + 1)
    BY <1>1
  <2>2. n # 0 => st2[1].file = m
    <3>1. n # 0 => 1 \in 1..n
      BY <1>1
    <3>2. QED
      BY <1>2, <1>3, <3>1
  <2>3. \A k \in 1..n : FrameOK(st2[k])
    BY <1>2, <1>3, <2>1
  <2>4. \A k \in 1..(n - 1) : /\ st2[k].todo # <<>> /\ Into(st2, k) \in StepsOf(st2[k].file)
                             /\ st2[k + 1].file \notin st2[k].todo[1]
    BY <1>2, <1>3, <1>4
  <2>5. QED
    BY <1>1, <2>1, <2>2, <2>3, <2>4 DEF StackOK
<1>6. ASSUME NEW o \in Origins(m, kinds), Agree(st, o, n) PROVE AtTop(fr, o, n + 1)
  <2>1. FrameOK(fr)
    BY <1>2, <1>3
  <2>2. PICK l \in Nat : DOMAIN body[fr.file] = 1..l
    BY <2>1, ModfileIs DEF FrameOK
  <2>3. fr.at = l + 1
    <3>1. fr.at \in Nat \ {0} /\ fr.at - 1 \in {0} \cup 1..l /\ fr.at \notin 1..l
      BY <2>1, <2>2 DEF FrameOK
    <3>2. QED
      BY <3>1
  <2>4. n + 1 \in 1..Len(st) /\ Agree(st, o, (n + 1) - 1)
    BY <1>1, <1>2, <1>6
  <2>5. PICK i \in Nat : i = n + 1
    BY <1>1
  <2>6. /\ i <= Len(o.route) => o.route[i] \in StepsOf(fr.file)
        /\ ~(i <= Len(o.route)) => o.at \in DOMAIN body[fr.file]
    BY <1>2, <2>4, <2>5, NextIs
  <2>7. CASE i <= Len(o.route)
    <3>1. o.route[i].at \in 1..l
      BY <2>2, <2>6, <2>7, StepIs
    <3>2. o.route[i].at < fr.at
      BY <2>3, <3>1
    <3>3. QED
      BY <2>5, <2>7, <3>2 DEF AtTop, Passed
  <2>8. CASE ~(i <= Len(o.route))
    <3>1. o.at < fr.at
      BY <2>2, <2>3, <2>6, <2>8
    <3>2. QED
      BY <2>5, <2>8, <3>1 DEF AtTop
  <2>9. QED
    BY <2>7, <2>8
<1>7. ASSUME NEW o \in Origins(m, kinds) PROVE Behind(st2, o) <=> Behind(st, o)
  <2>1. Behind(st, o) <=> Below(st, o) \/ Agree(st, o, n)
    BY <1>1, <1>2, <1>6, <1>7 DEF Behind
  <2>2. CASE n = 0
    <3>1. Agree(st, o, 0)
      <4>1. o.route \in Routes(m)
        BY OriginIs
      <4>2. Len(o.route) \in Nat
        BY <4>1, RouteIs
      <4>3. QED
        BY <4>2 DEF Agree
    <3>2. Behind(st2, o)
      BY <1>1, <2>2 DEF Behind
    <3>3. QED
      BY <2>1, <2>2, <3>1, <3>2
  <2>3. CASE n # 0
    <3>1. /\ \A k \in 1..(n - 1) : Agree(st2, o, k - 1) <=> Agree(st, o, k - 1)
          /\ Agree(st2, o, n - 1) <=> Agree(st, o, n - 1)
      <4>1. ASSUME NEW k \in 0..(n - 1) PROVE Agree(st2, o, k) <=> Agree(st, o, k)
        <5>1. \A i \in 1..k : i \in 1..(n - 1)
          BY <1>1
        <5>2. QED
          BY <1>4, <5>1 DEF Agree
      <4>2. n - 1 \in 0..(n - 1) /\ \A k \in 1..(n - 1) : k - 1 \in 0..(n - 1)
        BY <1>1, <2>3
      <4>3. QED
        BY <4>1, <4>2
    <3>2. \A k \in 1..(n - 1) : PastAt(st2, o, k) <=> PastAt(st, o, k)
      <4>1. \A k \in 1..(n - 1) : k < n /\ k < n + 1
        BY <1>1
      <4>2. QED
        BY <1>1, <1>2, <1>4, <4>1 DEF PastAt
    <3>3. n \in 1..n /\ n < n + 1 /\ st2[n] = st[n] /\ 1..n = 1..(n - 1) \cup {n}
      <4>1. n \in 1..n /\ n < n + 1 /\ 1..n = 1..(n - 1) \cup {n}
        BY <1>1, <2>3
      <4>2. QED
        BY <1>2, <4>1
    <3>4. Behind(st2, o) <=> \/ \E k \in 1..(n - 1) : Agree(st, o, k - 1) /\ PastAt(st, o, k)
                             \/ Agree(st, o, n - 1) /\ AtTop(st[n], o, n)
      BY <1>1, <2>3, <3>1, <3>2, <3>3 DEF Behind, Below
    <3>5. Below(st, o) <=> \/ \E k \in 1..(n - 1) : Agree(st, o, k - 1) /\ PastAt(st, o, k)
                           \/ Agree(st, o, n - 1) /\ PastAt(st, o, n)
      BY <1>1, <1>2, <3>3 DEF Below
    <3>6. Agree(st, o, n) <=> Agree(st, o, n - 1) /\ n <= Len(o.route) /\ o.route[n] = Into(st, n)
      <4>1. o.route \in Routes(m)
        BY OriginIs
      <4>2. Len(o.route) \in Nat
        BY <4>1, RouteIs
      <4>3. n <= Len(o.route) => n - 1 <= Len(o.route)
        BY <1>1, <4>2
      <4>4. QED
        BY <3>3, <4>3 DEF Agree
    <3>7. PastAt(st, o, n) <=> AtTop(st[n], o, n) /\ (n <= Len(o.route) => o.route[n] # Into(st, n))
      BY <1>1, <3>3 DEF PastAt
    <3>8. ASSUME n <= Len(o.route), o.route[n] = Into(st, n) PROVE AtTop(st[n], o, n)
      <4>1. PICK s, x : s = o.route[n] /\ x = st[n]
        OBVIOUS
      <4>2. s.at = x.at - 1 /\ s.arg = Arg(x) /\ s.file = st[n + 1].file
        BY <3>8, <4>1 DEF Into
      <4>3. x.at \in Nat /\ s.file \notin x.todo[1]
        BY <1>3, <3>3, <4>1, <4>2 DEF FrameOK
      <4>4. s.at < x.at
        BY <4>2, <4>3
      <4>5. Passed(x, s)
        BY <4>2, <4>3, <4>4 DEF Passed
      <4>6. QED
        BY <3>8, <4>1, <4>5 DEF AtTop
    <3>9. QED
      BY <2>1, <3>4, <3>5, <3>6, <3>7, <3>8
  <2>4. QED
    BY <2>2, <2>3
<1>8. QED
  BY <1>5, <1>7

\* What is behind comes before what the line on top declares.
LEMMA BehindIsBefore ==
  ASSUME body \in Worlds, NEW m, NEW kinds, "Include" \notin kinds, NEW st, StackOK(m, st),
         Len(st) # 0, NEW fr, fr = st[Len(st)], fr.todo = <<>>,
         NEW o \in Origins(m, kinds), Behind(st, o),
         NEW q \in OriginsAt(fr.file, Way(st, Len(st) - 1), fr.at)
  PROVE  After(o, q)
<1>1. PICK n \in Nat : Len(st) = n + 1 /\ (n + 1) - 1 = n
  <2>1. Len(st) \in 0..(MaxDepth + 1) /\ MaxDepth \in Nat
    BY NumbersAssumption DEF StackOK
  <2>2. Len(st) - 1 \in Nat /\ Len(st) = (Len(st) - 1) + 1
    BY <2>1
  <2>3. QED
    BY <2>2
<1>2. fr = st[n + 1] /\ n + 1 \in 1..(n + 1)
  BY <1>1
<1>3. Len(Way(st, n)) = n
  <2>1. Len(Way(st, Len(st) - 1)) = Len(st) - 1
    BY WayIs
  <2>2. QED
    BY <1>1, <2>1
<1>4. /\ q.route = Way(st, n) /\ q.at = fr.at /\ Len(q.route) = n
      /\ \A i \in 1..n : q.route[i] = Into(st, i)
  <2>1. q.route = Way(st, n) /\ q.at = fr.at
    BY <1>1 DEF OriginsAt
  <2>2. QED
    BY <1>3, <2>1 DEF Way
<1>5. Len(o.route) \in Nat
  <2>1. o.route \in Routes(m)
    BY OriginIs
  <2>2. QED
    BY <2>1, RouteIs
<1>6. ASSUME NEW k \in 1..(n + 1), Agree(st, o, k - 1)
      PROVE  Share(o, q, k - 1) /\ k - 1 \in 0..Len(o.route) /\ (k - 1) + 1 = k
             /\ (k <= Len(o.route) => k - 1 \in 0..(Len(o.route) - 1))
  <2>1. k - 1 <= Len(o.route) /\ \A i \in 1..(k - 1) : o.route[i] = Into(st, i)
    BY <1>6 DEF Agree
  <2>2. k - 1 <= n /\ \A i \in 1..(k - 1) : i \in 1..n
    BY <1>1
  <2>3. Share(o, q, k - 1)
    BY <1>4, <2>1, <2>2 DEF Share
  <2>4. k - 1 \in 0..Len(o.route) /\ (k - 1) + 1 = k
        /\ (k <= Len(o.route) => k - 1 \in 0..(Len(o.route) - 1))
    BY <1>1, <1>5, <2>1
  <2>5. QED
    BY <2>3, <2>4
<1>7. ASSUME NEW k \in 1..(n + 1), Agree(st, o, k - 1), Less(Place(o, k), Place(q, k))
      PROVE  After(o, q)
  BY <1>6, <1>7 DEF After, Precedes
<1>8. CASE Agree(st, o, n) /\ AtTop(fr, o, n + 1)
  <2>1. Place(q, n + 1) = <<q.at, q.target, q.arg>>
    <3>1. ~(n + 1 <= n)
      BY <1>1
    <3>2. QED
      BY <1>4, <3>1 DEF Place
  <2>2. Less(Place(o, n + 1), Place(q, n + 1))
    <3>1. CASE n + 1 <= Len(o.route)
      <4>1. o.route[n + 1].at < fr.at
        BY <1>8, <3>1 DEF AtTop, Passed
      <4>2. Place(o, n + 1) = <<o.route[n + 1].at, o.route[n + 1].arg, 0>>
        BY <3>1 DEF Place
      <4>3. QED
        BY <1>4, <2>1, <4>1, <4>2 DEF Less
    <3>2. CASE ~(n + 1 <= Len(o.route))
      <4>1. o.at < fr.at
        BY <1>8, <3>2 DEF AtTop
      <4>2. Place(o, n + 1) = <<o.at, o.target, o.arg>>
        BY <3>2 DEF Place
      <4>3. QED
        BY <1>4, <2>1, <4>1, <4>2 DEF Less
    <3>3. QED
      BY <3>1, <3>2
  <2>3. QED
    BY <1>1, <1>2, <1>7, <1>8, <2>2
<1>9. CASE \E k \in 1..n : Agree(st, o, k - 1) /\ PastAt(st, o, k)
  <2>1. PICK k \in 1..n : Agree(st, o, k - 1) /\ PastAt(st, o, k)
    BY <1>9
  <2>2. k \in 1..(n + 1) /\ k < n + 1 /\ k <= n /\ k \in Nat
    BY <1>1
  <2>3. PICK x, y : x = st[k] /\ y = Into(st, k)
    OBVIOUS
  <2>4. /\ FrameOK(x) /\ x.todo # <<>> /\ y \in StepsOf(x.file) /\ st[k + 1].file \notin x.todo[1]
        /\ y.at = x.at - 1 /\ y.arg = Arg(x) /\ y.file = st[k + 1].file
    <3>1. FrameOK(st[k])
      BY <1>1, <2>2 DEF StackOK
    <3>2. st[k].todo # <<>> /\ Into(st, k) \in StepsOf(st[k].file) /\ st[k + 1].file \notin st[k].todo[1]
      BY <1>1 DEF StackOK
    <3>3. y.at = x.at - 1 /\ y.arg = Arg(x) /\ y.file = st[k + 1].file
      BY <2>3 DEF Into
    <3>4. QED
      BY <2>3, <3>1, <3>2, <3>3
  <2>5. /\ x.file \in DOMAIN body /\ x.at \in Nat
        /\ body[x.file][x.at - 1].cmd = "Include"
    BY <2>4 DEF FrameOK, Line
  <2>6. PICK l \in Nat : DOMAIN body[x.file] = 1..l
    BY <2>5, ModfileIs
  <2>7. Place(q, k) = <<x.at - 1, Arg(x), 0>> /\ q.route[k] = y
    BY <1>4, <2>2, <2>3, <2>4 DEF Place
  <2>8. PICK p \in Nat : p = x.at - 1
    <3>1. y.at \in Nat
      BY <2>4, <2>6, StepIs
    <3>2. QED
      BY <2>4, <3>1
  <2>9. CASE k <= Len(o.route)
    <3>1. PICK s : s = o.route[k] /\ s \in StepsOf(x.file) /\ s # y /\ Passed(x, s)
      <4>1. o.route[k] \in StepsOf(st[k].file)
        BY <1>1, <2>1, <2>2, <2>9, NextIs
      <4>2. AtTop(st[k], o, k) /\ o.route[k] # Into(st, k)
        BY <1>1, <2>1, <2>2, <2>9 DEF PastAt
      <4>3. Passed(st[k], o.route[k])
        BY <2>9, <4>2 DEF AtTop
      <4>4. QED
        BY <2>3, <4>1, <4>2, <4>3
    <3>2. Place(o, k) = <<s.at, s.arg, 0>>
      BY <2>9, <3>1 DEF Place
    <3>3. s = [at |-> s.at, arg |-> s.arg, file |-> s.file]
          /\ y = [at |-> y.at, arg |-> y.arg, file |-> y.file]
      BY <2>4, <3>1, StepIs
    <3>4. s.at \in Nat /\ s.at < x.at
      BY <2>6, <3>1, StepIs DEF Passed
    <3>5. CASE s.at < p
      BY <1>7, <2>1, <2>2, <2>7, <2>8, <3>2, <3>5 DEF Less
    <3>6. CASE s.at = p
      <4>1. s.arg < Arg(x) \/ (s.arg = Arg(x) /\ s.file \notin x.todo[1])
        BY <2>4, <2>8, <3>1, <3>6 DEF Passed
      <4>2. CASE s.arg < Arg(x)
        BY <1>7, <2>1, <2>2, <2>7, <2>8, <3>2, <3>6, <4>2 DEF Less
      <4>3. CASE s.arg = Arg(x)
        <5>1. s.at = y.at /\ s.arg = y.arg /\ s.file # y.file
          BY <2>4, <2>8, <3>1, <3>3, <3>6, <4>3
        <5>2. /\ Share(o, q, k - 1) /\ (k - 1) + 1 = k /\ k - 1 \in 0..(Len(o.route) - 1)
              /\ k - 1 < Len(q.route)
          BY <1>4, <1>6, <2>1, <2>2, <2>9
        <5>3. Siblings(o, q)
          BY <2>7, <3>1, <5>1, <5>2 DEF Siblings
        <5>4. QED
          BY <5>3 DEF After
      <4>4. QED
        BY <4>1, <4>2, <4>3
    <3>7. QED
      BY <2>5, <2>8, <3>4, <3>5, <3>6
  <2>10. CASE ~(k <= Len(o.route))
    <3>1. o.at \in DOMAIN body[x.file] /\ body[x.file][o.at].cmd \in kinds
      BY <1>1, <2>1, <2>2, <2>3, <2>10, NextIs
    <3>2. o.at < x.at
      <4>1. AtTop(st[k], o, k)
        BY <2>1 DEF PastAt
      <4>2. QED
        BY <2>3, <2>10, <4>1 DEF AtTop
    <3>3. o.at # x.at - 1
      BY <2>5, <3>1
    <3>4. o.at < p
      BY <2>5, <2>6, <2>8, <3>1, <3>2, <3>3
    <3>5. Place(o, k) = <<o.at, o.target, o.arg>>
      BY <2>10 DEF Place
    <3>6. QED
      BY <1>7, <2>1, <2>2, <2>7, <2>8, <3>4, <3>5 DEF Less
  <2>11. QED
    BY <2>9, <2>10
<1>10. QED
  BY <1>1, <1>2, <1>8, <1>9 DEF Behind, Below

--------------------------------------------------------------------------------
(* A mod's entries, in the order they are written in.                           *)

EntriesOf(m) == [o \in Declared(m) |-> EntryOf(m, o)]
Written(m) == {p \in Declared(m) \X Declared(m) : After(p[1], p[2])}
\* s is the entries of the origins in A.
Lists(s, m, A) == Orders(s, A, EntriesOf(m), Written(m))

\* None of this depends on more than what is in Content/Mods.
LEMMA SameMeaning ==
  ASSUME body' = body
  PROVE  /\ \A m : /\ Declared(m)' = Declared(m) /\ EntriesOf(m)' = EntriesOf(m)
                   /\ Written(m)' = Written(m)
         /\ \A m, kinds : Origins(m, kinds)' = Origins(m, kinds)
         /\ \A m, o : EntryOf(m, o)' = EntryOf(m, o)
         /\ \A m, st : StackOK(m, st)' <=> StackOK(m, st)
         /\ \A st, o : Behind(st, o)' <=> Behind(st, o)
<1>1. /\ \A m, kinds : Origins(m, kinds)' = Origins(m, kinds)
      /\ \A m, o : EntryOf(m, o)' = EntryOf(m, o)
  BY DEF Origins, OriginsAt, Routes, Steps, StepsOf, Reached, FileAt, TargetsAt, PriorityAt,
         LastArgs, Above, EntryOf
<1>2. \A m : Declared(m)' = Declared(m)
  BY <1>1 DEF Declared
<1>3. \A o, q : After(o, q)' <=> After(o, q)
  BY DEF After, Precedes, Siblings, Share, Less, Place
<1>4. \A m : EntriesOf(m)' = EntriesOf(m) /\ Written(m)' = Written(m)
  BY <1>1, <1>2, <1>3 DEF EntriesOf, Written
<1>5. /\ \A fr : /\ Line(fr)' = Line(fr) /\ Arg(fr)' = Arg(fr) /\ FrameOK(fr)' <=> FrameOK(fr)
      /\ \A st, k : Into(st, k)' = Into(st, k)
  BY DEF Line, Arg, FrameOK, Into, TargetsAt, PriorityAt, LastArgs, Above, Modfiles
<1>6. ASSUME NEW m, NEW st PROVE StackOK(m, st)' <=> StackOK(m, st)
  <2>1. \A f : StepsOf(f)' = StepsOf(f)
    BY DEF StepsOf
  <2>2. \A k : FrameOK(st[k])' <=> FrameOK(st[k])
    BY DEF FrameOK, Line, Arg, TargetsAt, PriorityAt, LastArgs, Above, Modfiles
  <2>3. \A k : Into(st, k)' = Into(st, k)
    BY <1>5
  <2>4. /\ (\A k \in 1..Len(st) : FrameOK(st[k])') <=> (\A k \in 1..Len(st) : FrameOK(st[k]))
        /\ (\A k \in 1..(Len(st) - 1) : Into(st, k)' \in StepsOf(st[k].file)')
              <=> (\A k \in 1..(Len(st) - 1) : Into(st, k) \in StepsOf(st[k].file))
    BY <2>1, <2>2, <2>3
  <2>5. QED
    BY <2>4 DEF StackOK
<1>7. \A st, o : Behind(st, o)' <=> Behind(st, o)
  BY DEF Behind, Below, Agree, AtTop, PastAt, Passed, Into, Arg, Line
<1>8. QED
  BY <1>1, <1>2, <1>4, <1>6, <1>7

\* The entries of one line.
LEMMA LineLists ==
  ASSUME body \in Worlds, NEW m, NEW r \in Routes(m), NEW f, f = Reached(m, r),
         NEW i \in DOMAIN body[f], body[f][i].cmd \in ImportKinds \cup FileKinds,
         NEW s, s = [a \in DOMAIN TargetsAt(f, i) |->
                       [b \in DOMAIN body[f][i].args |->
                          [target |-> TargetsAt(f, i)[a], source |-> body[f][i].args[b],
                           priority |-> PriorityAt(f, i), kind |-> body[f][i].cmd, mod |-> m]]]
  PROVE  Lists(FlattenSeq(s), m, OriginsAt(f, r, i))
<1>1. f \in DOMAIN body /\ Len(r) \in Nat
  BY RouteIs
<1>2. PICK targets, args : targets = TargetsAt(f, i) /\ args = body[f][i].args
  OBVIOUS
<1>3. targets \in Seq(Scripts) /\ args \in Seq(Sources)
  <2>1. targets \in Seq(Scripts)
    BY <1>1, <1>2, InForce
  <2>2. args \in Seq(Sources)
    BY <1>1, <1>2, ModfileIs DEF ImportKinds, FileKinds
  <2>3. QED
    BY <2>1, <2>2
<1>4. PICK n \in Nat, l \in Nat : DOMAIN targets = 1..n /\ DOMAIN args = 1..l
  BY <1>3
<1>. DEFINE at(a, b) == [route |-> r, at |-> i, target |-> a, arg |-> b]
            val == EntriesOf(m)
            S == {val[o] : o \in Declared(m)}
<1>5. OriginsAt(f, r, i) = {at(a, b) : a \in 1..n, b \in 1..l}
  BY <1>2, <1>4 DEF OriginsAt
<1>6. OriginsAt(f, r, i) \subseteq Declared(m)
  BY OriginMade DEF Declared
<1>7. ASSUME NEW a \in 1..n, NEW b \in 1..l
      PROVE  /\ at(a, b) \in Declared(m)
             /\ val[at(a, b)] = [target |-> targets[a], source |-> args[b], priority |-> PriorityAt(f, i),
                                 kind |-> body[f][i].cmd, mod |-> m]
  <2>1. at(a, b) \in Declared(m)
    BY <1>5, <1>6
  <2>2. val[at(a, b)] = EntryOf(m, at(a, b))
    BY <2>1 DEF EntriesOf
  <2>3. EntryOf(m, at(a, b)) = [target |-> targets[a], source |-> args[b], priority |-> PriorityAt(f, i),
                                kind |-> body[f][i].cmd, mod |-> m]
    BY <1>2 DEF EntryOf
  <2>4. QED
    BY <2>1, <2>2, <2>3
<1>8. ASSUME NEW a \in 1..n, NEW b \in 1..l, NEW c \in 1..n, NEW d \in 1..l, a < c \/ (a = c /\ b < d)
      PROVE  <<at(a, b), at(c, d)>> \in Written(m)
  <2>1. PICK o, q : o = at(a, b) /\ q = at(c, d)
    OBVIOUS
  <2>2. /\ o.route = r /\ q.route = r /\ o.at = i /\ q.at = i /\ o.target = a /\ o.arg = b
        /\ q.target = c /\ q.arg = d
    BY <2>1
  <2>3. Share(o, q, Len(r)) /\ Len(r) \in 0..Len(o.route) /\ ~(Len(r) + 1 <= Len(r))
    BY <1>1, <2>2 DEF Share
  <2>4. Place(o, Len(r) + 1) = <<i, a, b>> /\ Place(q, Len(r) + 1) = <<i, c, d>>
    BY <2>2, <2>3 DEF Place
  <2>5. Less(<<i, a, b>>, <<i, c, d>>)
    BY <1>8 DEF Less
  <2>6. After(o, q)
    BY <2>3, <2>4, <2>5 DEF After, Precedes
  <2>7. o \in Declared(m) /\ q \in Declared(m)
    BY <1>7, <2>1
  <2>8. QED
    BY <2>1, <2>6, <2>7 DEF Written
<1>. HIDE DEF at, val
<1>9. Len(s) = n /\ DOMAIN s = 1..n
      /\ \A a \in 1..n : s[a] = [b \in 1..l |-> val[at(a, b)]]
  <2>1. \A a \in 1..n : s[a] = [b \in 1..l |-> val[at(a, b)]]
    BY <1>2, <1>4, <1>7
  <2>2. DOMAIN s = 1..n /\ s = [a \in 1..n |-> s[a]]
    BY <1>2, <1>4
  <2>3. Len(s) = n
    BY <2>2
  <2>4. QED
    BY <2>1, <2>2, <2>3
<1>10. PICK A : A = [a \in 1..n |-> {at(a, b) : b \in 1..l}]
  OBVIOUS
<1>11. ASSUME NEW a \in 1..n PROVE s[a] \in Seq(S) /\ Orders(s[a], A[a], val, Written(m))
  <2>1. PICK t : t = s[a] /\ t = [b \in 1..l |-> val[at(a, b)]]
    BY <1>9
  <2>2. \A b \in 1..l : val[at(a, b)] \in S
    BY <1>7
  <2>3. t \in [1..l -> S]
    BY <2>1, <2>2
  <2>. HIDE DEF S
  <2>4. t \in Seq(S) /\ Len(t) = l
    BY <2>3
  <2>5. PICK from : from = [b \in 1..l |-> at(a, b)]
    OBVIOUS
  <2>6. from \in [1..l -> A[a]] /\ \A b \in 1..l : from[b] = at(a, b)
    BY <1>10, <2>5
  <2>7. \A x \in A[a] : \E b \in 1..l : from[b] = x
    BY <1>10, <2>6
  <2>8. \A b \in 1..l : t[b] = val[from[b]]
    BY <2>1, <2>6
  <2>9. \A b, d \in 1..l : b < d => <<from[b], from[d]>> \in Written(m)
    BY <1>8, <2>6
  <2>10. PICK X, v, W : X = A[a] /\ v = val /\ W = Written(m)
    OBVIOUS
  <2>11. /\ from \in [1..l -> X] /\ \A x \in X : \E b \in 1..l : from[b] = x
         /\ \A b \in 1..l : t[b] = v[from[b]]
         /\ \A b, d \in 1..l : b < d => <<from[b], from[d]>> \in W
    BY <2>6, <2>7, <2>8, <2>9, <2>10
  <2>12. Orders(t, X, v, W)
    <3>1. Len(t) = l
      BY <2>4
    <3>2. \E g \in [1..Len(t) -> X] : g = from
      BY <2>11, <3>1
    <3>3. QED
      BY <2>11, <3>1, <3>2 DEF Orders
  <2>13. QED
    BY <2>1, <2>4, <2>10, <2>12
<1>. HIDE DEF S
<1>12. s \in Seq(Seq(S))
  <2>1. s \in [1..n -> Seq(S)]
    <3>1. s = [a \in 1..n |-> s[a]]
      BY <1>2, <1>4
    <3>2. QED
      BY <1>11, <3>1
  <2>2. QED
    BY <2>1
<1>13. \A a, c \in 1..n : a < c => \A x \in A[a], y \in A[c] : <<x, y>> \in Written(m)
  BY <1>8, <1>10
<1>14. UNION {A[a] : a \in 1..n} = OriginsAt(f, r, i)
  BY <1>5, <1>10
<1>15. Orders(FlattenSeq(s), UNION {A[a] : a \in 1..n}, val, Written(m))
  <2>1. \A a \in 1..Len(s) : Orders(s[a], A[a], val, Written(m))
    BY <1>9, <1>11
  <2>2. \A a, c \in 1..Len(s) : a < c => \A x \in A[a], y \in A[c] : <<x, y>> \in Written(m)
    BY <1>9, <1>13
  <2>3. Orders(FlattenSeq(s), UNION {A[a] : a \in 1..Len(s)}, val, Written(m))
    BY <1>12, <2>1, <2>2, OrdersFlatten
  <2>4. QED
    BY <1>9, <2>3
<1>16. QED
  BY <1>14, <1>15 DEF Lists, val

--------------------------------------------------------------------------------
(* While a mod is parsed: its entries are those of what is behind the parser.   *)

SoFar(kinds) == {o \in Origins(mod.name, kinds) : Behind(stack, o)}
ParseInv ==
  pc = "parse" => /\ StackOK(mod.name, stack)
                  /\ Lists(mod.imports, mod.name, SoFar(ImportKinds))
                  /\ Lists(mod.files, mod.name, SoFar(FileKinds))

\* Another frame on top.
LEMMA TopSwaps ==
  ASSUME ScanTypes, stack # <<>>, NEW fr
  PROVE  /\ Swaps(stack, Append(Front(stack), fr), fr)
         /\ Frame = stack[Len(stack)] /\ Len(stack) \in Nat \ {0}
<1>1. PICK S : S = ParseFrame(mod.name) \cup {fr}
  OBVIOUS
<1>2. stack \in Seq(S) /\ fr \in S
  <2>1. stack \in Seq(ParseFrame(mod.name))
    BY DEF ScanTypes
  <2>2. QED
    BY <1>1, <2>1
<1>3. PICK st : st = stack
  OBVIOUS
<1>4. /\ Len(Append(Front(st), fr)) = Len(st) /\ Append(Front(st), fr)[Len(st)] = fr
      /\ \A i \in 1..(Len(st) - 1) : Append(Front(st), fr)[i] = st[i]
  BY <1>2, <1>3, ReplaceLast
<1>5. Last(st) = st[Len(st)] /\ Len(st) \in Nat \ {0}
  BY <1>2, <1>3, FrontLast
<1>6. QED
  BY <1>3, <1>4, <1>5 DEF Swaps, Frame

\* What is behind is the same, and so are the entries.
LEMMA SameSoFar ==
  ASSUME body' = body, mod'.name = mod.name, NEW kinds,
         \A o \in Origins(mod.name, kinds) : Behind(stack', o) <=> Behind(stack, o)
  PROVE  SoFar(kinds)' = SoFar(kinds)
<1>1. PICK m, st2 : m = mod.name /\ st2 = stack'
  OBVIOUS
<1>2. Origins(m, kinds)' = Origins(m, kinds) /\ \A o : Behind(st2, o)' <=> Behind(st2, o)
  BY SameMeaning
<1>3. SoFar(kinds)' = {o \in Origins(m, kinds)' : Behind(st2, o)'}
  BY <1>1 DEF SoFar
<1>4. QED
  BY <1>1, <1>2, <1>3 DEF SoFar

LEMMA SameLists ==
  ASSUME body' = body, NEW s, NEW m, NEW A
  PROVE  Lists(s, m, A)' <=> Lists(s, m, A)
<1>1. EntriesOf(m)' = EntriesOf(m) /\ Written(m)' = Written(m)
  BY SameMeaning
<1>2. PICK v, w : v = EntriesOf(m) /\ w = Written(m)
  OBVIOUS
<1>3. Lists(s, m, A) <=> Orders(s, A, v, w)
  BY <1>2 DEF Lists
<1>4. Lists(s, m, A)' <=> Orders(s, A, v, w)
  BY <1>1, <1>2 DEF Lists
<1>5. QED
  BY <1>3, <1>4

LEMMA KeptSoFar ==
  ASSUME ParseInv, pc = "parse", body' = body, mod' = mod, StackOK(mod.name, stack'),
         \A kinds \in {ImportKinds, FileKinds} : \A o \in Origins(mod.name, kinds) :
           Behind(stack', o) <=> Behind(stack, o)
  PROVE  ParseInv'
<1>1. PICK m, st2, imports, files1 : /\ m = mod.name /\ st2 = stack' /\ imports = mod.imports
                                     /\ files1 = mod.files
  OBVIOUS
<1>2. SoFar(ImportKinds)' = SoFar(ImportKinds) /\ SoFar(FileKinds)' = SoFar(FileKinds)
  BY SameSoFar
<1>3. PICK A, B : A = SoFar(ImportKinds) /\ B = SoFar(FileKinds)
  OBVIOUS
<1>4. Lists(imports, m, A) /\ Lists(files1, m, B)
  BY <1>1, <1>3 DEF ParseInv
<1>5. Lists(imports, m, A)' /\ Lists(files1, m, B)'
  BY <1>4, SameLists
<1>6. StackOK(m, st2)'
  BY <1>1, SameMeaning
<1>7. mod'.name = m /\ mod'.imports = imports /\ mod'.files = files1
      /\ SoFar(ImportKinds)' = A /\ SoFar(FileKinds)' = B /\ stack' = st2
  BY <1>1, <1>2, <1>3
<1>8. Lists(mod.imports, mod.name, SoFar(ImportKinds))' /\ Lists(mod.files, mod.name, SoFar(FileKinds))'
      /\ StackOK(mod.name, stack)'
  BY <1>5, <1>6, <1>7
<1>9. QED
  BY <1>8 DEF ParseInv
\* Past a line on top.
LEMMA PastSwaps ==
  ASSUME ScanTypes, ParseInv, Reading, NEW f, NEW fr2, fr2 = [f EXCEPT !.at = @ + 1],
         stack' = Past(f)
  PROVE  /\ Swaps(stack, stack', fr2) /\ StackOK(mod.name, stack) /\ body \in Worlds
         /\ Frame = stack[Len(stack)] /\ FrameOK(Frame) /\ Frame.todo = <<>> /\ pc = "parse"
         /\ Len(stack) # 0 /\ Frame.file \in DOMAIN body
<1>1. StackOK(mod.name, stack) /\ body \in Worlds /\ stack # <<>> /\ Frame.todo = <<>>
  BY DEF ParseInv, Reading, ScanTypes
<1>2. Swaps(stack, stack', fr2) /\ Frame = stack[Len(stack)] /\ Len(stack) \in Nat \ {0}
  BY <1>1, TopSwaps DEF Past
<1>3. FrameOK(Frame)
  BY <1>1, <1>2 DEF StackOK
<1>4. QED
  BY <1>1, <1>2, <1>3 DEF FrameOK, Reading

\* A frame, with what it says at the next line.
LEMMA PastIs ==
  ASSUME ScanTypes, ParseInv, Reading, NEW f, f \in ParseFrame(mod.name), NEW fr2,
         fr2 = [f EXCEPT !.at = @ + 1], f.file = Frame.file, f.at = Frame.at
  PROVE  fr2.file = Frame.file /\ fr2.at = Frame.at + 1 /\ fr2.todo = f.todo
         /\ fr2.targets = f.targets /\ fr2.priority = f.priority
BY DEF ParseFrame

\* The line on top, and what it declares.
LEMMA EntriesAreLine ==
  ASSUME ScanTypes, ParseInv, Reading, Frame.at \in DOMAIN body[Frame.file],
         Command.cmd \in ImportKinds \cup FileKinds
  PROVE  Lists(Entries(Frame, Command), mod.name,
               OriginsAt(Frame.file, Way(stack, Len(stack) - 1), Frame.at))
<1>1. /\ StackOK(mod.name, stack) /\ body \in Worlds /\ Len(stack) # 0
      /\ Frame = stack[Len(stack)] /\ FrameOK(Frame)
  <2>1. StackOK(mod.name, stack) /\ body \in Worlds /\ stack # <<>>
    BY DEF ParseInv, Reading, ScanTypes
  <2>2. Frame = stack[Len(stack)] /\ Len(stack) \in Nat \ {0}
    BY <2>1, TopSwaps
  <2>3. QED
    BY <2>1, <2>2 DEF StackOK
<1>2. PICK m, r, f, i : /\ m = mod.name /\ r = Way(stack, Len(stack) - 1)
                        /\ f = Frame.file /\ i = Frame.at
  OBVIOUS
<1>3. r \in Routes(m) /\ f = Reached(m, r)
  BY <1>1, <1>2, WayIs
<1>4. Frame.targets = TargetsAt(f, i) /\ Frame.priority = PriorityAt(f, i) /\ Command = body[f][i]
  BY <1>1, <1>2 DEF FrameOK, Command
<1>5. PICK s : s = [a \in DOMAIN TargetsAt(f, i) |->
                      [b \in DOMAIN body[f][i].args |->
                         [target |-> TargetsAt(f, i)[a], source |-> body[f][i].args[b],
                          priority |-> PriorityAt(f, i), kind |-> body[f][i].cmd, mod |-> m]]]
  OBVIOUS
<1>6. Lists(FlattenSeq(s), m, OriginsAt(f, r, i))
  <2>1. i \in DOMAIN body[f] /\ body[f][i].cmd \in ImportKinds \cup FileKinds
    BY <1>2, <1>4
  <2>2. QED
    BY <1>1, <1>3, <1>5, <2>1, LineLists
<1>7. Entries(Frame, Command) = FlattenSeq(s)
  BY <1>2, <1>4, <1>5 DEF Entries
<1>8. QED
  BY <1>2, <1>6, <1>7

LEMMA DeclaresMore ==
  ASSUME ScanTypes, ParseInv, Reading, Frame.at \in DOMAIN body[Frame.file],
         NEW kinds \in {ImportKinds, FileKinds}, Command.cmd \in kinds,
         body' = body, mod'.name = mod.name, stack' = Past(Frame),
         NEW s \in Seq(OwnEntry), Lists(s, mod.name, SoFar(kinds))
  PROVE  /\ StackOK(mod.name, stack')
         /\ Lists(s \o Entries(Frame, Command), mod.name, SoFar(kinds)')
<1>1. PICK m, st, st2, fr, fr2, r, i :
        /\ m = mod.name /\ st = stack /\ st2 = stack' /\ fr = Frame /\ fr2 = [Frame EXCEPT !.at = @ + 1]
        /\ r = Way(stack, Len(stack) - 1) /\ i = Frame.at
  OBVIOUS
<1>2. /\ Swaps(st, st2, fr2) /\ StackOK(m, st) /\ body \in Worlds /\ fr = st[Len(st)]
      /\ FrameOK(fr) /\ fr.todo = <<>> /\ Len(st) # 0 /\ fr.file \in DOMAIN body
  BY <1>1, PastSwaps
<1>3. fr2.file = fr.file /\ fr2.at = fr.at + 1 /\ fr2.todo = fr.todo
      /\ fr2.targets = fr.targets /\ fr2.priority = fr.priority
  <2>1. Frame \in ParseFrame(mod.name)
    BY FrameIs DEF Reading
  <2>2. QED
    BY <1>1, <2>1, PastIs
<1>4. /\ "Include" \notin kinds /\ "To" \notin kinds /\ "Priority" \notin kinds
      /\ kinds \subseteq ImportKinds \cup FileKinds
  BY DEF ImportKinds, FileKinds
<1>5. fr.at \in DOMAIN body[fr.file] /\ body[fr.file][fr.at].cmd \in kinds
  BY <1>1 DEF Command
<1>6. fr2.targets = TargetsAt(fr.file, fr.at + 1) /\ fr2.priority = PriorityAt(fr.file, fr.at + 1)
  <2>1. fr.targets = TargetsAt(fr.file, fr.at) /\ fr.priority = PriorityAt(fr.file, fr.at)
    BY <1>2 DEF FrameOK
  <2>2. body[fr.file][fr.at].cmd # "To" /\ body[fr.file][fr.at].cmd # "Priority"
    BY <1>4, <1>5
  <2>3. TargetsAt(fr.file, fr.at + 1) = TargetsAt(fr.file, fr.at)
    BY <1>2, <1>5, <2>2, TargetsAre
  <2>4. PriorityAt(fr.file, fr.at + 1) = PriorityAt(fr.file, fr.at)
    BY <1>2, <1>5, <2>2, PriorityIs
  <2>5. QED
    BY <1>3, <2>1, <2>3, <2>4
<1>7. PICK L : L = OriginsAt(fr.file, Way(st, Len(st) - 1), fr.at)
  OBVIOUS
<1>8. /\ StackOK(m, st2) /\ L \subseteq Origins(m, kinds)
      /\ \A o \in Origins(m, kinds) : Behind(st2, o) <=> Behind(st, o) \/ o \in L
  <2>1. fr2.todo = <<>> /\ "Include" \notin kinds
    BY <1>2, <1>3, <1>4
  <2>2. L \subseteq Origins(m, kinds)
    BY <1>2, <1>3, <1>5, <1>6, <1>7, <2>1, LineDeclares
  <2>3. StackOK(m, st2)
    BY <1>2, <1>3, <1>5, <1>6, <2>1, LineDeclares
  <2>4. ASSUME NEW o \in Origins(m, kinds) PROVE Behind(st2, o) <=> Behind(st, o) \/ o \in L
    BY <1>2, <1>3, <1>5, <1>6, <1>7, <2>1, LineDeclares
  <2>5. QED
    BY <2>2, <2>3, <2>4
<1>9. SoFar(kinds)' = SoFar(kinds) \cup L
  <2>1. Origins(m, kinds)' = Origins(m, kinds) /\ \A o : Behind(st2, o)' <=> Behind(st2, o)
    BY SameMeaning
  <2>2. SoFar(kinds)' = {o \in Origins(m, kinds)' : Behind(st2, o)'}
    BY <1>1 DEF SoFar
  <2>3. SoFar(kinds) = {o \in Origins(m, kinds) : Behind(st, o)}
    BY <1>1 DEF SoFar
  <2>4. QED
    BY <1>8, <2>1, <2>2, <2>3
<1>10. PICK A, t : A = SoFar(kinds) /\ t = Entries(Frame, Command)
  OBVIOUS
<1>11. Lists(t, m, L) /\ t \in Seq(OwnEntry)
  <2>1. Command.cmd \in ImportKinds \cup FileKinds
    BY <1>4
  <2>2. Lists(t, m, L)
    BY <1>1, <1>7, <1>10, <2>1, EntriesAreLine
  <2>3. Command.cmd \in {"Import", "TopImport", "Replace", "SJSON"}
    BY <2>1 DEF ImportKinds, FileKinds
  <2>4. QED
    BY <1>10, <2>2, <2>3, EntriesTypes
<1>12. ASSUME NEW o \in A, NEW q \in L PROVE <<o, q>> \in Written(m)
  <2>1. o \in Origins(m, kinds) /\ Behind(st, o)
    BY <1>1, <1>10 DEF SoFar
  <2>2. After(o, q)
    BY <1>2, <1>4, <1>7, <2>1, BehindIsBefore
  <2>3. o \in Declared(m) /\ q \in Declared(m)
    <3>1. Origins(m, kinds) \subseteq Declared(m)
      BY <1>4, OriginsGrow DEF Declared
    <3>2. QED
      BY <1>8, <2>1, <3>1
  <2>4. QED
    BY <2>2, <2>3 DEF Written
<1>13. PICK v, w : v = EntriesOf(m) /\ w = Written(m)
  OBVIOUS
<1>14. Orders(s \o t, A \cup L, v, w)
  <2>1. Orders(s, A, v, w)
    BY <1>1, <1>10, <1>13 DEF Lists
  <2>2. Orders(t, L, v, w)
    BY <1>11, <1>13 DEF Lists
  <2>3. QED
    BY <1>11, <1>12, <1>13, <2>1, <2>2, OrdersConcat
<1>15. Lists(s \o t, m, A \cup L)
  BY <1>13, <1>14 DEF Lists
<1>16. QED
  BY <1>1, <1>8, <1>9, <1>10, <1>15

\* A line that declares nothing of the kinds asked for.
LEMMA LineKept ==
  ASSUME ScanTypes, ParseInv, Reading, Frame.at \in DOMAIN body[Frame.file],
         NEW kinds \in {ImportKinds, FileKinds}, Command.cmd \notin kinds, Command.cmd # "Include",
         NEW f \in ParseFrame(mod.name), f.file = Frame.file, f.at = Frame.at, f.todo = <<>>,
         f.targets = TargetsAt(Frame.file, Frame.at + 1),
         f.priority = PriorityAt(Frame.file, Frame.at + 1), stack' = Past(f)
  PROVE  /\ StackOK(mod.name, stack')
         /\ \A o \in Origins(mod.name, kinds) : Behind(stack', o) <=> Behind(stack, o)
<1>1. PICK m, st, st2, fr, fr2 :
        /\ m = mod.name /\ st = stack /\ st2 = stack' /\ fr = Frame /\ fr2 = [f EXCEPT !.at = @ + 1]
  OBVIOUS
<1>2. /\ Swaps(st, st2, fr2) /\ StackOK(m, st) /\ body \in Worlds /\ fr = st[Len(st)]
      /\ fr.todo = <<>>
  BY <1>1, PastSwaps
<1>3. fr2.file = fr.file /\ fr2.at = fr.at + 1 /\ fr2.todo = <<>>
      /\ fr2.targets = TargetsAt(fr.file, fr.at + 1) /\ fr2.priority = PriorityAt(fr.file, fr.at + 1)
  BY <1>1, PastIs
<1>4. fr.at \in DOMAIN body[fr.file] /\ body[fr.file][fr.at].cmd \notin kinds \cup {"Include"}
  BY <1>1 DEF Command
<1>5. StackOK(m, st2)
  BY <1>2, <1>3, <1>4, LineBehind
<1>6. ASSUME NEW o \in Origins(m, kinds) PROVE Behind(st2, o) <=> Behind(st, o)
  BY <1>2, <1>3, <1>4, LineBehind
<1>7. QED
  BY <1>1, <1>5, <1>6

\* What is in force after a line.
LEMMA NextInForce ==
  ASSUME ScanTypes, ParseInv, Reading, Frame.at \in DOMAIN body[Frame.file]
  PROVE  /\ Frame \in ParseFrame(mod.name) /\ Frame.todo = <<>> /\ pc = "parse"
         /\ TargetsAt(Frame.file, Frame.at + 1) =
              IF Command.cmd # "To" THEN Frame.targets
              ELSE IF Command.args = <<>> THEN <<DefaultTarget>> ELSE Command.args
         /\ PriorityAt(Frame.file, Frame.at + 1) =
              IF Command.cmd # "Priority" THEN Frame.priority
              ELSE IF Command.args = <<>> THEN DefaultPriority ELSE Command.args[1]
<1>1. stack # <<>> /\ Frame.todo = <<>> /\ body \in Worlds /\ pc = "parse" /\ Frame \in ParseFrame(mod.name)
  BY FrameIs DEF Reading, ScanTypes
<1>2. StackOK(mod.name, stack) /\ Frame = stack[Len(stack)] /\ Len(stack) \in Nat \ {0}
  BY <1>1, TopSwaps DEF ParseInv
<1>3. FrameOK(Frame)
  BY <1>2 DEF StackOK
<1>4. /\ Frame.file \in DOMAIN body /\ Frame.targets = TargetsAt(Frame.file, Frame.at)
      /\ Frame.priority = PriorityAt(Frame.file, Frame.at)
  BY <1>3 DEF FrameOK
<1>5. PICK fl, i : fl = Frame.file /\ i = Frame.at
  OBVIOUS
<1>6. TargetsAt(fl, i + 1) = IF body[fl][i].cmd # "To" THEN TargetsAt(fl, i)
                             ELSE IF body[fl][i].args = <<>> THEN <<DefaultTarget>> ELSE body[fl][i].args
  BY <1>1, <1>4, <1>5, TargetsAre
<1>7. PriorityAt(fl, i + 1) = IF body[fl][i].cmd # "Priority" THEN PriorityAt(fl, i)
                              ELSE IF body[fl][i].args = <<>> THEN DefaultPriority
                              ELSE body[fl][i].args[1]
  BY <1>1, <1>4, <1>5, PriorityIs
<1>8. QED
  BY <1>1, <1>4, <1>5, <1>6, <1>7 DEF Command

\* A line that declares nothing.
LEMMA LineInv ==
  ASSUME ScanTypes, ParseInv, Reading, Frame.at \in DOMAIN body[Frame.file],
         Command.cmd \notin ImportKinds \cup FileKinds \cup {"Include"},
         NEW f \in ParseFrame(mod.name), f.file = Frame.file, f.at = Frame.at, f.todo = <<>>,
         f.targets = TargetsAt(Frame.file, Frame.at + 1),
         f.priority = PriorityAt(Frame.file, Frame.at + 1), stack' = Past(f),
         body' = body, mod' = mod
  PROVE  ParseInv'
<1>1. pc = "parse"
  BY DEF Reading
<1>2. ASSUME NEW kinds \in {ImportKinds, FileKinds}
      PROVE  /\ StackOK(mod.name, stack')
             /\ \A o \in Origins(mod.name, kinds) : Behind(stack', o) <=> Behind(stack, o)
  <2>1. Command.cmd \notin kinds /\ Command.cmd # "Include"
    OBVIOUS
  <2>2. QED
    BY <2>1, LineKept
<1>3. StackOK(mod.name, stack')
  BY <1>2
<1>4. QED
  BY <1>1, <1>2, <1>3, KeptSoFar

\* Import and TopImport, Replace and SJSON: the line's entries come last.
LEMMA DeclareInv ==
  ASSUME ScanTypes, ParseInv, Import \/ AddFiles
  PROVE  ParseInv'
<1>1. /\ Reading /\ Frame.at \in DOMAIN body[Frame.file] /\ stack' = Past(Frame) /\ body' = body
      /\ mod \in ParsedMod /\ pc = "parse"
      /\ \/ Command.cmd \in ImportKinds /\ mod' = [mod EXCEPT !.imports = @ \o Entries(Frame, Command)]
         \/ Command.cmd \in FileKinds /\ mod' = [mod EXCEPT !.files = @ \o Entries(Frame, Command)]
  BY DEF Import, AddFiles, At, Reading, KeepScan, world, ScanTypes, ImportKinds, FileKinds
<1>2. mod.imports \in Seq(OwnEntry) /\ mod.files \in Seq(OwnEntry)
  BY <1>1 DEF ParsedMod
<1>3. Lists(mod.imports, mod.name, SoFar(ImportKinds)) /\ Lists(mod.files, mod.name, SoFar(FileKinds))
  BY <1>1 DEF ParseInv
<1>4. PICK m, st2, imports, files1, t : /\ m = mod.name /\ st2 = stack' /\ imports = mod.imports
                                        /\ files1 = mod.files /\ t = Entries(Frame, Command)
  OBVIOUS
<1>5. mod'.name = m
  BY <1>1, <1>4 DEF ParsedMod
<1>6. ASSUME NEW kinds \in {ImportKinds, FileKinds}, Command.cmd \notin kinds,
             Command.cmd \in ImportKinds \cup FileKinds
      PROVE  SoFar(kinds)' = SoFar(kinds)
  <2>1. Command.cmd \notin {"To", "Priority", "Include"}
    BY <1>6 DEF ImportKinds, FileKinds
  <2>2. \A o \in Origins(mod.name, kinds) : Behind(stack', o) <=> Behind(stack, o)
    BY <1>1, <1>6, <2>1, NextInForce, LineKept
  <2>3. QED
    BY <1>1, <1>4, <1>5, <2>2, SameSoFar
<1>7. CASE Command.cmd \in ImportKinds /\ mod' = [mod EXCEPT !.imports = @ \o Entries(Frame, Command)]
  <2>1. /\ StackOK(mod.name, stack')
        /\ Lists(mod.imports \o Entries(Frame, Command), mod.name, SoFar(ImportKinds)')
    BY <1>1, <1>2, <1>3, <1>4, <1>5, <1>7, DeclaresMore
  <2>2. Command.cmd \notin FileKinds
    BY <1>7 DEF ImportKinds, FileKinds
  <2>3. SoFar(FileKinds)' = SoFar(FileKinds)
    BY <1>6, <1>7, <2>2
  <2>4. PICK A, B : A = SoFar(ImportKinds)' /\ B = SoFar(FileKinds)
    OBVIOUS
  <2>5. Lists(imports \o t, m, A) /\ Lists(files1, m, B) /\ StackOK(m, st2)
    BY <1>3, <1>4, <2>1, <2>4
  <2>6. Lists(imports \o t, m, A)' /\ Lists(files1, m, B)'
    BY <1>1, <2>5, SameLists
  <2>7. StackOK(m, st2)'
    BY <1>1, <2>5, SameMeaning
  <2>8. mod'.imports = imports \o t /\ mod'.files = files1
    BY <1>1, <1>4, <1>7 DEF ParsedMod
  <2>9. Lists(mod.imports, mod.name, SoFar(ImportKinds))' /\ Lists(mod.files, mod.name, SoFar(FileKinds))'
        /\ StackOK(mod.name, stack)'
    BY <1>4, <1>5, <2>3, <2>4, <2>6, <2>7, <2>8
  <2>10. QED
    BY <2>9 DEF ParseInv
<1>8. CASE Command.cmd \in FileKinds /\ mod' = [mod EXCEPT !.files = @ \o Entries(Frame, Command)]
  <2>1. /\ StackOK(mod.name, stack')
        /\ Lists(mod.files \o Entries(Frame, Command), mod.name, SoFar(FileKinds)')
    BY <1>1, <1>2, <1>3, <1>4, <1>5, <1>8, DeclaresMore
  <2>2. Command.cmd \notin ImportKinds
    BY <1>8 DEF ImportKinds, FileKinds
  <2>3. SoFar(ImportKinds)' = SoFar(ImportKinds)
    BY <1>6, <1>8, <2>2
  <2>4. PICK A, B : A = SoFar(FileKinds)' /\ B = SoFar(ImportKinds)
    OBVIOUS
  <2>5. Lists(files1 \o t, m, A) /\ Lists(imports, m, B) /\ StackOK(m, st2)
    BY <1>3, <1>4, <2>1, <2>4
  <2>6. Lists(files1 \o t, m, A)' /\ Lists(imports, m, B)'
    BY <1>1, <2>5, SameLists
  <2>7. StackOK(m, st2)'
    BY <1>1, <2>5, SameMeaning
  <2>8. mod'.files = files1 \o t /\ mod'.imports = imports
    BY <1>1, <1>4, <1>8 DEF ParsedMod
  <2>9. Lists(mod.imports, mod.name, SoFar(ImportKinds))' /\ Lists(mod.files, mod.name, SoFar(FileKinds))'
        /\ StackOK(mod.name, stack)'
    BY <1>4, <1>5, <2>3, <2>4, <2>6, <2>7, <2>8
  <2>10. QED
    BY <2>9 DEF ParseInv
<1>9. QED
  BY <1>1, <1>7, <1>8

LEMMA ToInv ==
  ASSUME ScanTypes, ParseInv, To \/ Priority \/ Ignored
  PROVE  ParseInv'
<1>1. /\ Reading /\ Frame.at \in DOMAIN body[Frame.file] /\ body' = body /\ mod' = mod
      /\ Command.cmd \in {"To", "Priority", "XML"}
  BY DEF To, Priority, Ignored, At, KeepScan, world
<1>2. PICK targets, priority :
        /\ targets = IF Command.cmd # "To" THEN Frame.targets
                     ELSE IF Command.args = <<>> THEN <<DefaultTarget>> ELSE Command.args
        /\ priority = IF Command.cmd # "Priority" THEN Frame.priority
                      ELSE IF Command.args = <<>> THEN DefaultPriority ELSE Command.args[1]
  OBVIOUS
<1>3. PICK f : f = [Frame EXCEPT !.targets = targets, !.priority = priority]
  OBVIOUS
<1>4. /\ Frame \in ParseFrame(mod.name) /\ Frame.todo = <<>>
      /\ TargetsAt(Frame.file, Frame.at + 1) = targets
      /\ PriorityAt(Frame.file, Frame.at + 1) = priority
  BY <1>1, <1>2, NextInForce
<1>5. Frame.targets \in Seq(Scripts) /\ Frame.priority \in Int
  BY <1>4 DEF ParseFrame
<1>6. targets \in Seq(Scripts) /\ priority \in Int
  <2>1. Command.cmd = "To" => Command.args \in Seq(Scripts)
    BY <1>1, CommandIs
  <2>2. Command.cmd = "Priority" => Command.args \in Seq(Int)
    BY <1>1, CommandIs
  <2>3. <<DefaultTarget>> \in Seq(Scripts) /\ DefaultPriority \in Int
    BY TargetAssumption, NumbersAssumption
  <2>4. Command.cmd = "Priority" /\ Command.args # <<>> => Command.args[1] \in Int
    BY <2>2
  <2>5. QED
    BY <1>2, <1>5, <2>1, <2>3, <2>4
<1>7. /\ f \in ParseFrame(mod.name) /\ f.file = Frame.file /\ f.at = Frame.at /\ f.todo = <<>>
      /\ f.targets = targets /\ f.priority = priority
  BY <1>3, <1>4, <1>6 DEF ParseFrame
<1>8. stack' = Past(f)
  <2>1. CASE To
    <3>1. Command.cmd = "To"
      BY <2>1 DEF To, At
    <3>2. f = [Frame EXCEPT !.targets = IF Command.args = <<>> THEN <<DefaultTarget>> ELSE Command.args]
      BY <1>2, <1>3, <1>4, <3>1 DEF ParseFrame
    <3>3. QED
      BY <2>1, <3>2 DEF To
  <2>2. CASE Priority
    <3>1. Command.cmd = "Priority"
      BY <2>2 DEF Priority, At
    <3>2. f = [Frame EXCEPT !.priority = IF Command.args = <<>> THEN DefaultPriority ELSE Command.args[1]]
      BY <1>2, <1>3, <1>4, <3>1 DEF ParseFrame
    <3>3. QED
      BY <2>2, <3>2 DEF Priority
  <2>3. CASE Ignored
    <3>1. Command.cmd = "XML"
      BY <2>3 DEF Ignored, At
    <3>2. f = Frame
      BY <1>2, <1>3, <1>4, <3>1 DEF ParseFrame
    <3>3. QED
      BY <2>3, <3>2 DEF Ignored
  <2>4. QED
    BY <2>1, <2>2, <2>3
<1>9. Command.cmd \notin ImportKinds \cup FileKinds \cup {"Include"}
  BY <1>1 DEF ImportKinds, FileKinds
<1>10. QED
  BY <1>1, <1>4, <1>7, <1>8, <1>9, LineInv

LEMMA IncludeInv ==
  ASSUME ScanTypes, ParseInv, Include
  PROVE  ParseInv'
<1>1. /\ Reading /\ Frame.at \in DOMAIN body[Frame.file] /\ body' = body /\ mod' = mod
      /\ Command.cmd = "Include" /\ pc = "parse"
  BY DEF Include, At, KeepScan, world, Reading
<1>2. PICK todo : todo = [i \in DOMAIN Command.args |-> Folder[Command.args[i]]]
  OBVIOUS
<1>3. PICK m, st, st2, fr, f, fr2 :
        /\ m = mod.name /\ st = stack /\ st2 = stack' /\ fr = Frame
        /\ f = [Frame EXCEPT !.todo = todo] /\ fr2 = [f EXCEPT !.at = @ + 1]
  OBVIOUS
<1>4. stack' = Past(f)
  BY <1>2, <1>3 DEF Include
<1>5. /\ Swaps(st, st2, fr2) /\ StackOK(m, st) /\ body \in Worlds /\ fr = st[Len(st)]
      /\ fr.todo = <<>>
  BY <1>1, <1>3, <1>4, PastSwaps
<1>6. fr2.file = fr.file /\ fr2.at = fr.at + 1 /\ fr2.todo = todo
      /\ fr2.targets = fr.targets /\ fr2.priority = fr.priority
  <2>1. Frame \in ParseFrame(mod.name)
    BY <1>1, NextInForce
  <2>2. QED
    BY <1>3, <2>1 DEF ParseFrame
<1>7. /\ fr.at \in DOMAIN body[fr.file] /\ body[fr.file][fr.at].cmd = "Include"
      /\ fr2.todo = [i \in DOMAIN body[fr.file][fr.at].args |-> Folder[body[fr.file][fr.at].args[i]]]
  BY <1>1, <1>2, <1>3, <1>6 DEF Command
<1>8. ASSUME NEW kinds \in {ImportKinds, FileKinds}
      PROVE  /\ StackOK(m, st2)
             /\ \A o \in Origins(m, kinds) : Behind(st2, o) <=> Behind(st, o)
  <2>1. "Include" \notin kinds
    BY DEF ImportKinds, FileKinds
  <2>2. Includes(fr, fr2)
    BY <1>5, <1>6, <1>7 DEF Includes
  <2>3. QED
    BY <1>5, <2>1, <2>2, IncludeBehind
<1>9. StackOK(m, st2)
  BY <1>8
<1>10. QED
  BY <1>1, <1>3, <1>8, <1>9, KeptSoFar

\* The next modfile of an Include.
LEMMA OpenInv ==
  ASSUME ScanTypes, ParseInv, OpenIncluded
  PROVE  ParseInv'
<1>1. /\ stack # <<>> /\ Frame.todo # <<>> /\ body' = body /\ mod' = mod /\ pc = "parse"
      /\ body \in Worlds
  BY DEF OpenIncluded, KeepScan, world, ScanTypes
<1>2. /\ Frame \in ParseFrame(mod.name) /\ StackOK(mod.name, stack)
  BY <1>1, FrameIs DEF ParseInv
<1>3. SUFFICES ASSUME NEW kinds \in {ImportKinds, FileKinds}
      PROVE  /\ StackOK(mod.name, stack')
             /\ \A o \in Origins(mod.name, kinds) : Behind(stack', o) <=> Behind(stack, o)
  <2>1. StackOK(mod.name, stack')
    BY <1>3
  <2>2. QED
    BY <1>1, <1>3, <2>1, KeptSoFar
<1>4. PICK m, st, st2, fr : m = mod.name /\ st = stack /\ st2 = stack' /\ fr = Frame
  OBVIOUS
<1>5. fr = st[Len(st)] /\ Len(st) \in Nat \ {0} /\ StackOK(m, st) /\ fr.todo # <<>>
  BY <1>1, <1>2, <1>4, TopSwaps
<1>6. CASE Head(Frame.todo) = {}
  <2>1. PICK fr2 : fr2 = [Frame EXCEPT !.todo = Tail(@)]
    OBVIOUS
  <2>2. stack' = Append(Front(stack), fr2)
    BY <1>6, <2>1 DEF OpenIncluded
  <2>3. Swaps(st, st2, fr2)
    BY <1>1, <1>4, <2>2, TopSwaps
  <2>4. /\ fr2.file = fr.file /\ fr2.at = fr.at /\ fr2.todo = Tail(fr.todo)
        /\ fr2.targets = fr.targets /\ fr2.priority = fr.priority
    BY <1>2, <1>4, <2>1 DEF ParseFrame
  <2>5. fr.todo[1] = {}
    <3>1. fr.todo \in Seq(SUBSET ModfilesOf(m))
      BY <1>2, <1>4 DEF ParseFrame
    <3>2. QED
      BY <1>4, <1>5, <1>6, <3>1
  <2>6. StackOK(m, st2)
    BY <1>1, <1>5, <2>3, <2>4, <2>5, FolderBehind
  <2>7. ASSUME NEW o \in Origins(m, kinds) PROVE Behind(st2, o) <=> Behind(st, o)
    BY <1>1, <1>5, <2>3, <2>4, <2>5, FolderBehind
  <2>8. QED
    BY <1>4, <2>6, <2>7
<1>7. CASE Head(Frame.todo) # {}
  <2>1. PICK f \in Head(Frame.todo) :
          stack' = Open(f, Append(Front(stack), [Frame EXCEPT !.todo[1] = @ \ {f}]))
    BY <1>7 DEF OpenIncluded
  <2>2. PICK fr2 : fr2 = [Frame EXCEPT !.todo[1] = @ \ {f}]
    OBVIOUS
  <2>3. PICK st1 : st1 = Append(Front(stack), fr2)
    OBVIOUS
  <2>4. Swaps(st, st1, fr2)
    BY <1>1, <1>4, <2>3, TopSwaps
  <2>5. /\ fr2.file = fr.file /\ fr2.at = fr.at /\ fr2.todo = [fr.todo EXCEPT ![1] = @ \ {f}]
        /\ fr2.targets = fr.targets /\ fr2.priority = fr.priority
    BY <1>2, <1>4, <2>2 DEF ParseFrame
  <2>6. f \in fr.todo[1]
    <3>1. fr.todo \in Seq(SUBSET ModfilesOf(m))
      BY <1>2, <1>4 DEF ParseFrame
    <3>2. QED
      BY <1>4, <1>5, <2>1, <3>1
  <2>7. Len(st1) = Len(st) /\ MaxDepth \in Nat
    BY <2>4, NumbersAssumption DEF Swaps
  <2>8. CASE Len(st) > MaxDepth \/ f \notin DOMAIN body
    <3>1. st2 = st1
      BY <1>4, <2>1, <2>2, <2>3, <2>7, <2>8 DEF Open
    <3>2. Swaps(st, st2, fr2)
      BY <2>4, <3>1
    <3>3. /\ StackOK(m, st2)
          /\ \A o \in Origins(m, kinds) : Behind(st2, o) <=> Behind(st, o)
      BY <1>1, <1>5, <2>5, <2>6, <2>8, <3>2, LostBehind
    <3>4. QED
      BY <1>4, <3>3
  <2>9. CASE Len(st) <= MaxDepth /\ f \in DOMAIN body
    <3>1. PICK new : new = NewFrame(f, st1)
      OBVIOUS
    <3>2. st2 = Append(st1, new)
      <4>1. ~(Len(st1) > MaxDepth \/ f \notin DOMAIN body)
        BY <1>5, <2>7, <2>9
      <4>2. QED
        BY <1>4, <2>1, <2>2, <2>3, <3>1, <4>1 DEF Open
    <3>3. /\ new.file = f /\ new.at = 1 /\ new.todo = <<>>
          /\ new.targets = <<DefaultTarget>> /\ new.priority = DefaultPriority
      BY <3>1 DEF NewFrame
    <3>4. /\ Len(st2) = Len(st) + 1 /\ st2[Len(st) + 1] = new
          /\ \A k \in 1..Len(st) : st2[k] = st1[k]
      <4>1. PICK S : S = ParseFrame(mod.name) \cup {fr2}
        OBVIOUS
      <4>2. stack \in Seq(S) /\ fr2 \in S
        <5>1. stack \in Seq(ParseFrame(mod.name))
          BY DEF ScanTypes
        <5>2. QED
          BY <4>1, <5>1
      <4>3. st1 \in Seq(S)
        BY <1>1, <2>3, <4>2, ReplaceLast
      <4>4. PICK S2 : S2 = S \cup {new}
        OBVIOUS
      <4>5. st1 \in Seq(S2) /\ new \in S2
        BY <4>3, <4>4
      <4>6. QED
        BY <2>7, <3>2, <4>5, AppendProperties
    <3>5. /\ StackOK(m, st2)
          /\ \A o \in Origins(m, kinds) : Behind(st2, o) <=> Behind(st, o)
      <4>1. Opens(st1, st2, new)
        BY <2>7, <3>3, <3>4 DEF Opens
      <4>2. QED
        BY <1>1, <1>5, <2>4, <2>5, <2>6, <2>9, <3>3, <4>1, OpenedBehind
    <3>6. QED
      BY <1>4, <3>5
  <2>10. QED
    BY <1>5, <2>7, <2>8, <2>9
<1>8. QED
  BY <1>6, <1>7

LEMMA EndInv ==
  ASSUME ScanTypes, ParseInv, EndOfModfile
  PROVE  ParseInv'
<1>1. /\ stack # <<>> /\ Frame.todo = <<>> /\ body' = body /\ mod' = mod /\ pc = "parse"
      /\ body \in Worlds /\ Frame.at \notin DOMAIN body[Frame.file] /\ stack' = Front(stack)
  BY DEF EndOfModfile, Reading, KeepScan, world, ScanTypes
<1>2. PICK m, st, st2, fr : m = mod.name /\ st = stack /\ st2 = stack' /\ fr = Frame
  OBVIOUS
<1>3. fr = st[Len(st)] /\ Len(st) \in Nat \ {0} /\ StackOK(m, st)
  BY <1>1, <1>2, TopSwaps DEF ParseInv
<1>4. /\ Len(st2) = Len(st) - 1 /\ (st2 = <<>> <=> Len(st2) = 0)
      /\ \A k \in 1..(Len(st) - 1) : st2[k] = st[k]
  <2>1. PICK S : S = ParseFrame(mod.name)
    OBVIOUS
  <2>2. st \in Seq(S)
    BY <1>2, <2>1 DEF ScanTypes
  <2>3. /\ Front(st) \in Seq(S) /\ Len(Front(st)) = Len(st) - 1
        /\ \A i \in 1..(Len(st) - 1) : Front(st)[i] = st[i]
    BY <1>1, <1>2, <2>2, FrontLast
  <2>4. st2 = Front(st)
    BY <1>1, <1>2
  <2>5. st2 \in Seq(S)
    BY <2>3, <2>4
  <2>6. QED
    BY <2>3, <2>4, <2>5, EmptySeq
<1>5. ASSUME NEW kinds \in {ImportKinds, FileKinds}
      PROVE  /\ StackOK(m, st2)
             /\ \A o \in Origins(m, kinds) : Behind(st2, o) <=> Behind(st, o)
  <2>1. fr.todo = <<>> /\ fr.at \notin DOMAIN body[fr.file] /\ Len(st) # 0
    BY <1>1, <1>2, <1>3
  <2>2. StackOK(m, st2)
    BY <1>1, <1>3, <1>4, <2>1, EndBehind
  <2>3. ASSUME NEW o \in Origins(m, kinds) PROVE Behind(st2, o) <=> Behind(st, o)
    BY <1>1, <1>3, <1>4, <2>1, EndBehind
  <2>4. QED
    BY <2>2, <2>3
<1>6. StackOK(m, st2)
  BY <1>5
<1>7. QED
  BY <1>1, <1>2, <1>5, <1>6, KeptSoFar

LEMMA ParseInvStep == ScanTypes /\ ParseInv /\ Parse => ParseInv'
BY ToInv, IncludeInv, OpenInv, DeclareInv, EndInv DEF Parse

\* A mod's modfile, just opened: nothing is behind.
LEMMA VisitInv ==
  ASSUME ScanTypes, NEW m \in Mods, Visit(m)
  PROVE  ParseInv'
<1>1. SUFFICES ASSUME m \in DOMAIN body PROVE ParseInv'
  <2>1. m \notin DOMAIN body => pc' = "dir"
    BY DEF Visit
  <2>2. QED
    BY <1>1, <2>1 DEF ParseInv
<1>2. body' = body /\ body \in Worlds /\ mod' = NewMod(m) /\ stack' = Open(m, <<>>) /\ MaxDepth \in Nat
  BY NumbersAssumption DEF Visit, world, ScanTypes
<1>3. mod'.name = m /\ mod'.imports = <<>> /\ mod'.files = <<>>
  BY <1>2 DEF NewMod
<1>4. PICK new, st : new = NewFrame(m, <<>>) /\ st = stack'
  OBVIOUS
<1>5. st = <<new>>
  <2>1. ~(Len(<<>>) > MaxDepth \/ m \notin DOMAIN body)
    BY <1>1, <1>2
  <2>2. st = Append(<<>>, new)
    BY <1>2, <1>4, <2>1 DEF Open
  <2>3. QED
    BY <2>2
<1>6. Len(st) = 1 /\ st # <<>> /\ st[1] = new
  BY <1>5
<1>7. /\ new.file = m /\ new.at = 1 /\ new.todo = <<>>
      /\ new.targets = <<DefaultTarget>> /\ new.priority = DefaultPriority
  BY <1>4 DEF NewFrame
<1>8. FrameOK(new)
  <2>1. new.at - 1 = 0 /\ new.at \in Nat \ {0} /\ <<>> \in Seq(SUBSET Modfiles)
    BY <1>7
  <2>2. new.targets = TargetsAt(new.file, new.at) /\ new.priority = PriorityAt(new.file, new.at)
    BY <1>1, <1>2, <1>7, TargetsAre, PriorityIs
  <2>3. QED
    BY <1>1, <1>7, <2>1, <2>2 DEF FrameOK
<1>9. StackOK(m, st)
  <2>1. \A k \in 1..Len(st) : k = 1
    BY <1>6
  <2>2. \A k \in 1..(Len(st) - 1) : FALSE
    BY <1>6
  <2>3. Len(st) \in 0..(MaxDepth + 1)
    BY <1>2, <1>6
  <2>4. QED
    BY <1>6, <1>7, <1>8, <2>1, <2>2, <2>3 DEF StackOK
<1>10. ASSUME NEW kinds, NEW o \in Origins(m, kinds) PROVE ~Behind(st, o)
  <2>1. SUFFICES ASSUME Behind(st, o) PROVE FALSE
    OBVIOUS
  <2>2. AtTop(new, o, 1) /\ Agree(st, o, 0)
    BY <1>6, <2>1 DEF Behind, Below
  <2>3. 1 \in 1..Len(st) /\ Agree(st, o, 1 - 1)
    BY <1>6, <2>2
  <2>4. PICK i : i = 1
    OBVIOUS
  <2>5. i \in 1..Len(st) /\ Agree(st, o, i - 1) /\ st[i] = new
    BY <1>6, <2>3, <2>4
  <2>6. /\ i <= Len(o.route) => o.route[i] \in StepsOf(new.file)
        /\ ~(i <= Len(o.route)) => o.at \in DOMAIN body[new.file]
    BY <1>2, <1>9, <2>5, NextIs
  <2>7. PICK l \in Nat : DOMAIN body[new.file] = 1..l
    BY <1>1, <1>2, <1>7, ModfileIs
  <2>8. CASE i <= Len(o.route)
    <3>1. o.route[i].at \in 1..l /\ o.route[i].at < 1
      BY <1>7, <2>2, <2>4, <2>6, <2>7, <2>8, StepIs DEF AtTop, Passed
    <3>2. QED
      BY <3>1
  <2>9. CASE ~(i <= Len(o.route))
    <3>1. o.at \in 1..l /\ o.at < 1
      BY <1>7, <2>2, <2>4, <2>6, <2>7, <2>9 DEF AtTop
    <3>2. QED
      BY <3>1
  <2>10. QED
    BY <2>8, <2>9
<1>11. ASSUME NEW kinds PROVE SoFar(kinds)' = {}
  <2>1. Origins(m, kinds)' = Origins(m, kinds) /\ \A o : Behind(st, o)' <=> Behind(st, o)
    BY <1>2, SameMeaning
  <2>2. SoFar(kinds)' = {o \in Origins(m, kinds)' : Behind(st, o)'}
    BY <1>3, <1>4 DEF SoFar
  <2>3. QED
    BY <1>10, <2>1, <2>2
<1>12. Lists(<<>>, m, {})' /\ StackOK(m, st)'
  <2>1. Lists(<<>>, m, {})
    BY OrdersNone DEF Lists
  <2>2. QED
    BY <1>2, <1>9, <2>1, SameLists, SameMeaning
<1>13. SoFar(ImportKinds)' = {} /\ SoFar(FileKinds)' = {}
  BY <1>11
<1>14. /\ Lists(mod.imports, mod.name, SoFar(ImportKinds))'
       /\ Lists(mod.files, mod.name, SoFar(FileKinds))' /\ StackOK(mod.name, stack)'
  BY <1>3, <1>4, <1>12, <1>13
<1>15. QED
  BY <1>14 DEF ParseInv

\* The end of a mod's modfile: all is behind.
LEMMA ParsedIs ==
  ASSUME ParseInv, pc = "parse", stack = <<>>
  PROVE  /\ Lists(mod.imports, mod.name, Origins(mod.name, ImportKinds))
         /\ Lists(mod.files, mod.name, Origins(mod.name, FileKinds))
<1>1. Len(stack) = 0
  OBVIOUS
<1>2. \A o : Behind(stack, o)
  BY <1>1 DEF Behind
<1>3. \A kinds : SoFar(kinds) = Origins(mod.name, kinds)
  BY <1>2 DEF SoFar
<1>4. QED
  BY <1>3 DEF ParseInv

LEMMA ParseInvSame ==
  ASSUME ParseInv, body' = body, mod' = mod, stack' = stack, pc' = pc
  PROVE  ParseInv'
<1>1. CASE pc # "parse"
  BY <1>1 DEF ParseInv
<1>2. CASE pc = "parse"
  <2>1. StackOK(mod.name, stack')
    BY <1>2 DEF ParseInv
  <2>2. QED
    BY <1>2, <2>1, KeptSoFar
<1>3. QED
  BY <1>1, <1>2

LEMMA ParseInvNext == ScanTypes /\ ParseInv /\ [ConfigNext]_allVars => ParseInv'
<1> SUFFICES ASSUME ScanTypes, ParseInv, [ConfigNext]_allVars PROVE ParseInv'
  OBVIOUS
<1>1. body' = body
  BY BodyStays
<1>2. CASE Parse
  BY <1>2, ParseInvStep
<1>3. CASE \E m \in Mods : Visit(m)
  BY <1>3, VisitInv
<1>4. CASE pc' # "parse"
  BY <1>4 DEF ParseInv
<1>5. CASE UNCHANGED <<mod, stack, pc>>
  BY <1>1, <1>5, ParseInvSame
<1>6. CASE StartScan
  <2>1. pc' # "parse"
    BY <1>6 DEF StartScan
  <2>2. QED
    BY <1>4, <2>1
<1>7. CASE EndOfMod \/ EndOfFolder \/ EndScan \/ EndFire \/ Restart
        \/ \E script \in Scripts, top \in BOOLEAN : Fire(script, top)
  <2>1. pc' # "parse"
    BY <1>7 DEF EndOfMod, EndOfFolder, EndScan, EndFire, Restart, Fire
  <2>2. QED
    BY <1>4, <2>1
<1>8. CASE Register \/ FireNext \/ Edit \/ ImportConfig \/ AddsTable \/ ImportsScript \/ NestedBody
        \/ NestedPost \/ NestedEnd \/ BindConfig
        \/ \E m \in Mods, k \in Settings : EditInOverlay(m, k) \/ EditByHand(m, k)
  <2>1. UNCHANGED <<mod, stack, pc>>
    BY <1>8 DEF Register, FireNext, Edit, ImportConfig, AddsTable, ImportsScript, NestedBody,
                NestedPost, NestedEnd, BindConfig, EditInOverlay, EditByHand, vars
  <2>2. QED
    BY <1>5, <2>1
<1>9. CASE UNCHANGED allVars
  BY <1>5, <1>9 DEF allVars, vars
<1>10. QED
  BY <1>2, <1>3, <1>6, <1>7, <1>8, <1>9 DEF ConfigNext, Scan, StartWave, EndOfImports

--------------------------------------------------------------------------------
(* The list of mods.                                                            *)

ListedOK(x) ==
  /\ Lists(x.imports, x.name, Origins(x.name, ImportKinds))
  /\ Lists(x.files, x.name, Origins(x.name, FileKinds))
  /\ x.priority = Lowest(x.imports \o x.files)
  /\ Declared(x.name) # {}
\* The mods the scan has still to list.
Unlisted == dir \cup {m \in {mod.name} : pc = "parse"}
Complete == \A m \in Mods :
  (\E i \in DOMAIN mods : mods[i].name = m) <=> m \notin Unlisted /\ Declared(m) # {}
SortedList == \A i, j \in DOMAIN mods : i < j => ~Before(mods[j], mods[i])
ListInv ==
  /\ \A i \in DOMAIN mods : ListedOK(mods[i])
  /\ \A i, j \in DOMAIN mods : mods[i].name = mods[j].name => i = j
  /\ pc \in {"dir", "parse", "files"} \/ mods # <<>> => Complete
  /\ pc = "parse" => mod.name \notin dir
  /\ pc \notin {"dir", "parse"} => dir = {} /\ SortedList
  /\ pc = "fire" => mods # <<>>

LEMMA SameListed ==
  ASSUME body' = body, NEW x
  PROVE  ListedOK(x)' <=> ListedOK(x)
<1>1. PICK imports, files1, name, priority : /\ imports = x.imports /\ files1 = x.files
                                             /\ name = x.name /\ priority = x.priority
  OBVIOUS
<1>2. PICK A, B, D, low : /\ A = Origins(name, ImportKinds) /\ B = Origins(name, FileKinds)
                          /\ D = Declared(name) /\ low = Lowest(imports \o files1)
  OBVIOUS
<1>3. Origins(name, ImportKinds)' = A /\ Origins(name, FileKinds)' = B /\ Declared(name)' = D
  BY <1>2, SameMeaning
<1>4. Lists(imports, name, A)' <=> Lists(imports, name, A)
  BY SameLists
<1>5. Lists(files1, name, B)' <=> Lists(files1, name, B)
  BY SameLists
<1>6. Lowest(imports \o files1)' = low
  BY <1>2 DEF Lowest
<1>7. ListedOK(x) <=> Lists(imports, name, A) /\ Lists(files1, name, B) /\ priority = low /\ D # {}
  BY <1>1, <1>2 DEF ListedOK
<1>8. ListedOK(x)' <=> Lists(imports, name, A)' /\ Lists(files1, name, B)' /\ priority = low /\ D # {}
  BY <1>1, <1>2, <1>3, <1>6 DEF ListedOK
<1>9. QED
  BY <1>4, <1>5, <1>7, <1>8

\* The list stays.
LEMMA ListKept ==
  ASSUME ListInv, body' = body, mods' = mods, dir' = dir, Unlisted' = Unlisted,
         pc' = "parse" => mod'.name \notin dir,
         pc' \notin {"dir", "parse"} => pc \notin {"dir", "parse"},
         pc' \in {"dir", "parse", "files"} => pc \in {"dir", "parse", "files"},
         pc' = "fire" => mods # <<>>
  PROVE  ListInv'
<1>1. PICK l, left : l = mods /\ left = Unlisted
  OBVIOUS
<1>2. \A m : Declared(m)' = Declared(m)
  BY SameMeaning
<1>3. \A i \in DOMAIN l : ListedOK(l[i])'
  <2>1. \A i \in DOMAIN l : ListedOK(l[i])
    BY <1>1 DEF ListInv
  <2>2. QED
    BY <2>1, SameListed
<1>4. Complete' <=> Complete
  BY <1>1, <1>2 DEF Complete
<1>5. SortedList' <=> SortedList
  BY DEF SortedList, Before
<1>6. (\A i \in DOMAIN mods : ListedOK(mods[i]))'
  BY <1>1, <1>3
<1>7. (\A i, j \in DOMAIN mods : mods[i].name = mods[j].name => i = j)'
  BY DEF ListInv
<1>8. (pc \in {"dir", "parse", "files"} \/ mods # <<>> => Complete)'
  BY <1>4 DEF ListInv
<1>9. (pc = "parse" => mod.name \notin dir)' /\ (pc = "fire" => mods # <<>>)'
  OBVIOUS
<1>10. (pc \notin {"dir", "parse"} => dir = {} /\ SortedList)'
  BY <1>5 DEF ListInv
<1>11. QED
  BY <1>6, <1>7, <1>8, <1>9, <1>10 DEF ListInv

\* There is none.
LEMMA ListNone ==
  ASSUME body' = body, mods' = <<>>, pc' \in {"dir", "ready"},
         pc' = "dir" => Mods \subseteq dir', pc' = "ready" => dir' = {}
  PROVE  ListInv'
<1>1. DOMAIN mods' = {}
  OBVIOUS
<1>2. pc' = "dir" => Complete'
  BY <1>1 DEF Complete, Unlisted
<1>3. SortedList'
  BY <1>1 DEF SortedList
<1>4. QED
  BY <1>1, <1>2, <1>3 DEF ListInv

LEMMA VisitList ==
  ASSUME ScanTypes, ListInv, NEW m \in Mods, Visit(m)
  PROVE  ListInv'
<1>1. /\ body' = body /\ mods' = mods /\ pc = "dir" /\ m \in dir /\ dir' = dir \ {m}
      /\ mod' = NewMod(m) /\ pc' = IF m \in DOMAIN body THEN "parse" ELSE "dir"
  BY DEF Visit, world
<1>2. mod'.name = m
  BY <1>1 DEF NewMod
<1>3. Unlisted = dir /\ Complete
  BY <1>1 DEF Unlisted, ListInv
<1>4. \A x : Declared(x)' = Declared(x)
  BY <1>1, SameMeaning
<1>5. m \notin DOMAIN body => Declared(m) = {}
  BY DEF Declared, Origins, Routes
<1>6. Unlisted' = IF m \in DOMAIN body THEN dir ELSE dir \ {m}
  BY <1>1, <1>2 DEF Unlisted
<1>7. Complete'
  BY <1>1, <1>3, <1>4, <1>5, <1>6 DEF Complete
<1>8. PICK l : l = mods
  OBVIOUS
<1>9. \A i \in DOMAIN l : ListedOK(l[i])'
  <2>1. \A i \in DOMAIN l : ListedOK(l[i])
    BY <1>8 DEF ListInv
  <2>2. QED
    BY <1>1, <2>1, SameListed
<1>10. (\A i \in DOMAIN mods : ListedOK(mods[i]))'
  BY <1>1, <1>8, <1>9
<1>11. (\A i, j \in DOMAIN mods : mods[i].name = mods[j].name => i = j)'
  BY <1>1 DEF ListInv
<1>12. pc' \in {"dir", "parse"} /\ mod'.name \notin dir'
  BY <1>1, <1>2
<1>13. QED
  BY <1>7, <1>10, <1>11, <1>12 DEF ListInv

\* The mod that has been parsed.
LEMMA EndOfModList ==
  ASSUME ScanTypes, ParseInv, ListInv, EndOfMod
  PROVE  ListInv'
<1>1. /\ body' = body /\ dir' = dir /\ pc = "parse" /\ pc' = "dir" /\ stack = <<>> /\ mod' = mod
  BY DEF EndOfMod, world
<1>2. PICK m, l, imports, files1 : m = mod.name /\ l = mods /\ imports = mod.imports /\ files1 = mod.files
  OBVIOUS
<1>3. m \in Mods /\ imports \in Seq(OwnEntry) /\ files1 \in Seq(OwnEntry) /\ mod \in ParsedMod
      /\ l \in Seq(ListedMod)
  BY <1>1, <1>2 DEF ScanTypes, ParsedMod
<1>4. Lists(imports, m, Origins(m, ImportKinds)) /\ Lists(files1, m, Origins(m, FileKinds))
  BY <1>1, <1>2, ParsedIs
<1>5. imports \o files1 = <<>> <=> Declared(m) = {}
  <2>1. imports = <<>> <=> Origins(m, ImportKinds) = {}
    BY <1>3, <1>4, OrdersEmpty DEF Lists
  <2>2. files1 = <<>> <=> Origins(m, FileKinds) = {}
    BY <1>3, <1>4, OrdersEmpty DEF Lists
  <2>3. Declared(m) = Origins(m, ImportKinds) \cup Origins(m, FileKinds)
    BY DeclaredIs
  <2>4. imports \o files1 = <<>> <=> imports = <<>> /\ files1 = <<>>
    <3>1. Len(imports \o files1) = Len(imports) + Len(files1) /\ imports \o files1 \in Seq(OwnEntry)
      BY <1>3, ConcatProperties
    <3>2. Len(imports) \in Nat /\ Len(files1) \in Nat
      BY <1>3
    <3>3. \A s \in Seq(OwnEntry) : s = <<>> <=> Len(s) = 0
      BY EmptySeq
    <3>4. QED
      BY <1>3, <3>1, <3>2, <3>3
  <2>5. QED
    BY <2>1, <2>2, <2>3, <2>4
<1>6. Unlisted = dir \cup {m} /\ Unlisted' = dir /\ Complete /\ m \notin dir
  BY <1>1, <1>2 DEF Unlisted, ListInv
<1>7. \A x : Declared(x)' = Declared(x)
  BY <1>1, SameMeaning
<1>8. \A i \in DOMAIN l : l[i].name # m /\ ListedOK(l[i])'
  <2>1. \A i \in DOMAIN l : ListedOK(l[i])
    BY <1>2 DEF ListInv
  <2>2. \A i \in DOMAIN l : l[i].name # m
    BY <1>2, <1>3, <1>6 DEF Complete
  <2>3. QED
    BY <1>1, <2>1, <2>2, SameListed
<1>9. \A i, j \in DOMAIN l : l[i].name = l[j].name => i = j
  BY <1>2 DEF ListInv
<1>10. CASE imports \o files1 = <<>>
  <2>1. mods' = l /\ Declared(m) = {}
    BY <1>2, <1>5, <1>10 DEF EndOfMod
  <2>2. Complete'
    BY <1>2, <1>6, <1>7, <2>1 DEF Complete
  <2>3. (\A i \in DOMAIN mods : ListedOK(mods[i]))'
    BY <1>8, <2>1
  <2>4. QED
    BY <1>1, <1>9, <2>1, <2>2, <2>3 DEF ListInv
<1>11. CASE imports \o files1 # <<>>
  <2>1. PICK x : x = [mod EXCEPT !.priority = Lowest(imports \o files1), !.missing = Missing(imports \o files1)]
    OBVIOUS
  <2>2. mods' = Append(l, x) /\ Declared(m) # {}
    BY <1>2, <1>5, <1>11, <2>1 DEF EndOfMod
  <2>3. /\ x.name = m /\ x.imports = imports /\ x.files = files1
        /\ x.priority = Lowest(imports \o files1)
    BY <1>2, <1>3, <2>1 DEF ParsedMod
  <2>4. ListedOK(x)
    BY <1>4, <2>2, <2>3 DEF ListedOK
  <2>5. ListedOK(x)'
    BY <1>1, <2>4, SameListed
  <2>6. PICK n \in Nat : /\ Len(l) = n /\ DOMAIN l = 1..n /\ DOMAIN mods' = 1..(n + 1)
                         /\ mods'[n + 1] = x /\ \A i \in 1..n : mods'[i] = l[i]
    <3>1. PICK S : S = ListedMod \cup {x}
      OBVIOUS
    <3>2. l \in Seq(S) /\ x \in S
      BY <1>3, <3>1
    <3>3. QED
      BY <2>2, <3>2, AppendProperties
  <2>7. DOMAIN mods' = DOMAIN l \cup {n + 1}
    BY <2>6
  <2>8. \A i \in DOMAIN l : mods'[i] = l[i]
    BY <2>6
  <2>9. (\A i \in DOMAIN mods : ListedOK(mods[i]))'
    BY <1>8, <2>5, <2>6, <2>7, <2>8
  <2>10. (\A i, j \in DOMAIN mods : mods[i].name = mods[j].name => i = j)'
    BY <1>8, <1>9, <2>3, <2>6, <2>7, <2>8
  <2>11. \A y : (\E i \in DOMAIN mods' : mods'[i].name = y) <=> (\E i \in DOMAIN l : l[i].name = y) \/ y = m
    BY <2>3, <2>6, <2>7, <2>8
  <2>12. Complete'
    BY <1>2, <1>6, <1>7, <2>2, <2>11 DEF Complete
  <2>13. QED
    BY <1>1, <2>9, <2>10, <2>12 DEF ListInv
<1>12. QED
  BY <1>10, <1>11

\* The list is sorted.
LEMMA SortList ==
  ASSUME ScanTypes, ListInv, EndOfFolder
  PROVE  ListInv'
<1>1. /\ body' = body /\ dir' = {} /\ dir = {} /\ pc = "dir" /\ pc' = "files"
      /\ \A i, j \in DOMAIN mods : i < j => ~Before(mods'[j], mods'[i])
  BY DEF EndOfFolder, world
<1>2. PICK l : l = mods
  OBVIOUS
<1>3. PICK place \in Bijection(DOMAIN l, DOMAIN l) : mods' = [i \in DOMAIN l |-> l[place[i]]]
  BY <1>2 DEF EndOfFolder
<1>4. /\ \A i \in DOMAIN l : place[i] \in DOMAIN l
      /\ \A i, j \in DOMAIN l : place[i] = place[j] => i = j
      /\ \A i \in DOMAIN l : \E j \in DOMAIN l : place[j] = i
  BY DEF Bijection, Injection, Surjection, IsInjective
<1>5. DOMAIN mods' = DOMAIN l /\ \A i \in DOMAIN l : mods'[i] = l[place[i]]
  BY <1>3
<1>6. \A i \in DOMAIN l : ListedOK(l[i])'
  <2>1. \A i \in DOMAIN l : ListedOK(l[i])
    BY <1>2 DEF ListInv
  <2>2. QED
    BY <1>1, <2>1, SameListed
<1>7. (\A i \in DOMAIN mods : ListedOK(mods[i]))'
  BY <1>4, <1>5, <1>6
<1>8. (\A i, j \in DOMAIN mods : mods[i].name = mods[j].name => i = j)'
  <2>1. \A i, j \in DOMAIN l : l[i].name = l[j].name => i = j
    BY <1>2 DEF ListInv
  <2>2. ASSUME NEW i \in DOMAIN l, NEW j \in DOMAIN l, mods'[i].name = mods'[j].name PROVE i = j
    <3>1. l[place[i]].name = l[place[j]].name
      BY <1>5, <2>2
    <3>2. place[i] = place[j]
      BY <1>4, <2>1, <3>1
    <3>3. QED
      BY <1>4, <3>2
  <2>3. QED
    BY <1>5, <2>2
<1>9. ASSUME NEW y
      PROVE  (\E i \in DOMAIN mods' : mods'[i].name = y) <=> (\E i \in DOMAIN l : l[i].name = y)
  <2>1. ASSUME NEW i \in DOMAIN mods', mods'[i].name = y PROVE \E j \in DOMAIN l : l[j].name = y
    BY <1>4, <1>5, <2>1
  <2>2. ASSUME NEW i \in DOMAIN l, l[i].name = y PROVE \E j \in DOMAIN mods' : mods'[j].name = y
    <3>1. PICK j \in DOMAIN l : place[j] = i
      BY <1>4
    <3>2. mods'[j].name = y
      BY <1>5, <2>2, <3>1
    <3>3. QED
      BY <1>5, <3>2
  <2>3. QED
    BY <2>1, <2>2
<1>10. Complete'
  <2>1. Complete /\ Unlisted = {} /\ Unlisted' = {}
    BY <1>1 DEF ListInv, Unlisted
  <2>2. \A x : Declared(x)' = Declared(x)
    BY <1>1, SameMeaning
  <2>3. QED
    BY <1>2, <1>9, <2>1, <2>2 DEF Complete
<1>11. SortedList'
  BY <1>1, <1>2, <1>5 DEF SortedList, Before
<1>12. QED
  BY <1>1, <1>7, <1>8, <1>10, <1>11 DEF ListInv

LEMMA ListInvNext == ScanTypes /\ ParseInv /\ ListInv /\ [ConfigNext]_allVars => ListInv'
<1> SUFFICES ASSUME ScanTypes, ParseInv, ListInv, [ConfigNext]_allVars PROVE ListInv'
  OBVIOUS
<1>1. body' = body
  BY BodyStays
<1>2. CASE \E m \in Mods : Visit(m)
  BY <1>2, VisitList
<1>3. CASE EndOfMod
  BY <1>3, EndOfModList
<1>4. CASE EndOfFolder
  BY <1>4, SortList
<1>5. CASE StartScan
  <2>1. mods' = <<>> /\ pc = "ready"
    BY <1>5 DEF StartScan
  <2>2. (pc' = "dir" /\ dir' = Mods) \/ (pc' = "ready" /\ dir' = dir)
    BY <1>5 DEF StartScan
  <2>3. dir = {}
    BY <2>1 DEF ListInv
  <2>4. QED
    BY <1>1, <2>1, <2>2, <2>3, ListNone
<1>6. CASE Restart
  BY <1>1, <1>6, ListNone DEF Restart
<1>7. CASE Parse
  <2>1. /\ mods' = mods /\ dir' = dir /\ pc' = pc /\ pc = "parse"
    BY <1>7 DEF Parse, To, Priority, Include, OpenIncluded, Import, AddFiles, Ignored, EndOfModfile,
                KeepScan, At, Reading
  <2>2. mod'.name = mod.name
    <3>1. mod \in ParsedMod
      BY DEF ScanTypes
    <3>2. QED
      BY <1>7, <3>1 DEF Parse, To, Priority, Include, OpenIncluded, Import, AddFiles, Ignored,
                        EndOfModfile, ParsedMod
  <2>3. Unlisted' = Unlisted
    BY <2>1, <2>2 DEF Unlisted
  <2>4. mod.name \notin dir
    BY <2>1 DEF ListInv
  <2>5. QED
    BY <1>1, <2>1, <2>2, <2>3, <2>4, ListKept
<1>8. ASSUME UNCHANGED <<mods, dir, mod, pc>> PROVE ListInv'
  <2>1. Unlisted' = Unlisted
    BY <1>8 DEF Unlisted
  <2>2. (pc = "parse" => mod.name \notin dir) /\ (pc = "fire" => mods # <<>>)
    BY DEF ListInv
  <2>3. QED
    BY <1>1, <1>8, <2>1, <2>2, ListKept
<1>9. CASE EndScan \/ EndFire \/ \E script \in Scripts, top \in BOOLEAN : Fire(script, top)
  <2>1. /\ mods' = mods /\ dir' = dir /\ pc \in {"files", "fire", "ready"}
        /\ pc' \in {"ready", "fire"} /\ (pc' = "fire" => mods # <<>>)
    BY <1>9 DEF EndScan, EndFire, Fire
  <2>2. Unlisted' = Unlisted
    BY <2>1 DEF Unlisted
  <2>3. QED
    BY <1>1, <2>1, <2>2, ListKept
<1>10. CASE Register \/ FireNext \/ Edit \/ ImportConfig \/ AddsTable \/ ImportsScript \/ NestedBody
        \/ NestedPost \/ NestedEnd \/ BindConfig
        \/ \E m \in Mods, k \in Settings : EditInOverlay(m, k) \/ EditByHand(m, k)
  <2>1. UNCHANGED <<mods, dir, mod, pc>>
    BY <1>10 DEF Register, FireNext, Edit, ImportConfig, AddsTable, ImportsScript, NestedBody,
                NestedPost, NestedEnd, BindConfig, EditInOverlay, EditByHand, vars
  <2>2. QED
    BY <1>8, <2>1
<1>11. CASE UNCHANGED allVars
  BY <1>8, <1>11 DEF allVars, vars
<1>12. QED
  BY <1>2, <1>3, <1>4, <1>5, <1>6, <1>7, <1>9, <1>10, <1>11 DEF ConfigNext, Scan, StartWave, EndOfImports

LEMMA WrittenIsNot ==
  ASSUME body \in Worlds, NEW m, NEW o
  PROVE  <<o, o>> \notin Written(m)
BY AfterIsNot DEF Written

\* As many of each entry as there are origins of it.
LEMMA ListsHoldAll ==
  ASSUME body \in Worlds, NEW m, NEW kinds, kinds \subseteq ImportKinds \cup FileKinds,
         NEW s \in Seq(OwnEntry), Lists(s, m, Origins(m, kinds))
  PROVE  HoldsAll(s, m, kinds)
<1>1. PICK v, w, A : v = EntriesOf(m) /\ w = Written(m) /\ A = Origins(m, kinds)
  OBVIOUS
<1>2. Orders(s, A, v, w) /\ Irreflexive(A, w)
  BY <1>1, WrittenIsNot DEF Lists, Irreflexive
<1>3. \A x \in A : v[x] = EntryOf(m, x)
  <2>1. A \subseteq Declared(m)
    BY <1>1, OriginsGrow DEF Declared
  <2>2. QED
    BY <1>1, <2>1 DEF EntriesOf
<1>4. ASSUME NEW e
      PROVE  Cardinality({i \in DOMAIN s : s[i] = e}) = Cardinality({o \in A : EntryOf(m, o) = e})
  <2>1. PICK I, X : I = {i \in DOMAIN s : s[i] = e} /\ X = {x \in A : v[x] = e}
    OBVIOUS
  <2>2. Cardinality(I) = Cardinality(X)
    <3>1. AreOf(s, I, A, v, X, e)
      BY <2>1 DEF AreOf
    <3>2. QED
      BY <1>2, <3>1, OrdersCount
  <2>3. X = {o \in A : EntryOf(m, o) = e}
    BY <1>3, <2>1
  <2>4. QED
    BY <2>1, <2>2, <2>3
<1>5. QED
  BY <1>1, <1>4 DEF HoldsAll

LEMMA ListDeclaresAll == ScanTypes /\ ListInv => DeclaresAll
<1> SUFFICES ASSUME ScanTypes, ListInv, pc = "files" PROVE DeclaresAll
  BY DEF DeclaresAll
<1>1. Complete /\ Unlisted = {}
  BY DEF ListInv, Unlisted
<1>2. ASSUME NEW m \in Mods
      PROVE  Cardinality({i \in DOMAIN mods : mods[i].name = m}) = IF Declared(m) = {} THEN 0 ELSE 1
  <2>1. PICK X : X = {i \in DOMAIN mods : mods[i].name = m}
    OBVIOUS
  <2>2. X # {} <=> Declared(m) # {}
    BY <1>1, <2>1 DEF Complete
  <2>3. \A i, j \in X : i = j
    BY <2>1 DEF ListInv
  <2>4. CASE X = {}
    BY <2>1, <2>2, <2>4, FS_EmptySet
  <2>5. CASE X # {}
    <3>1. PICK i : i \in X
      BY <2>5
    <3>2. X = {i}
      BY <2>3, <3>1
    <3>3. QED
      BY <2>1, <2>2, <2>5, <3>2, FS_Singleton
  <2>6. QED
    BY <2>4, <2>5
<1>3. ASSUME NEW i \in DOMAIN mods
      PROVE  /\ HoldsAll(mods[i].imports, mods[i].name, ImportKinds)
             /\ HoldsAll(mods[i].files, mods[i].name, FileKinds)
  <2>1. ListedOK(mods[i]) /\ body \in Worlds
    BY DEF ListInv, ScanTypes
  <2>2. mods[i] \in ListedMod
    BY DEF ScanTypes
  <2>3. mods[i].imports \in Seq(OwnEntry) /\ mods[i].files \in Seq(OwnEntry)
    BY <2>2 DEF ListedMod
  <2>4. QED
    BY <2>1, <2>3, ListsHoldAll DEF ListedOK
<1>4. QED
  BY <1>2, <1>3 DEF DeclaresAll

--------------------------------------------------------------------------------
(* What the list claims, and how far the imports or the files have come.        *)

\* A claim is a place in the list and an origin of the mod there.
Claims(list, kinds) == UNION {{<<i, o>> : o \in Origins(list[i].name, kinds)} : i \in DOMAIN list}
AllKinds == ImportKinds \cup FileKinds
ClaimEntries(list) == [x \in Claims(list, AllKinds) |-> EntryOf(list[x[1]].name, x[2])]
Ahead(list) ==
  {p \in Claims(list, AllKinds) \X Claims(list, AllKinds) :
     p[1][1] < p[2][1] \/ (p[1][1] = p[2][1] /\ After(p[1][2], p[2][2]))}

\* Of the members of W, in order, some are over, and of those the ones with values
\* in Ok are done; the others are left.
Progress(done, left, W, Ok, val, R) ==
  \E rest \in SUBSET W :
    /\ Orders(left, rest, val, R)
    /\ Orders(done, {x \in W \ rest : val[x] \in Ok}, val, R)
    /\ \A x \in W \ rest, y \in rest : <<x, y>> \in R

LEMMA ProgressStarts ==
  ASSUME NEW left, NEW W, NEW Ok, NEW val, NEW R, Orders(left, W, val, R)
  PROVE  Progress(<<>>, left, W, Ok, val, R)
<1>1. {x \in W \ W : val[x] \in Ok} = {} /\ W \ W = {} /\ W \in SUBSET W
  OBVIOUS
<1>2. Orders(<<>>, {x \in W \ W : val[x] \in Ok}, val, R)
  BY <1>1, OrdersNone
<1>3. QED
  BY <1>1, <1>2 DEF Progress

\* The next one is over.
Adds(done2, done, h, Ok) == done2 = IF h \in Ok THEN Append(done, h) ELSE done
LEMMA ProgressSteps ==
  ASSUME NEW S, NEW left \in Seq(S), left # <<>>, NEW done \in Seq(S), NEW W, NEW Ok, NEW val, NEW R,
         Irreflexive(W, R), Progress(done, left, W, Ok, val, R),
         NEW h, NEW t, Begins(left, h, t),
         NEW done2, Adds(done2, done, h, Ok)
  PROVE  Progress(done2, t, W, Ok, val, R)
<1>1. PICK rest \in SUBSET W :
        /\ Orders(left, rest, val, R)
        /\ Orders(done, {x \in W \ rest : val[x] \in Ok}, val, R)
        /\ \A x \in W \ rest, y \in rest : <<x, y>> \in R
  BY DEF Progress
<1>2. PICK x \in rest : val[x] = h /\ Orders(t, rest \ {x}, val, R) /\ BeforeAll(x, rest, R)
  <2>1. Irreflexive(rest, R)
    BY DEF Irreflexive
  <2>2. Orders(left, rest, val, R)
    BY <1>1
  <2>3. QED
    BY <2>1, <2>2, OrdersTail
<1>3. PICK rest2 : rest2 = rest \ {x}
  OBVIOUS
<1>4. rest2 \in SUBSET W /\ W \ rest2 = (W \ rest) \cup {x}
  BY <1>3
<1>5. \A y \in W \ rest2, z \in rest2 : <<y, z>> \in R
  BY <1>1, <1>2, <1>3, <1>4 DEF BeforeAll
<1>6. PICK A : A = {y \in W \ rest : val[y] \in Ok}
  OBVIOUS
<1>7. CASE h \in Ok
  <2>1. {y \in W \ rest2 : val[y] \in Ok} = A \cup {x}
    BY <1>2, <1>4, <1>6, <1>7
  <2>2. Orders(<<val[x]>>, {x}, val, R)
    BY OrdersOne
  <2>3. val[x] \in S /\ <<val[x]>> \in Seq(S)
    BY <1>2 DEF Begins
  <2>4. Orders(done \o <<val[x]>>, A \cup {x}, val, R)
    <3>1. \A y \in A, z \in {x} : <<y, z>> \in R
      BY <1>1, <1>6
    <3>2. Orders(done, A, val, R)
      BY <1>1, <1>6
    <3>3. PICK one : one = <<val[x]>>
      OBVIOUS
    <3>4. QED
      BY <2>2, <2>3, <3>1, <3>2, <3>3, OrdersConcat
  <2>5. done \o <<val[x]>> = Append(done, h)
    BY <1>2, <2>3
  <2>6. Orders(done2, {y \in W \ rest2 : val[y] \in Ok}, val, R)
    BY <1>7, <2>1, <2>4, <2>5 DEF Adds
  <2>7. QED
    BY <1>2, <1>3, <1>4, <1>5, <2>6 DEF Progress
<1>8. CASE h \notin Ok
  <2>1. {y \in W \ rest2 : val[y] \in Ok} = A
    BY <1>2, <1>4, <1>6, <1>8
  <2>2. Orders(done2, {y \in W \ rest2 : val[y] \in Ok}, val, R)
    BY <1>1, <1>6, <1>8, <2>1 DEF Adds
  <2>3. QED
    BY <1>2, <1>3, <1>4, <1>5, <2>2 DEF Progress
<1>9. QED
  BY <1>7, <1>8

\* The members with values in Ok.
Chosen(X, W, Ok, val) == X = {x \in W : val[x] \in Ok}
LEMMA ProgressEnds ==
  ASSUME NEW S, NEW left \in Seq(S), left = <<>>, NEW done, NEW W, NEW Ok, NEW val, NEW R,
         Progress(done, left, W, Ok, val, R), NEW X, Chosen(X, W, Ok, val)
  PROVE  Orders(done, X, val, R)
<1>1. PICK rest \in SUBSET W :
        /\ Orders(left, rest, val, R)
        /\ Orders(done, {x \in W \ rest : val[x] \in Ok}, val, R)
  BY DEF Progress
<1>2. rest = {}
  BY <1>1, OrdersEmpty
<1>3. W \ rest = W
  BY <1>2
<1>4. QED
  BY <1>1, <1>3 DEF Chosen

LEMMA ClaimIs ==
  ASSUME NEW list, NEW kinds, NEW x
  PROVE  x \in Claims(list, kinds) <=>
           \E i \in DOMAIN list : \E o \in Origins(list[i].name, kinds) : x = <<i, o>>
BY DEF Claims

LEMMA ClaimsGrow ==
  ASSUME NEW list, NEW kinds, kinds \subseteq AllKinds
  PROVE  Claims(list, kinds) \subseteq Claims(list, AllKinds)
<1>1. \A m : Origins(m, kinds) \subseteq Origins(m, AllKinds)
  BY OriginsGrow
<1>2. QED
  BY <1>1, ClaimIs

LEMMA AheadIsNot ==
  ASSUME body \in Worlds, NEW S, NEW list \in Seq(S), NEW kinds, kinds \subseteq AllKinds
  PROVE  Irreflexive(Claims(list, kinds), Ahead(list))
<1>1. SUFFICES ASSUME NEW x \in Claims(list, kinds), <<x, x>> \in Ahead(list) PROVE FALSE
  BY DEF Irreflexive
<1>2. PICK i \in DOMAIN list : \E o \in Origins(list[i].name, kinds) : x = <<i, o>>
  BY <1>1, ClaimIs
<1>3. PICK o \in Origins(list[i].name, kinds) : x = <<i, o>>
  BY <1>2
<1>4. o \in Declared(list[i].name)
  BY OriginsGrow DEF Declared, AllKinds
<1>5. i \in 1..Len(list) /\ Len(list) \in Nat
  OBVIOUS
<1>6. x[1] = i /\ x[2] = o
  BY <1>3
<1>7. x[1] < x[1] \/ After(x[2], x[2])
  BY <1>1 DEF Ahead
<1>8. ~After(o, o)
  BY <1>4, AfterIsNot
<1>9. QED
  BY <1>5, <1>6, <1>7, <1>8

\* The entries of a mod, as claims.
LEMMA OfMod ==
  ASSUME NEW list, NEW i \in DOMAIN list, NEW m, m = list[i].name, NEW A, A \subseteq Declared(m),
         NEW S, NEW s \in Seq(S), Orders(s, A, EntriesOf(m), Written(m)),
         NEW B, B = {<<i, o>> : o \in A}
  PROVE  Orders(s, B, ClaimEntries(list), Ahead(list))
<1>1. PICK g, v, w, v2, w2 :
        /\ g = [o \in A |-> <<i, o>>] /\ v = EntriesOf(m) /\ w = Written(m)
        /\ v2 = ClaimEntries(list) /\ w2 = Ahead(list)
  OBVIOUS
<1>2. \A o \in A : g[o] = <<i, o>>
  BY <1>1
<1>3. \A o \in A : <<i, o>> \in Claims(list, AllKinds)
  BY ClaimIs DEF Declared, AllKinds
<1>4. ASSUME NEW o \in A PROVE g[o] \in B /\ v2[g[o]] = v[o]
  <2>1. PICK x : x = <<i, o>>
    OBVIOUS
  <2>2. x \in Claims(list, AllKinds) /\ x[1] = i /\ x[2] = o
    BY <1>3, <2>1
  <2>3. v2[x] = EntryOf(m, o)
    BY <1>1, <2>2 DEF ClaimEntries
  <2>4. v[o] = EntryOf(m, o)
    BY <1>1 DEF EntriesOf
  <2>5. QED
    BY <1>2, <2>1, <2>3, <2>4
<1>5. \A y \in B : \E o \in A : g[o] = y
  BY <1>2
<1>6. ASSUME NEW o \in A, NEW q \in A, <<o, q>> \in w PROVE <<g[o], g[q]>> \in w2
  <2>1. PICK x, y : x = <<i, o>> /\ y = <<i, q>>
    OBVIOUS
  <2>2. /\ x \in Claims(list, AllKinds) /\ x[1] = i /\ x[2] = o
        /\ y \in Claims(list, AllKinds) /\ y[1] = i /\ y[2] = q
    BY <1>3, <2>1
  <2>3. After(o, q)
    BY <1>1, <1>6 DEF Written
  <2>4. <<x, y>> \in w2
    BY <1>1, <2>2, <2>3 DEF Ahead
  <2>5. QED
    BY <1>2, <2>1, <2>4
<1>7. Orders(s, B, v2, w2)
  <2>1. Orders(s, A, v, w)
    BY <1>1
  <2>2. QED
    BY <1>4, <1>5, <1>6, <2>1, OrdersMap
<1>8. QED
  BY <1>1, <1>7

\* The entries of the mods of the list, one mod after the other.
OnePer(s, list) == s = [i \in DOMAIN list |-> s[i]]
Claimed(B, A, list) == B = UNION {{<<i, o>> : o \in A[i]} : i \in DOMAIN list}
LEMMA OfList ==
  ASSUME NEW T, NEW list \in Seq(T), NEW S, NEW s, NEW A, OnePer(s, list),
         \A i \in DOMAIN list :
           /\ A[i] \subseteq Declared(list[i].name) /\ s[i] \in Seq(S)
           /\ Orders(s[i], A[i], EntriesOf(list[i].name), Written(list[i].name)),
         NEW B, Claimed(B, A, list)
  PROVE  Orders(FlattenSeq(s), B, ClaimEntries(list), Ahead(list))
<1>1. PICK n \in Nat : n = Len(list) /\ DOMAIN list = 1..n
  OBVIOUS
<1>2. PICK C, v, w : /\ C = [i \in 1..n |-> {<<i, o>> : o \in A[i]}]
                     /\ v = ClaimEntries(list) /\ w = Ahead(list)
  OBVIOUS
<1>3. s \in Seq(Seq(S)) /\ Len(s) = n
  <2>1. s \in [1..n -> Seq(S)]
    BY <1>1 DEF OnePer
  <2>2. QED
    BY <2>1
<1>4. ASSUME NEW i \in 1..n PROVE Orders(s[i], C[i], v, w)
  <2>1. PICK m, X, Y, t : m = list[i].name /\ X = A[i] /\ Y = C[i] /\ t = s[i]
    OBVIOUS
  <2>2. Y = {<<i, o>> : o \in X}
    BY <1>2, <2>1
  <2>3. X \subseteq Declared(m) /\ t \in Seq(S) /\ Orders(t, X, EntriesOf(m), Written(m))
    BY <1>1, <2>1
  <2>4. Orders(t, Y, ClaimEntries(list), Ahead(list))
    BY <1>1, <2>1, <2>2, <2>3, OfMod
  <2>5. QED
    BY <1>2, <2>1, <2>4
<1>5. ASSUME NEW i \in 1..n, NEW j \in 1..n, i < j, NEW x \in C[i], NEW y \in C[j] PROVE <<x, y>> \in w
  <2>1. PICK o \in A[i] : x = <<i, o>>
    BY <1>2
  <2>2. PICK q \in A[j] : y = <<j, q>>
    BY <1>2
  <2>3. o \in Origins(list[i].name, AllKinds) /\ q \in Origins(list[j].name, AllKinds)
    BY <1>1 DEF Declared, AllKinds
  <2>4. x \in Claims(list, AllKinds) /\ y \in Claims(list, AllKinds)
    BY <1>1, <2>1, <2>2, <2>3, ClaimIs
  <2>5. x[1] = i /\ y[1] = j
    BY <2>1, <2>2
  <2>6. QED
    BY <1>2, <1>5, <2>4, <2>5 DEF Ahead
<1>6. B = UNION {C[i] : i \in 1..n}
  BY <1>1, <1>2 DEF Claimed
<1>7. Orders(FlattenSeq(s), UNION {C[i] : i \in 1..n}, v, w)
  <2>1. \A i \in 1..Len(s) : Orders(s[i], C[i], v, w)
    BY <1>3, <1>4
  <2>2. \A i, j \in 1..Len(s) : i < j => \A x \in C[i], y \in C[j] : <<x, y>> \in w
    BY <1>3, <1>5
  <2>3. Orders(FlattenSeq(s), UNION {C[i] : i \in 1..Len(s)}, v, w)
    BY <1>3, <2>1, <2>2, OrdersFlatten
  <2>4. QED
    BY <1>3, <2>3
<1>8. QED
  BY <1>2, <1>6, <1>7

\* The files of the list are what it claims, in order.
LEMMA FilesAre ==
  ASSUME NEW list \in Seq(ListedMod), \A i \in DOMAIN list : ListedOK(list[i])
  PROVE  Orders(FlattenSeq([i \in DOMAIN list |-> list[i].files]), Claims(list, FileKinds),
                ClaimEntries(list), Ahead(list))
<1>1. PICK s, A : /\ s = [i \in DOMAIN list |-> list[i].files]
                  /\ A = [i \in DOMAIN list |-> Origins(list[i].name, FileKinds)]
  OBVIOUS
<1>2. OnePer(s, list)
  BY <1>1 DEF OnePer
<1>3. PICK B : B = Claims(list, FileKinds)
  OBVIOUS
<1>4. Claimed(B, A, list)
  BY <1>1, <1>3 DEF Claims, Claimed
<1>5. ASSUME NEW i \in DOMAIN list
      PROVE  /\ A[i] \subseteq Declared(list[i].name) /\ s[i] \in Seq(OwnEntry)
             /\ Orders(s[i], A[i], EntriesOf(list[i].name), Written(list[i].name))
  <2>1. PICK x : x = list[i]
    OBVIOUS
  <2>2. x \in ListedMod /\ ListedOK(x)
    BY <2>1
  <2>3. A[i] = Origins(x.name, FileKinds) /\ s[i] = x.files
    BY <1>1, <2>1
  <2>4. Lists(x.files, x.name, Origins(x.name, FileKinds))
    BY <2>2 DEF ListedOK
  <2>5. Origins(x.name, FileKinds) \subseteq Declared(x.name)
    BY OriginsGrow DEF Declared
  <2>6. x.files \in Seq(OwnEntry)
    BY <2>2 DEF ListedMod
  <2>7. QED
    BY <2>1, <2>3, <2>4, <2>5, <2>6 DEF Lists
<1>6. Orders(FlattenSeq(s), B, ClaimEntries(list), Ahead(list))
  BY <1>2, <1>4, <1>5, OfList
<1>7. QED
  BY <1>1, <1>3, <1>6

\* What load_detour asks for: the entries a call wants, and the claims to them.
Wants(c) == {e \in Entry : (e.kind = "TopImport") = c.top /\ e.target = c.script}
Want(list, c) == {x \in Claims(list, ImportKinds) : ClaimEntries(list)[x] \in Wants(c)}

\* Of the imports of a mod, those a call wants.
ImportsFor(s, script, top) ==
  FlattenSeq([i \in DOMAIN s |-> IF (s[i].kind = "TopImport") = top /\ s[i].target = script
                                 THEN <<s[i]>> ELSE <<>>])
WantedOf(X, A, m, c) == X = {o \in A : EntriesOf(m)[o] \in Wants(c)}
LEMMA ImportsOfMod ==
  ASSUME NEW s \in Seq(OwnEntry), NEW m, NEW A, Lists(s, m, A), NEW c, NEW X, WantedOf(X, A, m, c)
  PROVE  Lists(ImportsFor(s, c.script, c.top), m, X) /\ ImportsFor(s, c.script, c.top) \in Seq(OwnEntry)
<1>1. PICK t : t = [i \in DOMAIN s |-> IF (s[i].kind = "TopImport") = c.top /\ s[i].target = c.script
                                       THEN <<s[i]>> ELSE <<>>]
  OBVIOUS
<1>2. PICK E, v, w : E = Wants(c) /\ v = EntriesOf(m) /\ w = Written(m)
  OBVIOUS
<1>3. \A i \in DOMAIN s : s[i] \in Entry /\ s[i] \in OwnEntry
  BY DEF OwnEntry
<1>4. \A i \in DOMAIN s : s[i] \in E <=> (s[i].kind = "TopImport") = c.top /\ s[i].target = c.script
  BY <1>2, <1>3 DEF Wants
<1>5. Picks(t, s, E)
  BY <1>1, <1>4 DEF Picks
<1>6. Orders(s, A, v, w)
  BY <1>2 DEF Lists
<1>7. Orders(FlattenSeq(t), X, v, w)
  BY <1>2, <1>5, <1>6, OrdersSome DEF WantedOf
<1>8. FlattenSeq(t) = ImportsFor(s, c.script, c.top)
  BY <1>1 DEF ImportsFor
<1>9. t \in Seq(Seq(OwnEntry))
  <2>1. t \in [1..Len(s) -> Seq(OwnEntry)]
    BY <1>1, <1>3
  <2>2. QED
    BY <2>1
<1>10. FlattenSeq(t) \in Seq(OwnEntry)
  BY <1>9, FlattenType
<1>11. QED
  BY <1>2, <1>7, <1>8, <1>10 DEF Lists

LEMMA ImportsAre ==
  ASSUME mods \in Seq(ListedMod), \A i \in DOMAIN mods : ListedOK(mods[i]), NEW c
  PROVE  Orders(ImportsOf(c.script, c.top), Want(mods, c), ClaimEntries(mods), Ahead(mods))
<1>1. PICK list : list = mods
  OBVIOUS
<1>2. PICK s, A : /\ s = [i \in DOMAIN list |-> ImportsFor(list[i].imports, c.script, c.top)]
                  /\ A = [i \in DOMAIN list |-> {o \in Origins(list[i].name, ImportKinds) :
                                                  EntriesOf(list[i].name)[o] \in Wants(c)}]
  OBVIOUS
<1>3. OnePer(s, list)
  BY <1>2 DEF OnePer
<1>4. PICK B : B = Want(list, c)
  OBVIOUS
<1>5. ASSUME NEW i \in DOMAIN list
      PROVE  /\ A[i] \subseteq Declared(list[i].name) /\ s[i] \in Seq(OwnEntry)
             /\ Orders(s[i], A[i], EntriesOf(list[i].name), Written(list[i].name))
  <2>1. PICK x : x = list[i]
    OBVIOUS
  <2>2. x \in ListedMod /\ ListedOK(x)
    BY <1>1, <2>1
  <2>3. PICK X : X = {o \in Origins(x.name, ImportKinds) : EntriesOf(x.name)[o] \in Wants(c)}
    OBVIOUS
  <2>4. A[i] = X /\ s[i] = ImportsFor(x.imports, c.script, c.top)
    BY <1>2, <2>1, <2>3
  <2>5. Lists(x.imports, x.name, Origins(x.name, ImportKinds))
    BY <2>2 DEF ListedOK
  <2>6. X \subseteq Declared(x.name)
    BY <2>3, OriginsGrow DEF Declared
  <2>7. x.imports \in Seq(OwnEntry)
    BY <2>2 DEF ListedMod
  <2>8. Lists(s[i], x.name, X) /\ s[i] \in Seq(OwnEntry)
    <3>1. WantedOf(X, Origins(x.name, ImportKinds), x.name, c)
      BY <2>3 DEF WantedOf
    <3>2. QED
      BY <2>4, <2>5, <2>7, <3>1, ImportsOfMod
  <2>9. QED
    BY <2>1, <2>4, <2>6, <2>8 DEF Lists
<1>6. Claimed(B, A, list)
  <2>1. ASSUME NEW i \in DOMAIN list, NEW o \in Origins(list[i].name, ImportKinds)
        PROVE  <<i, o>> \in B <=> o \in A[i]
    <3>1. PICK x : x = <<i, o>>
      OBVIOUS
    <3>2. x \in Claims(list, ImportKinds) /\ x[1] = i /\ x[2] = o
      BY <3>1, ClaimIs
    <3>3. x \in Claims(list, AllKinds)
      BY <3>2, ClaimsGrow DEF AllKinds
    <3>4. o \in Declared(list[i].name)
      BY OriginsGrow DEF Declared
    <3>5. ClaimEntries(list)[x] = EntriesOf(list[i].name)[o]
      BY <3>2, <3>3, <3>4 DEF ClaimEntries, EntriesOf
    <3>6. QED
      BY <1>2, <1>4, <3>1, <3>2, <3>5 DEF Want
  <2>2. \A i \in DOMAIN list : A[i] \subseteq Origins(list[i].name, ImportKinds)
    BY <1>2
  <2>3. \A x \in B : \E i \in DOMAIN list : \E o \in Origins(list[i].name, ImportKinds) : x = <<i, o>>
    BY <1>4, ClaimIs DEF Want
  <2>4. \A x \in B : \E i \in DOMAIN list : \E o \in A[i] : x = <<i, o>>
    BY <2>1, <2>3
  <2>5. \A i \in DOMAIN list : \A o \in A[i] : <<i, o>> \in B
    BY <2>1, <2>2
  <2>6. QED
    BY <2>4, <2>5 DEF Claimed
<1>7. Orders(FlattenSeq(s), B, ClaimEntries(list), Ahead(list))
  BY <1>1, <1>3, <1>5, <1>6, OfList
<1>8. ImportsOf(c.script, c.top) = FlattenSeq(s)
  BY <1>1, <1>2 DEF ImportsOf, ImportsFor
<1>9. QED
  BY <1>1, <1>4, <1>7, <1>8

--------------------------------------------------------------------------------
(* How far the imports of a script, and the files, have come.                   *)

Fires(list, ex, done, left, c) ==
  Progress(done, left, Want(list, c), {e \in Entry : e.source \in ex}, ClaimEntries(list), Ahead(list))
Registers(list, ex, done, left) ==
  Progress(done, left, Claims(list, FileKinds), {e \in Entry : e.source \in ex /\ e.kind = "Replace"},
           ClaimEntries(list), Ahead(list))
\* What was in hand when a config.lua Imported a script.
InHand(r, list, ex) ==
  \A i \in 1..Len(r) : r[i].todo # <<>> => Fires(list, ex, r[i].fired, r[i].pending, r[i].call)
ProgressInv ==
  /\ pc = "files" => Registers(mods, exists, registered, pending)
  /\ pc \in {"dir", "parse"} => registered = <<>>
  /\ running # <<>> => pc = "fire"
  /\ pc = "fire" => Fires(mods, exists, fired, pending, call) /\ InHand(running, mods, exists)

LEMMA SameClaims ==
  ASSUME body' = body, NEW list
  PROVE  /\ \A kinds : Claims(list, kinds)' = Claims(list, kinds)
         /\ ClaimEntries(list)' = ClaimEntries(list) /\ Ahead(list)' = Ahead(list)
         /\ \A c : Want(list, c)' = Want(list, c)
<1>1. /\ \A m, kinds : Origins(m, kinds)' = Origins(m, kinds)
      /\ \A m, o : EntryOf(m, o)' = EntryOf(m, o)
  BY SameMeaning
<1>2. \A kinds : Claims(list, kinds)' = Claims(list, kinds)
  BY <1>1 DEF Claims
<1>3. ClaimEntries(list)' = ClaimEntries(list)
  BY <1>1, <1>2 DEF ClaimEntries
<1>4. \A o, q : After(o, q)' <=> After(o, q)
  BY DEF After, Precedes, Siblings, Share, Less, Place
<1>5. Ahead(list)' = Ahead(list)
  BY <1>2, <1>4 DEF Ahead
<1>6. \A c : Want(list, c)' = Want(list, c)
  BY <1>2, <1>3 DEF Want, Wants, Entry
<1>7. QED
  BY <1>2, <1>3, <1>5, <1>6

LEMMA SameFires ==
  ASSUME body' = body, NEW list, NEW ex, NEW done, NEW left, NEW c
  PROVE  /\ Fires(list, ex, done, left, c)' <=> Fires(list, ex, done, left, c)
         /\ Registers(list, ex, done, left)' <=> Registers(list, ex, done, left)
<1>1. PICK W, F, v, w, ok, rep :
        /\ W = Want(list, c) /\ F = Claims(list, FileKinds) /\ v = ClaimEntries(list) /\ w = Ahead(list)
        /\ ok = {e \in Entry : e.source \in ex} /\ rep = {e \in Entry : e.source \in ex /\ e.kind = "Replace"}
  OBVIOUS
<1>2. /\ W = Want(list, c)' /\ F = Claims(list, FileKinds)'
      /\ v = ClaimEntries(list)' /\ w = Ahead(list)'
      /\ ok = {e \in Entry : e.source \in ex}'
      /\ rep = {e \in Entry : e.source \in ex /\ e.kind = "Replace"}'
  BY <1>1, SameClaims DEF Entry
<1>3. Fires(list, ex, done, left, c) <=> Progress(done, left, W, ok, v, w)
  BY <1>1 DEF Fires
<1>4. Fires(list, ex, done, left, c)' <=> Progress(done, left, W, ok, v, w)
  BY <1>2 DEF Fires
<1>5. Registers(list, ex, done, left) <=> Progress(done, left, F, rep, v, w)
  BY <1>1 DEF Registers
<1>6. Registers(list, ex, done, left)' <=> Progress(done, left, F, rep, v, w)
  BY <1>2 DEF Registers
<1>7. QED
  BY <1>3, <1>4, <1>5, <1>6

\* The imports for a script start.
LEMMA FiresStarts ==
  ASSUME ScanTypes, ListInv, NEW c
  PROVE  Fires(mods, exists, <<>>, ImportsOf(c.script, c.top), c)
<1>1. Orders(ImportsOf(c.script, c.top), Want(mods, c), ClaimEntries(mods), Ahead(mods))
  <2>1. mods \in Seq(ListedMod) /\ \A i \in DOMAIN mods : ListedOK(mods[i])
    BY DEF ScanTypes, ListInv
  <2>2. QED
    BY <2>1, ImportsAre
<1>2. QED
  BY <1>1, ProgressStarts DEF Fires

LEMMA WantIs ==
  ASSUME body \in Worlds, NEW list \in Seq(ListedMod), NEW c
  PROVE  Irreflexive(Want(list, c), Ahead(list)) /\ Irreflexive(Claims(list, FileKinds), Ahead(list))
<1>1. Irreflexive(Claims(list, ImportKinds), Ahead(list))
  BY AheadIsNot DEF AllKinds
<1>2. Irreflexive(Claims(list, FileKinds), Ahead(list))
  BY AheadIsNot DEF AllKinds
<1>3. Want(list, c) \subseteq Claims(list, ImportKinds)
  BY DEF Want
<1>4. QED
  BY <1>1, <1>2, <1>3 DEF Irreflexive

\* The next one.
LEMMA FiresStep ==
  ASSUME body \in Worlds, NEW list \in Seq(ListedMod), NEW ex,
         NEW left \in Seq(OwnEntry), left # <<>>, NEW done \in Seq(OwnEntry), NEW c,
         Fires(list, ex, done, left, c), NEW h, NEW t, Begins(left, h, t),
         NEW done2, done2 = IF h.source \in ex THEN Append(done, h) ELSE done
  PROVE  Fires(list, ex, done2, t, c)
<1>1. PICK W, v, w, ok :
        /\ W = Want(list, c) /\ v = ClaimEntries(list) /\ w = Ahead(list)
        /\ ok = {e \in Entry : e.source \in ex}
  OBVIOUS
<1>2. h \in Entry
  BY DEF Begins, OwnEntry
<1>3. Adds(done2, done, h, ok)
  BY <1>1, <1>2 DEF Adds
<1>4. Irreflexive(W, w)
  BY <1>1, WantIs
<1>5. Progress(done, left, W, ok, v, w)
  BY <1>1 DEF Fires
<1>6. Progress(done2, t, W, ok, v, w)
  BY <1>3, <1>4, <1>5, ProgressSteps
<1>7. QED
  BY <1>1, <1>6 DEF Fires

LEMMA RegistersStep ==
  ASSUME body \in Worlds, NEW list \in Seq(ListedMod), NEW ex,
         NEW left \in Seq(OwnEntry), left # <<>>, NEW done \in Seq(OwnEntry),
         Registers(list, ex, done, left), NEW h, NEW t, Begins(left, h, t),
         NEW done2, done2 = IF h.source \in ex /\ h.kind = "Replace" THEN Append(done, h) ELSE done
  PROVE  Registers(list, ex, done2, t)
<1>1. PICK W, v, w, ok :
        /\ W = Claims(list, FileKinds) /\ v = ClaimEntries(list) /\ w = Ahead(list)
        /\ ok = {e \in Entry : e.source \in ex /\ e.kind = "Replace"}
  OBVIOUS
<1>2. h \in Entry
  BY DEF Begins, OwnEntry
<1>3. Adds(done2, done, h, ok)
  BY <1>1, <1>2 DEF Adds
<1>4. Irreflexive(W, w)
  BY <1>1, WantIs
<1>5. Progress(done, left, W, ok, v, w)
  BY <1>1 DEF Registers
<1>6. Progress(done2, t, W, ok, v, w)
  BY <1>3, <1>4, <1>5, ProgressSteps
<1>7. QED
  BY <1>1, <1>6 DEF Registers

\* While imports are made, the list and the files stay.
LEMMA FireKept ==
  ASSUME body' = body, mods' = mods, exists' = exists, pc' = "fire",
         NEW d, NEW l, NEW c, NEW r, fired' = d, pending' = l, call' = c, running' = r,
         Fires(mods, exists, d, l, c), InHand(r, mods, exists)
  PROVE  ProgressInv'
<1>1. PICK list, ex : list = mods /\ ex = exists
  OBVIOUS
<1>2. list = mods' /\ ex = exists'
  BY <1>1
<1>3. Fires(list, ex, d, l, c) /\ Fires(list, ex, d, l, c)'
  BY <1>1, SameFires
<1>4. ASSUME NEW i \in 1..Len(r), r[i].todo # <<>>
      PROVE  Fires(list, ex, r[i].fired, r[i].pending, r[i].call)'
  <2>1. PICK d1, l1, c1 : d1 = r[i].fired /\ l1 = r[i].pending /\ c1 = r[i].call
    OBVIOUS
  <2>2. Fires(list, ex, d1, l1, c1)
    BY <1>1, <1>4, <2>1 DEF InHand
  <2>3. Fires(list, ex, d1, l1, c1)'
    BY <2>2, SameFires
  <2>4. QED
    BY <2>1, <2>3
<1>5. InHand(r, list, ex)'
  BY <1>4 DEF InHand
<1>6. QED
  BY <1>2, <1>3, <1>5 DEF ProgressInv

\* With the innermost frame another, or one more, or one less.
LEMMA InHandSet ==
  ASSUME RunTypes, running # <<>>, NEW f \in RunFrame, SetInner(f), NEW list, NEW ex,
         InHand(running, list, ex),
         f.todo # <<>> => Fires(list, ex, f.fired, f.pending, f.call)
  PROVE  InHand(running', list, ex)
<1>1. /\ Len(running') = Len(running) /\ running'[Len(running)] = f
      /\ \A i \in 1..(Len(running) - 1) : running'[i] = running[i]
  BY ReplaceLast DEF RunTypes, SetInner
<1>2. Len(running) \in Nat \ {0}
  BY InnerIs
<1>3. ASSUME NEW i \in 1..Len(running'), running'[i].todo # <<>>
      PROVE  Fires(list, ex, running'[i].fired, running'[i].pending, running'[i].call)
  <2>1. CASE i = Len(running)
    BY <1>1, <1>3, <2>1
  <2>2. CASE i # Len(running)
    <3>1. i \in 1..(Len(running) - 1) /\ i \in 1..Len(running) /\ running'[i] = running[i]
      BY <1>1, <1>2, <2>2
    <3>2. QED
      BY <1>3, <3>1 DEF InHand
  <2>3. QED
    BY <2>1, <2>2
<1>4. QED
  BY <1>3 DEF InHand

LEMMA InHandPush ==
  ASSUME RunTypes, NEW f, f.todo = <<>>, running' = Append(running, f), NEW list, NEW ex,
         InHand(running, list, ex)
  PROVE  InHand(running', list, ex)
<1>1. /\ Len(running') = Len(running) + 1 /\ Len(running) \in Nat
      /\ running'[Len(running) + 1] = f
      /\ \A i \in 1..Len(running) : running'[i] = running[i]
  BY DEF RunTypes
<1>2. ASSUME NEW i \in 1..Len(running'), running'[i].todo # <<>>
      PROVE  Fires(list, ex, running'[i].fired, running'[i].pending, running'[i].call)
  <2>1. i \in 1..Len(running) /\ running'[i] = running[i]
    BY <1>1, <1>2
  <2>2. QED
    BY <1>2, <2>1 DEF InHand
<1>3. QED
  BY <1>2 DEF InHand

LEMMA InHandPop ==
  ASSUME RunTypes, running # <<>>, running' = Front(running), NEW list, NEW ex,
         InHand(running, list, ex)
  PROVE  InHand(running', list, ex)
<1>1. /\ Len(running') = Len(running) - 1 /\ Len(running) \in Nat
      /\ \A i \in 1..(Len(running) - 1) : running'[i] = running[i]
  BY InnerIs
<1>2. ASSUME NEW i \in 1..Len(running'), running'[i].todo # <<>>
      PROVE  Fires(list, ex, running'[i].fired, running'[i].pending, running'[i].call)
  <2>1. i \in 1..Len(running) /\ running'[i] = running[i]
    BY <1>1, <1>2
  <2>2. QED
    BY <1>2, <2>1 DEF InHand
<1>3. QED
  BY <1>2 DEF InHand

\* An import is over, or a config.lua starts to run.
LEMMA NextFired ==
  ASSUME ScanTypes, ProgressInv, pc = "fire", pending # <<>>,
         NEW d, d = IF Head(pending).source \in exists THEN Append(fired, Head(pending)) ELSE fired,
         NEW l, l = Tail(pending)
  PROVE  Fires(mods, exists, d, l, call)
<1>1. PICK h : Begins(pending, h, l)
  BY DEF Begins
<1>2. d = IF h.source \in exists THEN Append(fired, h) ELSE fired
  BY <1>1 DEF Begins
<1>3. /\ body \in Worlds /\ mods \in Seq(ListedMod) /\ pending \in Seq(OwnEntry) /\ fired \in Seq(OwnEntry)
      /\ Fires(mods, exists, fired, pending, call)
  BY DEF ScanTypes, ProgressInv
<1>4. QED
  BY <1>1, <1>2, <1>3, FiresStep

LEMMA NestedFires ==
  ASSUME ScanTypes, ListInv, NEW top \in BOOLEAN, FireNested(top)
  PROVE  Fires(mods, exists, fired', pending', call')
<1>1. PICK c : c = [script |-> NestedScript, top |-> top]
  OBVIOUS
<1>2. c.script = NestedScript /\ c.top = top
  BY <1>1
<1>3. fired' = <<>> /\ pending' = ImportsOf(c.script, c.top) /\ call' = c
  BY <1>1, <1>2 DEF FireNested
<1>4. Fires(mods, exists, <<>>, ImportsOf(c.script, c.top), c)
  BY FiresStarts
<1>5. QED
  BY <1>3, <1>4

\* Everything but the imports in progress stays, too.
LEMMA FireGoesOn ==
  ASSUME body' = body, mods' = mods, exists' = exists, pc' = "fire",
         Fires(mods, exists, fired', pending', call'), InHand(running', mods, exists)
  PROVE  ProgressInv'
<1>1. PICK d, l, c, r : fired' = d /\ pending' = l /\ call' = c /\ running' = r
  OBVIOUS
<1>2. Fires(mods, exists, d, l, c) /\ InHand(r, mods, exists)
  BY <1>1
<1>3. QED
  BY <1>1, <1>2, FireKept

\* The files of the list, one by one.
LEMMA SortProgress ==
  ASSUME ScanTypes', ListInv', ProgressInv, EndOfFolder, body' = body, running' = running
  PROVE  ProgressInv'
<1>1. /\ pc' = "files" /\ registered' = <<>> /\ running' = <<>>
  BY DEF EndOfFolder, ProgressInv
<1>2. PICK list, ex, p : list = mods' /\ ex = exists' /\ p = pending'
  OBVIOUS
<1>3. list \in Seq(ListedMod)
  <2>1. list \in Seq(ListedMod')
    BY <1>2 DEF ScanTypes
  <2>2. ListedMod' = ListedMod
    BY SameWorld DEF ListedMod, Lowest
  <2>3. QED
    BY <2>1, <2>2
<1>4. \A i \in DOMAIN list : ListedOK(list[i])
  <2>1. \A i \in DOMAIN list : ListedOK(list[i])'
    BY <1>2 DEF ListInv
  <2>2. QED
    BY <2>1, SameListed
<1>5. p = FlattenSeq([i \in DOMAIN list |-> list[i].files])
  <2>1. DOMAIN mods' = DOMAIN mods
    BY DEF EndOfFolder
  <2>2. pending' = FlattenSeq([i \in DOMAIN mods |-> mods'[i].files])
    BY DEF EndOfFolder
  <2>3. QED
    BY <1>2, <2>1, <2>2
<1>6. Orders(p, Claims(list, FileKinds), ClaimEntries(list), Ahead(list))
  BY <1>3, <1>4, <1>5, FilesAre
<1>7. Registers(list, ex, <<>>, p)
  BY <1>6, ProgressStarts DEF Registers
<1>8. Registers(list, ex, <<>>, p)'
  BY <1>7, SameFires
<1>9. QED
  BY <1>1, <1>2, <1>8 DEF ProgressInv

LEMMA RegisterProgress ==
  ASSUME ScanTypes, ProgressInv, Register, running' = running
  PROVE  ProgressInv'
<1>1. /\ body' = body /\ mods' = mods /\ exists' = exists /\ pc = "files" /\ pc' = "files"
      /\ pending # <<>> /\ running' = <<>>
  BY DEF Register, world, ProgressInv
<1>2. PICK h, l : Begins(pending, h, l)
  BY DEF Begins
<1>3. PICK d : d = registered'
  OBVIOUS
<1>4. l = pending' /\ d = IF h.source \in exists /\ h.kind = "Replace" THEN Append(registered, h) ELSE registered
  BY <1>2, <1>3 DEF Begins, Register
<1>5. Registers(mods, exists, registered, pending)
  BY <1>1 DEF ProgressInv
<1>6. body \in Worlds /\ mods \in Seq(ListedMod) /\ pending \in Seq(OwnEntry) /\ registered \in Seq(OwnEntry)
  BY DEF ScanTypes
<1>7. Registers(mods, exists, d, l)
  BY <1>1, <1>2, <1>4, <1>5, <1>6, RegistersStep
<1>8. PICK list, ex : list = mods /\ ex = exists
  OBVIOUS
<1>9. Registers(list, ex, d, l)'
  BY <1>1, <1>7, <1>8, SameFires
<1>10. list = mods' /\ ex = exists'
  BY <1>1, <1>8
<1>11. QED
  BY <1>1, <1>3, <1>4, <1>9, <1>10 DEF ProgressInv

LEMMA ProgressNext ==
  /\ ScanTypes /\ RunTypes /\ ListInv /\ ProgressInv /\ ScanTypes' /\ ListInv'
  /\ [ConfigNext]_allVars
  => ProgressInv'
<1> SUFFICES ASSUME ScanTypes, RunTypes, ListInv, ProgressInv, ScanTypes', ListInv', [ConfigNext]_allVars
             PROVE  ProgressInv'
  OBVIOUS
<1>1. body' = body
  BY BodyStays
<1>2. pc = "fire" => Fires(mods, exists, fired, pending, call) /\ InHand(running, mods, exists)
  BY DEF ProgressInv
<1>3. running # <<>> => pc = "fire"
  BY DEF ProgressInv
\* Nothing is imported before the step or after.
<1>4. ASSUME running' = running, pc # "fire", pc' \notin {"files", "fire"},
             pc' \in {"dir", "parse"} => registered' = <<>>
      PROVE  ProgressInv'
  BY <1>4 DEF ProgressInv
<1>5. CASE StartWave
  BY <1>4, <1>5 DEF StartWave, StartScan
<1>6. CASE Scan /\ UNCHANGED configVars
  <2>1. running' = running
    BY <1>6 DEF configVars
  <2>2. CASE (\E m \in Mods : Visit(m)) \/ Parse \/ EndOfMod
    <3>1. registered' = registered /\ pc \in {"dir", "parse"} /\ pc' \in {"dir", "parse"}
      BY <2>2 DEF Visit, EndOfMod, Parse, To, Priority, Include, OpenIncluded, Import, AddFiles, Ignored,
                  EndOfModfile, KeepScan, At, Reading
    <3>2. registered = <<>>
      BY <3>1 DEF ProgressInv
    <3>3. QED
      BY <1>4, <2>1, <3>1, <3>2
  <2>3. CASE EndOfFolder
    BY <1>1, <2>1, <2>3, SortProgress
  <2>4. CASE Register
    BY <2>1, <2>4, RegisterProgress
  <2>5. CASE EndScan
    BY <1>4, <2>1, <2>5 DEF EndScan
  <2>6. QED
    BY <1>6, <2>2, <2>3, <2>4, <2>5 DEF Scan
<1>7. CASE Edit /\ UNCHANGED configVars
  BY <1>4, <1>7 DEF Edit, configVars
<1>8. CASE (\E script \in Scripts, top \in BOOLEAN : Fire(script, top)) /\ UNCHANGED configVars
  <2>1. PICK script \in Scripts, top \in BOOLEAN : Fire(script, top)
    BY <1>8
  <2>2. PICK c : c = [script |-> script, top |-> top]
    OBVIOUS
  <2>3. c.script = script /\ c.top = top
    BY <2>2
  <2>4. /\ mods' = mods /\ exists' = exists /\ pc = "ready" /\ pc' = "fire"
        /\ fired' = <<>> /\ pending' = ImportsOf(c.script, c.top) /\ call' = c
    BY <2>1, <2>2, <2>3 DEF Fire, world
  <2>5. Fires(mods, exists, <<>>, ImportsOf(c.script, c.top), c)
    BY FiresStarts
  <2>6. Fires(mods, exists, fired', pending', call')
    BY <2>4, <2>5
  <2>7. running' = <<>> /\ Len(<<>>) = 0
    BY <1>3, <1>8, <2>4 DEF configVars
  <2>8. InHand(running', mods, exists)
    BY <2>7 DEF InHand
  <2>9. QED
    BY <1>1, <2>4, <2>6, <2>8, FireGoesOn
<1>9. CASE FireNext /\ UNCHANGED configVars
  <2>1. PICK d, l : d = fired' /\ l = pending'
    OBVIOUS
  <2>2. /\ mods' = mods /\ exists' = exists /\ pc = "fire" /\ pc' = "fire" /\ call' = call
        /\ running' = running /\ pending # <<>> /\ l = Tail(pending)
        /\ d = IF Head(pending).source \in exists THEN Append(fired, Head(pending)) ELSE fired
    BY <1>9, <2>1 DEF FireNext, world, configVars
  <2>3. Fires(mods, exists, d, l, call)
    BY <2>2, NextFired
  <2>4. InHand(running', mods, exists)
    BY <1>2, <2>2
  <2>5. QED
    BY <1>1, <2>1, <2>2, <2>3, <2>4, FireGoesOn
<1>10. CASE EndOfImports
  BY <1>10 DEF EndOfImports, EndFire, ProgressInv
<1>11. CASE ImportConfig
  <2>1. PICK d, l : d = fired' /\ l = pending'
    OBVIOUS
  <2>2. PICK f : f = [import |-> Head(pending), todo |-> <<>>,
                      may |-> IF Loaded(Head(pending).source) THEN {} ELSE {"add", "import"},
                      pending |-> <<>>, fired |-> <<>>, call |-> NoCall]
    OBVIOUS
  <2>3. /\ mods' = mods /\ exists' = exists /\ pc = "fire" /\ pc' = "fire" /\ call' = call
        /\ pending # <<>> /\ l = Tail(pending) /\ d = Append(fired, Head(pending))
        /\ Head(pending).source \in exists
    BY <1>11, <2>1 DEF ImportConfig, NextIsConfig, world
  <2>4. running' = Append(running, f) /\ f.todo = <<>>
    BY <1>11, <2>2 DEF ImportConfig
  <2>5. Fires(mods, exists, d, l, call)
    BY <2>3, NextFired
  <2>6. InHand(running', mods, exists)
    BY <1>2, <2>3, <2>4, InHandPush
  <2>7. QED
    BY <1>1, <2>1, <2>3, <2>5, <2>6, FireGoesOn
\* A step of the innermost config.lua, while it is not importing.
<1>12. ASSUME running # <<>>, UNCHANGED <<world, mods, fired, pending, call, pc>>,
              NEW f \in RunFrame, SetInner(f),
              f.todo # <<>> => f.fired = Inner.fired /\ f.pending = Inner.pending /\ f.call = Inner.call
                               /\ Inner.todo # <<>>
       PROVE  ProgressInv'
  <2>1. /\ mods' = mods /\ exists' = exists /\ pc = "fire" /\ pc' = "fire"
        /\ fired' = fired /\ pending' = pending /\ call' = call
    BY <1>3, <1>12 DEF world
  <2>2. Inner = running[Len(running)] /\ Len(running) \in 1..Len(running)
    BY <1>12, InnerIs
  <2>3. f.todo # <<>> => Fires(mods, exists, f.fired, f.pending, f.call)
    BY <1>2, <1>12, <2>1, <2>2 DEF InHand
  <2>4. InHand(running', mods, exists)
    BY <1>2, <1>12, <2>1, <2>3, InHandSet
  <2>5. QED
    BY <1>1, <1>2, <2>1, <2>4, FireGoesOn
<1>13. CASE AddsTable
  <2>1. PICK f : f = [Inner EXCEPT !.may = @ \ {"add"}]
    OBVIOUS
  <2>2. running # <<>> /\ Inner.todo = <<>> /\ SetInner(f) /\ UNCHANGED vars
    BY <1>13, <2>1 DEF AddsTable, InChunk
  <2>3. f \in RunFrame /\ f.todo = Inner.todo
    BY <2>1, <2>2, InnerIs DEF RunFrame
  <2>4. QED
    BY <1>12, <2>2, <2>3 DEF vars
<1>14. CASE NestedBody
  <2>1. PICK f : f = [Inner EXCEPT !.todo = Tail(@)]
    OBVIOUS
  <2>2. running # <<>> /\ Inner.todo # <<>> /\ SetInner(f) /\ UNCHANGED vars
    BY <1>14, <2>1 DEF NestedBody, NestedAt
  <2>3. f \in RunFrame
    BY <2>1, <2>2, StepOver
  <2>4. f.fired = Inner.fired /\ f.pending = Inner.pending /\ f.call = Inner.call
    BY <2>1, <2>2, InnerIs DEF RunFrame
  <2>5. QED
    BY <1>12, <2>2, <2>3, <2>4 DEF vars
<1>15. CASE ImportsScript
  <2>1. PICK f : f = [Inner EXCEPT !.may = @ \ {"import"}, !.todo = <<"body", "post", "end">>,
                                   !.pending = pending, !.fired = fired, !.call = call]
    OBVIOUS
  <2>2. /\ running # <<>> /\ SetInner(f) /\ FireNested(TRUE)
        /\ mods' = mods /\ exists' = exists /\ pc' = pc
    BY <1>15, <2>1 DEF ImportsScript, InChunk, world
  <2>3. f \in RunFrame /\ f.fired = fired /\ f.pending = pending /\ f.call = call
    <3>1. Inner \in RunFrame
      BY <2>2, InnerIs
    <3>2. <<"body", "post", "end">> \in Seq({"body", "post", "end"})
      OBVIOUS
    <3>3. fired \in Seq(OwnEntry) /\ pending \in Seq(OwnEntry) /\ call \in Call
      BY DEF ScanTypes
    <3>4. QED
      BY <2>1, <3>1, <3>2, <3>3 DEF RunFrame
  <2>4. pc = "fire"
    BY <1>3, <2>2
  <2>5. Fires(mods, exists, fired', pending', call')
    BY <2>2, NestedFires
  <2>6. InHand(running', mods, exists)
    BY <1>2, <2>2, <2>3, <2>4, InHandSet
  <2>7. QED
    BY <1>1, <2>2, <2>4, <2>5, <2>6, FireGoesOn
<1>16. CASE NestedPost
  <2>1. PICK f : f = [Inner EXCEPT !.todo = Tail(@)]
    OBVIOUS
  <2>2. /\ running # <<>> /\ Inner.todo # <<>> /\ SetInner(f) /\ FireNested(FALSE)
        /\ mods' = mods /\ exists' = exists /\ pc' = pc
    BY <1>16, <2>1 DEF NestedPost, NestedAt, world
  <2>3. f \in RunFrame
    BY <2>1, <2>2, StepOver
  <2>4. f.fired = Inner.fired /\ f.pending = Inner.pending /\ f.call = Inner.call
    BY <2>1, <2>2, InnerIs DEF RunFrame
  <2>5. pc = "fire"
    BY <1>3, <2>2
  <2>6. Inner = running[Len(running)] /\ Len(running) \in 1..Len(running)
    BY <2>2, InnerIs
  <2>7. Fires(mods, exists, f.fired, f.pending, f.call)
    BY <1>2, <2>2, <2>4, <2>5, <2>6 DEF InHand
  <2>8. InHand(running', mods, exists)
    BY <1>2, <2>2, <2>3, <2>5, <2>7, InHandSet
  <2>9. Fires(mods, exists, fired', pending', call')
    BY <2>2, NestedFires
  <2>10. QED
    BY <1>1, <2>2, <2>5, <2>8, <2>9, FireGoesOn
<1>17. CASE NestedEnd
  <2>1. PICK f : f = [Inner EXCEPT !.todo = <<>>, !.pending = <<>>, !.fired = <<>>, !.call = NoCall]
    OBVIOUS
  <2>2. /\ running # <<>> /\ Inner.todo # <<>> /\ SetInner(f)
        /\ mods' = mods /\ exists' = exists /\ pc' = pc
        /\ pending' = Inner.pending /\ fired' = Inner.fired /\ call' = Inner.call
    BY <1>17, <2>1 DEF NestedEnd, NestedAt, world
  <2>3. f \in RunFrame /\ f.todo = <<>>
    <3>1. Inner \in RunFrame
      BY <2>2, InnerIs
    <3>2. NoCall \in Call
      BY TargetAssumption DEF NoCall, Call
    <3>3. <<>> \in Seq({"body", "post", "end"}) /\ <<>> \in Seq(OwnEntry)
      OBVIOUS
    <3>4. QED
      BY <2>1, <3>1, <3>2, <3>3 DEF RunFrame
  <2>4. pc = "fire"
    BY <1>3, <2>2
  <2>5. Inner = running[Len(running)] /\ Len(running) \in 1..Len(running)
    BY <2>2, InnerIs
  <2>6. Fires(mods, exists, fired', pending', call')
    BY <1>2, <2>2, <2>4, <2>5 DEF InHand
  <2>7. InHand(running', mods, exists)
    BY <1>2, <2>2, <2>3, <2>4, InHandSet
  <2>8. QED
    BY <1>1, <2>2, <2>4, <2>6, <2>7, FireGoesOn
<1>18. CASE BindConfig
  <2>1. /\ running # <<>> /\ running' = Front(running) /\ mods' = mods /\ exists' = exists /\ pc' = pc
        /\ pending' = pending /\ fired' = fired /\ call' = call
    BY <1>18 DEF BindConfig, InChunk, vars, world
  <2>2. pc = "fire"
    BY <1>3, <2>1
  <2>3. InHand(running', mods, exists)
    BY <1>2, <2>1, <2>2, InHandPop
  <2>4. QED
    BY <1>1, <1>2, <2>1, <2>2, <2>3, FireGoesOn
<1>19. CASE Restart
  BY <1>19 DEF Restart, ProgressInv
<1>20. ASSUME UNCHANGED vars, running' = running PROVE ProgressInv'
  <2>1. CASE pc = "fire"
    <3>1. /\ mods' = mods /\ exists' = exists /\ pc' = pc /\ pending' = pending /\ fired' = fired
          /\ call' = call
      BY <1>20 DEF vars, world
    <3>2. QED
      BY <1>1, <1>2, <1>20, <2>1, <3>1, FireGoesOn
  <2>2. CASE pc = "files"
    <3>1. /\ mods' = mods /\ exists' = exists /\ pc' = pc /\ pending' = pending
          /\ registered' = registered /\ running' = <<>>
      BY <1>3, <1>20, <2>2 DEF vars, world
    <3>2. PICK list, ex, d, l : list = mods /\ ex = exists /\ d = registered /\ l = pending
      OBVIOUS
    <3>3. Registers(list, ex, d, l)'
      <4>1. Registers(list, ex, d, l)
        BY <2>2, <3>2 DEF ProgressInv
      <4>2. QED
        BY <1>1, <4>1, SameFires
    <3>4. list = mods' /\ ex = exists' /\ d = registered' /\ l = pending'
      BY <3>1, <3>2
    <3>5. QED
      BY <2>2, <3>1, <3>3, <3>4 DEF ProgressInv
  <2>3. CASE pc \notin {"fire", "files"}
    BY <1>4, <1>20, <2>3 DEF vars, ProgressInv
  <2>4. QED
    BY <2>1, <2>2, <2>3
<1>21. CASE \E m \in Mods, k \in Settings : EditInOverlay(m, k) \/ EditByHand(m, k)
  BY <1>20, <1>21 DEF EditInOverlay, EditByHand
<1>22. CASE UNCHANGED allVars
  BY <1>20, <1>22 DEF allVars, configVars
<1>23. QED
  BY <1>5, <1>6, <1>7, <1>8, <1>9, <1>10, <1>11, <1>13, <1>14, <1>15, <1>16, <1>17, <1>18, <1>19, <1>21,
     <1>22 DEF ConfigNext

--------------------------------------------------------------------------------
(* The order of the list is ModImporter's, when each mod keeps to one priority. *)

LEMMA LowestIs ==
  ASSUME NEW s \in Seq(OwnEntry), NEW n \in Int, n <= DefaultPriority, s # <<>>,
         \A i \in 1..Len(s) : s[i].priority = n
  PROVE  Lowest(s) = n
<1>1. PICK X : X = {DefaultPriority} \cup {s[i].priority : i \in DOMAIN s}
  OBVIOUS
<1>2. DOMAIN s = 1..Len(s) /\ 1 \in 1..Len(s) /\ DefaultPriority \in Int
  <2>1. Len(s) \in Nat \ {0}
    BY EmptySeq, LenProperties
  <2>2. QED
    BY <2>1, NumbersAssumption
<1>3. X = {DefaultPriority, n}
  BY <1>1, <1>2
<1>4. n \in X /\ \A y \in X : n <= y
  BY <1>2, <1>3
<1>5. Min(X) \in X /\ \A y \in X : Min(X) <= y
  BY <1>4 DEF Min
<1>6. Min(X) <= n /\ n <= Min(X) /\ Min(X) \in Int
  BY <1>2, <1>3, <1>4, <1>5
<1>7. Min(X) = n
  BY <1>6
<1>8. QED
  BY <1>1, <1>7 DEF Lowest

\* Each value is one of a member's, and each member's is there.
LEMMA OrdersValues ==
  ASSUME NEW s, NEW A, NEW val, NEW R, Orders(s, A, val, R)
  PROVE  /\ \A i \in 1..Len(s) : \E x \in A : s[i] = val[x]
         /\ \A x \in A : \E i \in 1..Len(s) : s[i] = val[x]
BY DEF Orders

LEMMA EntryNumbers ==
  ASSUME body \in Worlds, NEW m, NEW o \in Declared(m)
  PROVE  EntryOf(m, o).priority \in Int
<1>1. o \in Origins(m, AllKinds)
  BY DEF Declared, AllKinds
<1>2. PICK f : f = Reached(m, o.route)
  OBVIOUS
<1>3. f \in DOMAIN body /\ o.at \in DOMAIN body[f]
  BY <1>1, <1>2, OriginIs, RouteIs
<1>4. PriorityAt(f, o.at) \in Int
  BY <1>3, InForce
<1>5. QED
  BY <1>2, <1>4 DEF EntryOf

\* The priority of a mod that keeps to one.
LEMMA ModPriority ==
  ASSUME body \in Worlds, OnePriorityEach, NEW x \in ListedMod, ListedOK(x), NEW o \in Declared(x.name)
  PROVE  x.priority = EntryOf(x.name, o).priority
<1>1. PICK m, n, s, t, v, w, A, B :
        /\ m = x.name /\ n = EntryOf(m, o).priority /\ s = x.imports /\ t = x.files
        /\ v = EntriesOf(m) /\ w = Written(m)
        /\ A = Origins(m, ImportKinds) /\ B = Origins(m, FileKinds)
  OBVIOUS
<1>2. m \in Mods /\ s \in Seq(OwnEntry) /\ t \in Seq(OwnEntry)
  BY <1>1 DEF ListedMod
<1>3. Orders(s, A, v, w) /\ Orders(t, B, v, w) /\ x.priority = Lowest(s \o t)
  BY <1>1 DEF ListedOK, Lists
<1>4. o \in Declared(m) /\ Declared(m) = A \cup B
  BY <1>1, DeclaredIs
<1>5. \A q \in Declared(m) : v[q].priority = n /\ n <= DefaultPriority
  BY <1>1, <1>2, <1>4 DEF OnePriorityEach, EntriesOf
<1>6. n \in Int /\ n <= DefaultPriority
  BY <1>1, <1>4, <1>5, EntryNumbers
<1>7. PICK k, l : k = Len(s) /\ l = Len(t) /\ k \in Nat /\ l \in Nat
  <2>1. Len(s) \in Nat /\ Len(t) \in Nat
    BY <1>2, LenProperties
  <2>2. QED
    BY <2>1
<1>8. /\ \A i \in 1..k : s[i].priority = n
      /\ \A i \in 1..l : t[i].priority = n
  <2>1. \A i \in 1..k : \E q \in A : s[i] = v[q]
    BY <1>3, <1>7, OrdersValues
  <2>2. \A i \in 1..l : \E q \in B : t[i] = v[q]
    BY <1>3, <1>7, OrdersValues
  <2>3. QED
    BY <1>4, <1>5, <2>1, <2>2
<1>9. PICK r : r = s \o t
  OBVIOUS
<1>10. /\ r \in Seq(OwnEntry) /\ Len(r) = k + l
       /\ \A i \in 1..(k + l) : r[i] = IF i <= k THEN s[i] ELSE t[i - k]
  BY <1>2, <1>7, <1>9, ConcatProperties
<1>11. \A i \in 1..Len(r) : r[i].priority = n
  <2>1. \A i \in 1..(k + l) : i \in 1..k \/ (i - k \in 1..l /\ ~(i <= k))
    BY <1>7
  <2>2. ASSUME NEW i \in 1..(k + l) PROVE r[i].priority = n
    <3>1. CASE i \in 1..k
      <4>1. i <= k
        BY <1>7, <3>1
      <4>2. QED
        BY <1>8, <1>10, <3>1, <4>1
    <3>2. CASE i - k \in 1..l /\ ~(i <= k)
      BY <1>8, <1>10, <3>2
    <3>3. QED
      BY <2>1, <3>1, <3>2
  <2>3. QED
    BY <1>10, <2>2
<1>12. r # <<>>
  <2>1. CASE o \in A
    <3>1. k # 0
      BY <1>3, <1>7, <2>1, OrdersValues
    <3>2. QED
      BY <1>7, <1>10, <3>1
  <2>2. CASE o \in B
    <3>1. l # 0
      BY <1>3, <1>7, <2>2, OrdersValues
    <3>2. QED
      BY <1>7, <1>10, <3>1
  <2>3. QED
    BY <1>4, <2>1, <2>2
<1>13. Lowest(r) = n
  BY <1>6, <1>10, <1>11, <1>12, LowestIs
<1>14. QED
  BY <1>1, <1>3, <1>9, <1>13

\* One claim ahead of another is one ModImporter applies earlier.
LEMMA AheadIsEarlier ==
  ASSUME ScanTypes, ListInv, SortedList, OnePriorityEach, NoFolders,
         NEW x, NEW y, <<x, y>> \in Ahead(mods)
  PROVE  Earlier(<<mods[x[1]].name, x[2]>>, <<mods[y[1]].name, y[2]>>)
<1>1. x \in Claims(mods, AllKinds) /\ y \in Claims(mods, AllKinds)
      /\ (x[1] < y[1] \/ (x[1] = y[1] /\ After(x[2], y[2])))
  BY DEF Ahead
<1>2. PICK i \in DOMAIN mods : \E o \in Origins(mods[i].name, AllKinds) : x = <<i, o>>
  BY <1>1, ClaimIs
<1>3. PICK o \in Origins(mods[i].name, AllKinds) : x = <<i, o>>
  BY <1>2
<1>4. PICK j \in DOMAIN mods : \E q \in Origins(mods[j].name, AllKinds) : y = <<j, q>>
  BY <1>1, ClaimIs
<1>5. PICK q \in Origins(mods[j].name, AllKinds) : y = <<j, q>>
  BY <1>4
<1>6. PICK a, b : a = mods[i] /\ b = mods[j]
  OBVIOUS
<1>7. o \in Declared(a.name) /\ q \in Declared(b.name) /\ body \in Worlds
  BY <1>3, <1>5, <1>6 DEF Declared, AllKinds, ScanTypes
<1>8. a \in ListedMod /\ b \in ListedMod /\ ListedOK(a) /\ ListedOK(b)
  BY <1>2, <1>4, <1>6 DEF ScanTypes, ListInv
<1>9. PICK p1, p2 : /\ p1 = EntryOf(a.name, o).priority /\ p2 = EntryOf(b.name, q).priority
                    /\ p1 = a.priority /\ p2 = b.priority /\ p1 \in Int /\ p2 \in Int
  BY <1>7, <1>8, ModPriority, EntryNumbers
<1>10. a.name \in Nat /\ b.name \in Nat /\ a.name \in Mods
  BY <1>8, NumbersAssumption DEF ListedMod
<1>11. x[1] = i /\ x[2] = o /\ y[1] = j /\ y[2] = q
  BY <1>3, <1>5
<1>12. CASE i < j
  <2>1. ~Before(b, a)
    BY <1>2, <1>4, <1>6, <1>12 DEF SortedList
  <2>2. a.name # b.name
    <3>1. i # j
      <4>1. i \in Int /\ j \in Int
        BY <1>2, <1>4 DEF ScanTypes
      <4>2. QED
        BY <1>12, <4>1
    <3>2. QED
      BY <1>2, <1>4, <1>6, <3>1 DEF ListInv
  <2>3. p1 < p2 \/ (p1 = p2 /\ a.name < b.name)
    BY <1>9, <1>10, <2>1, <2>2 DEF Before
  <2>4. QED
    BY <1>6, <1>9, <1>11, <2>3 DEF Earlier
<1>13. CASE i = j /\ After(o, q)
  <2>1. a = b
    BY <1>6, <1>13
  <2>2. Precedes(o, q)
    <3>1. ~Siblings(o, q)
      BY <1>7, <2>1, NoSiblings
    <3>2. QED
      BY <1>13, <3>1 DEF After
  <2>3. p1 = p2
    BY <1>9, <2>1
  <2>4. QED
    BY <1>6, <1>9, <1>11, <2>1, <2>2, <2>3 DEF Earlier
<1>14. QED
  BY <1>1, <1>11, <1>12, <1>13

\* And not the other way round.
LEMMA EarlierOneWay ==
  ASSUME body \in Worlds, NEW m \in Mods, NEW o \in Declared(m), NEW l \in Mods, NEW q \in Declared(l),
         Earlier(<<m, o>>, <<l, q>>)
  PROVE  ~Earlier(<<l, q>>, <<m, o>>)
<1>1. PICK a, b : a = EntryOf(m, o).priority /\ b = EntryOf(l, q).priority /\ a \in Int /\ b \in Int
  BY EntryNumbers
<1>2. m \in Int /\ l \in Int
  BY NumbersAssumption
<1>3. a < b \/ (a = b /\ (m < l \/ (m = l /\ Precedes(o, q))))
  BY <1>1 DEF Earlier
<1>4. m = l /\ Precedes(o, q) => ~Precedes(q, o)
  BY PrecedesOneWay
<1>5. Earlier(<<l, q>>, <<m, o>>) => b < a \/ (b = a /\ (l < m \/ (l = m /\ Precedes(q, o))))
  BY <1>1 DEF Earlier
<1>6. QED
  BY <1>1, <1>2, <1>3, <1>4, <1>5

\* What an origin declares is an entry.
LEMMA EntryIsOne ==
  ASSUME body \in Worlds, NEW m \in Mods, NEW o \in Declared(m)
  PROVE  EntryOf(m, o) \in Entry
<1>1. o \in Origins(m, AllKinds)
  BY DEF Declared, AllKinds
<1>2. PICK f : f = Reached(m, o.route)
  OBVIOUS
<1>3. /\ f \in DOMAIN body /\ o.at \in DOMAIN body[f] /\ body[f][o.at].cmd \in AllKinds
      /\ o.target \in DOMAIN TargetsAt(f, o.at) /\ o.arg \in DOMAIN body[f][o.at].args
  BY <1>1, <1>2, OriginIs, RouteIs
<1>4. TargetsAt(f, o.at) \in Seq(Scripts) /\ PriorityAt(f, o.at) \in Int
  BY <1>3, InForce
<1>5. TargetsAt(f, o.at)[o.target] \in Scripts
  BY <1>3, <1>4
<1>6. body[f][o.at].args \in Seq(Sources)
  BY <1>3, ModfileIs DEF AllKinds, ImportKinds, FileKinds
<1>7. body[f][o.at].args[o.arg] \in Sources
  BY <1>3, <1>6
<1>8. QED
  BY <1>2, <1>3, <1>4, <1>5, <1>7 DEF EntryOf, Entry, AllKinds, ImportKinds, FileKinds

\* s is the claims that are wanted.
WantedClaims(X) ==
  /\ X \subseteq Claims(mods, AllKinds)
  /\ \A x \in Claims(mods, AllKinds) : x \in X <=> Wanted(ClaimEntries(mods)[x])

\* Each is a mod's origin, and each that is meant is one of them.
LEMMA ClaimsAreMeant ==
  ASSUME ScanTypes, Complete, Unlisted = {}, NEW X, WantedClaims(X)
  PROVE  /\ \A x \in X : /\ <<mods[x[1]].name, x[2]>> \in Meant
                         /\ ClaimEntries(mods)[x] = EntryOf(mods[x[1]].name, x[2])
         /\ \A y \in Meant : \E x \in X : <<mods[x[1]].name, x[2]>> = y
<1>1. ASSUME NEW x \in X
      PROVE  /\ <<mods[x[1]].name, x[2]>> \in Meant
             /\ ClaimEntries(mods)[x] = EntryOf(mods[x[1]].name, x[2])
  <2>1. x \in Claims(mods, AllKinds)
    BY DEF WantedClaims
  <2>2. PICK i \in DOMAIN mods : \E o \in Origins(mods[i].name, AllKinds) : x = <<i, o>>
    BY <2>1, ClaimIs
  <2>3. PICK o \in Origins(mods[i].name, AllKinds) : x = <<i, o>>
    BY <2>2
  <2>4. PICK m : m = mods[i].name
    OBVIOUS
  <2>5. x[1] = i /\ x[2] = o /\ o \in Declared(m)
    BY <2>3, <2>4 DEF Declared, AllKinds
  <2>6. m \in Mods
    <3>1. mods[i] \in ListedMod
      BY <2>2 DEF ScanTypes
    <3>2. QED
      BY <2>4, <3>1 DEF ListedMod
  <2>7. ClaimEntries(mods)[x] = EntryOf(m, o)
    BY <2>1, <2>4, <2>5 DEF ClaimEntries
  <2>8. Wanted(EntryOf(m, o))
    BY <2>1, <2>7 DEF WantedClaims
  <2>9. PICK y : y = <<m, o>>
    OBVIOUS
  <2>10. y[1] = m /\ y[2] = o
    BY <2>9
  <2>11. y \in UNION {{<<n, q>> : q \in Declared(n)} : n \in Mods}
    BY <2>5, <2>6, <2>9
  <2>12. y \in Meant
    BY <2>8, <2>10, <2>11 DEF Meant
  <2>13. QED
    BY <2>4, <2>5, <2>7, <2>9, <2>12
<1>2. ASSUME NEW y \in Meant PROVE \E x \in X : <<mods[x[1]].name, x[2]>> = y
  <2>1. PICK m \in Mods : \E o \in Declared(m) : y = <<m, o>>
    BY DEF Meant
  <2>2. PICK o \in Declared(m) : y = <<m, o>>
    BY <2>1
  <2>3. Wanted(EntryOf(m, o))
    <3>1. y[1] = m /\ y[2] = o
      BY <2>2
    <3>2. QED
      BY <3>1 DEF Meant
  <2>4. PICK i \in DOMAIN mods : mods[i].name = m
    <3>1. Declared(m) # {} /\ m \notin Unlisted
      BY <2>2
    <3>2. QED
      BY <3>1 DEF Complete
  <2>5. PICK x : x = <<i, o>>
    OBVIOUS
  <2>6. x[1] = i /\ x[2] = o
    BY <2>5
  <2>7. x \in Claims(mods, AllKinds)
    BY <2>4, <2>5, ClaimIs DEF Declared, AllKinds
  <2>8. ClaimEntries(mods)[x] = EntryOf(m, o)
    BY <2>4, <2>6, <2>7 DEF ClaimEntries
  <2>9. x \in X
    BY <2>3, <2>7, <2>8 DEF WantedClaims
  <2>10. QED
    BY <2>2, <2>4, <2>6, <2>9
<1>3. QED
  BY <1>1, <1>2

LEMMA OrderApplies ==
  ASSUME ScanTypes, ListInv, SortedList, Complete, Unlisted = {}, OnePriorityEach, NoFolders,
         NEW s \in Seq(OwnEntry), NEW X, WantedClaims(X),
         Orders(s, X, ClaimEntries(mods), Ahead(mods))
  PROVE  AppliesInOrder(s, Meant)
<1>1. PICK B, v, w, g, v2, w2 :
        /\ B = Meant /\ v = ClaimEntries(mods) /\ w = Ahead(mods)
        /\ g = [x \in X |-> <<mods[x[1]].name, x[2]>>]
        /\ v2 = [y \in B |-> EntryOf(y[1], y[2])]
        /\ w2 = {p \in B \X B : Earlier(p[1], p[2])}
  OBVIOUS
<1>2. ASSUME NEW x \in X PROVE g[x] \in B /\ v2[g[x]] = v[x]
  <2>1. PICK m, o : m = mods[x[1]].name /\ o = x[2]
    OBVIOUS
  <2>2. PICK y : y = <<m, o>>
    OBVIOUS
  <2>3. y \in B /\ v[x] = EntryOf(m, o) /\ g[x] = y
    BY <1>1, <2>1, <2>2, ClaimsAreMeant
  <2>4. v2[y] = EntryOf(m, o)
    <3>1. y[1] = m /\ y[2] = o
      BY <2>2
    <3>2. QED
      BY <1>1, <2>3, <3>1
  <2>5. QED
    BY <2>3, <2>4
<1>3. \A y \in B : \E x \in X : g[x] = y
  BY <1>1, ClaimsAreMeant
<1>4. ASSUME NEW x \in X, NEW y \in X, <<x, y>> \in w PROVE <<g[x], g[y]>> \in w2
  <2>1. Earlier(<<mods[x[1]].name, x[2]>>, <<mods[y[1]].name, y[2]>>)
    BY <1>1, <1>4, AheadIsEarlier
  <2>2. Earlier(g[x], g[y])
    BY <1>1, <2>1
  <2>3. QED
    BY <1>1, <1>2, <2>2
<1>5. Orders(s, B, v2, w2)
  <2>1. Orders(s, X, v, w)
    BY <1>1
  <2>2. QED
    BY <1>2, <1>3, <1>4, <2>1, OrdersMap
<1>6. Asymmetric(B, w2)
  <2>1. ASSUME NEW x \in B, NEW y \in B, <<x, y>> \in w2 PROVE <<y, x>> \notin w2
    <3>1. PICK m \in Mods : \E o \in Declared(m) : x = <<m, o>>
      BY <1>1 DEF Meant
    <3>2. PICK o \in Declared(m) : x = <<m, o>>
      BY <3>1
    <3>3. PICK l \in Mods : \E q \in Declared(l) : y = <<l, q>>
      BY <1>1 DEF Meant
    <3>4. PICK q \in Declared(l) : y = <<l, q>>
      BY <3>3
    <3>5. Earlier(x, y)
      BY <1>1, <2>1
    <3>6. ~Earlier(y, x)
      BY <3>2, <3>4, <3>5, EarlierOneWay DEF ScanTypes
    <3>7. QED
      BY <1>1, <3>6
  <2>2. QED
    BY <2>1 DEF Asymmetric
<1>7. /\ Len(s) = Cardinality(B)
      /\ \A x \in B : s[1 + Cardinality(Under(x, B, w2))] = v2[x]
  BY <1>5, <1>6, OrdersRank
<1>8. ASSUME NEW x \in B PROVE s[1 + Cardinality({y \in B : Earlier(y, x)})] = EntryOf(x[1], x[2])
  <2>1. {y \in B : Earlier(y, x)} = Under(x, B, w2)
    BY <1>1 DEF Under
  <2>2. QED
    BY <1>1, <1>7, <2>1
<1>9. QED
  BY <1>1, <1>7, <1>8 DEF AppliesInOrder

LEMMA ProgressApplies == ScanTypes /\ ListInv /\ ProgressInv => AppliesAsModImporter
<1> SUFFICES ASSUME ScanTypes, ListInv, ProgressInv, pc \in {"fire", "files"}, pending = <<>>,
                    OnePriorityEach, NoFolders
             PROVE  AppliesInOrder(IF pc = "fire" THEN fired ELSE registered, Meant)
  BY DEF AppliesAsModImporter
<1>1. SortedList /\ Complete /\ Unlisted = {}
  BY DEF ListInv, Unlisted
<1>2. pending \in Seq(OwnEntry) /\ fired \in Seq(OwnEntry) /\ registered \in Seq(OwnEntry)
  BY DEF ScanTypes
\* A claim's entry.
<1>3. ASSUME NEW x \in Claims(mods, AllKinds)
      PROVE  /\ ClaimEntries(mods)[x] \in Entry /\ ClaimEntries(mods)[x].kind \in AllKinds
             /\ x \in Claims(mods, ImportKinds) <=> ClaimEntries(mods)[x].kind \in ImportKinds
             /\ x \in Claims(mods, FileKinds) <=> ClaimEntries(mods)[x].kind \in FileKinds
  <2>1. PICK i \in DOMAIN mods : \E o \in Origins(mods[i].name, AllKinds) : x = <<i, o>>
    BY ClaimIs
  <2>2. PICK o \in Origins(mods[i].name, AllKinds) : x = <<i, o>>
    BY <2>1
  <2>3. PICK m, e : m = mods[i].name /\ e = EntryOf(m, o)
    OBVIOUS
  <2>4. ClaimEntries(mods)[x] = e
    <3>1. x[1] = i /\ x[2] = o
      BY <2>2
    <3>2. QED
      BY <2>3, <3>1 DEF ClaimEntries
  <2>5. o \in Declared(m)
    BY <2>2, <2>3 DEF Declared, AllKinds
  <2>6. /\ o \in Origins(m, ImportKinds) <=> e.kind \in ImportKinds
        /\ o \in Origins(m, FileKinds) <=> e.kind \in FileKinds
        /\ e.kind \in AllKinds
    BY <2>3, <2>5, DeclaredIs DEF AllKinds
  <2>7. \A kinds : x \in Claims(mods, kinds) <=> o \in Origins(m, kinds)
    BY <2>2, <2>3, ClaimIs
  <2>8. e \in Entry
    <3>1. mods[i] \in ListedMod /\ body \in Worlds
      BY <2>1 DEF ScanTypes
    <3>2. m \in Mods
      BY <2>3, <3>1 DEF ListedMod
    <3>3. QED
      BY <2>3, <2>5, <3>1, <3>2, EntryIsOne
  <2>9. QED
    BY <2>4, <2>6, <2>7, <2>8
<1>4. CASE pc = "fire"
  <2>0. PICK ok, W : ok = {e \in Entry : e.source \in exists} /\ W = Want(mods, call)
    OBVIOUS
  <2>1. PICK X : X = {x \in W : ClaimEntries(mods)[x] \in ok}
    OBVIOUS
  <2>2. Fires(mods, exists, fired, pending, call)
    BY <1>4 DEF ProgressInv
  <2>3. Progress(fired, pending, W, ok, ClaimEntries(mods), Ahead(mods))
    BY <2>0, <2>2 DEF Fires
  <2>4. Orders(fired, X, ClaimEntries(mods), Ahead(mods))
    <3>1. Chosen(X, W, ok, ClaimEntries(mods))
      BY <2>1 DEF Chosen
    <3>2. QED
      BY <1>2, <2>3, <3>1, ProgressEnds
  <2>5. ASSUME NEW x \in Claims(mods, AllKinds)
        PROVE  x \in X <=> Wanted(ClaimEntries(mods)[x])
    <3>1. PICK e : e = ClaimEntries(mods)[x]
      OBVIOUS
    <3>2. x \in Claims(mods, ImportKinds) <=> e.kind \in ImportKinds
      BY <1>3, <3>1
    <3>3. e \in Entry /\ e.kind \in AllKinds
      BY <1>3, <3>1
    <3>4. x \in X <=> /\ e.kind \in ImportKinds /\ (e.kind = "TopImport") = call.top
                      /\ e.target = call.script /\ e.source \in exists
      BY <2>0, <2>1, <3>1, <3>2, <3>3 DEF Want, Wants
    <3>5. Wanted(e) <=> /\ e.source \in exists /\ e.target = call.script
                        /\ e.kind = IF call.top THEN "TopImport" ELSE "Import"
      BY <1>4 DEF Wanted
    <3>6. call.top \in BOOLEAN
      BY DEF ScanTypes, Call
    <3>7. QED
      BY <3>1, <3>4, <3>5, <3>6 DEF ImportKinds
  <2>6. X \subseteq Claims(mods, AllKinds)
    <3>1. X \subseteq Claims(mods, ImportKinds)
      BY <2>0, <2>1 DEF Want
    <3>2. QED
      BY <3>1, ClaimsGrow DEF AllKinds
  <2>7. WantedClaims(X)
    BY <2>5, <2>6 DEF WantedClaims
  <2>8. QED
    BY <1>1, <1>2, <1>4, <2>4, <2>7, OrderApplies
<1>5. CASE pc = "files"
  <2>0. PICK ok, W : /\ ok = {e \in Entry : e.source \in exists /\ e.kind = "Replace"}
                    /\ W = Claims(mods, FileKinds)
    OBVIOUS
  <2>1. PICK X : X = {x \in W : ClaimEntries(mods)[x] \in ok}
    OBVIOUS
  <2>2. Registers(mods, exists, registered, pending)
    BY <1>5 DEF ProgressInv
  <2>3. Progress(registered, pending, W, ok, ClaimEntries(mods), Ahead(mods))
    BY <2>0, <2>2 DEF Registers
  <2>4. Orders(registered, X, ClaimEntries(mods), Ahead(mods))
    <3>1. Chosen(X, W, ok, ClaimEntries(mods))
      BY <2>1 DEF Chosen
    <3>2. QED
      BY <1>2, <2>3, <3>1, ProgressEnds
  <2>5. ASSUME NEW x \in Claims(mods, AllKinds)
        PROVE  x \in X <=> Wanted(ClaimEntries(mods)[x])
    <3>1. PICK e : e = ClaimEntries(mods)[x]
      OBVIOUS
    <3>2. x \in Claims(mods, FileKinds) <=> e.kind \in FileKinds
      BY <1>3, <3>1
    <3>3. e \in Entry
      BY <1>3, <3>1
    <3>4. x \in X <=> e.kind \in FileKinds /\ e.source \in exists /\ e.kind = "Replace"
      BY <2>0, <2>1, <3>1, <3>2, <3>3
    <3>5. Wanted(e) <=> e.source \in exists /\ e.kind = "Replace"
      BY <1>5 DEF Wanted
    <3>6. QED
      BY <3>1, <3>4, <3>5 DEF FileKinds
  <2>6. X \subseteq Claims(mods, AllKinds)
    <3>1. X \subseteq Claims(mods, FileKinds)
      BY <2>0, <2>1
    <3>2. QED
      BY <3>1, ClaimsGrow DEF AllKinds
  <2>7. WantedClaims(X)
    BY <2>5, <2>6 DEF WantedClaims
  <2>8. QED
    BY <1>1, <1>2, <1>5, <2>4, <2>7, OrderApplies
<1>6. QED
  BY <1>4, <1>5

--------------------------------------------------------------------------------
(* The theorems.                                                                *)

OrderInv == ConfigInv /\ ParseInv /\ ListInv /\ ProgressInv

LEMMA OrderInvInit == ConfigInit => OrderInv
<1> SUFFICES ASSUME ConfigInit PROVE OrderInv
  OBVIOUS
<1>1. ConfigInv
  BY ConfigInvInit
<1>2. pc = "ready" /\ mods = <<>> /\ dir = {} /\ running = <<>>
  BY DEF ConfigInit, Init
<1>3. ParseInv
  BY <1>2 DEF ParseInv
<1>4. ListInv
  BY <1>2 DEF ListInv, SortedList
<1>5. ProgressInv
  BY <1>2 DEF ProgressInv
<1>6. QED
  BY <1>1, <1>3, <1>4, <1>5 DEF OrderInv

LEMMA OrderInvStep == OrderInv /\ [ConfigNext]_allVars => OrderInv'
<1> SUFFICES ASSUME OrderInv, [ConfigNext]_allVars PROVE OrderInv'
  OBVIOUS
<1>1. ConfigInv /\ ScanTypes /\ RunTypes /\ ParseInv /\ ListInv /\ ProgressInv
  BY DEF OrderInv, ConfigInv
<1>2. ConfigInv'
  BY <1>1, ConfigInvStep
<1>3. ScanTypes'
  BY <1>2 DEF ConfigInv
<1>4. ParseInv'
  BY <1>1, ParseInvNext
<1>5. ListInv'
  BY <1>1, ListInvNext
<1>6. ProgressInv'
  BY <1>1, <1>3, <1>5, ProgressNext
<1>7. QED
  BY <1>2, <1>4, <1>5, <1>6 DEF OrderInv

\* For any mods and modfiles, however they Include each other and whatever the
\* order of the folders on disk: nothing a mod declares is lost or made twice, and
\* a mod is listed once, unless it declares nothing.
THEOREM NothingIsLost == ConfigSpec => []DeclaresAll
<1>1. OrderInv => DeclaresAll
  BY ListDeclaresAll DEF OrderInv, ConfigInv
<1>2. QED
  BY <1>1, OrderInvInit, OrderInvStep, PTL DEF ConfigSpec

\* When each mod keeps to one priority no higher than the default and no folder it
\* Includes holds several modfiles: the imports made for a script, those that a
\* config.lua's own Import interrupts included, and the files registered, are those
\* of every mod that exist now, in ModImporter's order.
THEOREM AppliesInItsOrder == ConfigSpec => []AppliesAsModImporter
<1>1. OrderInv => AppliesAsModImporter
  BY ProgressApplies DEF OrderInv, ConfigInv
<1>2. QED
  BY <1>1, OrderInvInit, OrderInvStep, PTL DEF ConfigSpec

--------------------------------------------------------------------------------
(* Where the lexemes of a modfile's text end (MCModfileText).                   *)

LEMMA LeastIs ==
  ASSUME NEW T \in SUBSET Nat, T # {}
  PROVE  Min(T) \in T /\ \A m \in T : Min(T) <= m
BY LeastOne DEF Min

LEMMA TextIs ==
  ASSUME text \in Seq(Chars)
  PROVE  Len(text) \in Nat /\ DOMAIN text = 1..Len(text)
OBVIOUS

\* A lexeme is of one kind.
LEMMA KindsApart ==
  /\ \A k \in Marks(Quote) : k \notin Comments /\ k \notin Blocks
  /\ \A k \in Comments : k \notin Blocks
BY DEF Marks, Comments, Blocks, Pairs, Quote, Colon, Dash

LEMMA FirstIs ==
  ASSUME text \in Seq(Chars), NEW A, A \subseteq 1..Len(text), NEW p \in Nat, NEW e, e = FirstIn(A, p)
  PROVE  /\ e \in Nat /\ e <= Len(text) + 1
         /\ e = Len(text) + 1 \/ (e \in A /\ e >= p)
         /\ \A k \in A : k >= p => e <= k
<1>1. PICK n : n = Len(text) + 1 /\ n \in Nat
  BY TextIs
<1>2. PICK T : T = {k \in A : k >= p} \cup {n}
  OBVIOUS
<1>3. e = Min(T)
  BY <1>1, <1>2 DEF FirstIn
<1>4. \A k : k \in T <=> (k \in A /\ k >= p) \/ k = n
  BY <1>2
<1>5. \A k \in A : k \in Nat
  BY TextIs
<1>6. T \in SUBSET Nat /\ T # {} /\ n \in T
  BY <1>1, <1>4, <1>5
<1>7. e \in T /\ \A m \in T : e <= m
  BY <1>3, <1>6, LeastIs
<1>8. QED
  BY <1>1, <1>4, <1>6, <1>7

LEMMA BeyondIs ==
  ASSUME NEW k \in Nat, NEW n \in Nat, Len(text) \in Nat
  PROVE  Beyond(k, n) = IF k + n <= Len(text) + 1 THEN k + n ELSE Len(text) + 1
<1>. DEFINE T == {k + n, Len(text) + 1}
<1>1. T \in SUBSET Nat /\ T # {} /\ k + n \in T /\ Len(text) + 1 \in T
  OBVIOUS
<1>2. Beyond(k, n) = Min(T) /\ \A m \in T : m = k + n \/ m = Len(text) + 1
  BY DEF Beyond
<1>. HIDE DEF T
<1>3. PICK m : m = Beyond(k, n)
  OBVIOUS
<1>4. m \in T /\ \A x \in T : m <= x
  BY <1>1, <1>2, <1>3, LeastIs
<1>5. /\ m = k + n \/ m = Len(text) + 1
      /\ m <= k + n /\ m <= Len(text) + 1
  BY <1>1, <1>2, <1>4
<1>6. m = IF k + n <= Len(text) + 1 THEN k + n ELSE Len(text) + 1
  BY <1>5
<1>7. QED
  BY <1>3, <1>6

\* A quote: the text up to ps holds no end of it, and then.
LEMMA NextQuote ==
  ASSUME text \in Seq(Chars), NEW p \in Marks(Quote), NEW ps \in Nat, p < ps, ps <= Len(text) + 1,
         \A k \in QuoteEnds : k > p => k >= ps
  PROVE  /\ NextLexeme(p) \in Nat /\ ps <= NextLexeme(p) /\ NextLexeme(p) <= Len(text) + 1
         /\ p < NextLexeme(p)
         /\ ps <= Len(text) /\ text[ps] = Quote => NextLexeme(p) = ps + 1
         /\ ps <= Len(text) /\ text[ps] = NL => NextLexeme(p) = ps
         /\ ps <= Len(text) /\ text[ps] \notin {Quote, NL} => ps < NextLexeme(p)
<1>1. Len(text) \in Nat /\ DOMAIN text = 1..Len(text)
  BY TextIs
<1>2. PICK A : A = QuoteEnds
  OBVIOUS
<1>3. \A k \in Marks(Quote) : k \in 1..Len(text) /\ text[k] = Quote
  BY <1>1 DEF Marks
<1>0. \A k \in 1..Len(text) : text[k] = Quote => k \in Marks(Quote)
  BY <1>1 DEF Marks
<1>20. A \subseteq 1..Len(text) /\ \A k \in 1..Len(text) : k \in A <=> text[k] \in {Quote, NL}
  BY <1>1, <1>2 DEF Marks, QuoteEnds
<1>4. p \in 1..Len(text) /\ p + 1 \in Nat
  BY <1>1, <1>3
<1>41. PICK q : q = p + 1
  OBVIOUS
<1>5. PICK e : e = FirstIn(A, q)
  OBVIOUS
<1>6. NextLexeme(p) = IF e \in Marks(Quote) THEN e + 1 ELSE e
  <2>1. NextLexeme(p) = AfterQuote(p)
    BY KindsApart DEF NextLexeme
  <2>2. QED
    BY <1>2, <1>41, <1>5, <2>1 DEF AfterQuote
<1>7. /\ e \in Nat /\ e <= Len(text) + 1
      /\ e = Len(text) + 1 \/ (e \in A /\ e >= q)
      /\ \A k \in A : k >= q => e <= k
  <2>1. q \in Nat /\ A \subseteq 1..Len(text)
    BY <1>20, <1>4, <1>41
  <2>2. QED
    BY <1>5, <2>1, FirstIs
<1>8. \A k \in A : k > p => k >= ps
  BY <1>2
<1>9. e >= ps
  BY <1>1, <1>20, <1>4, <1>41, <1>7, <1>8
<1>10. e \in Marks(Quote) => e <= Len(text)
  BY <1>1, <1>3
<1>11. ASSUME ps <= Len(text), text[ps] \in {Quote, NL} PROVE e = ps
  <2>1. ps \in A /\ ps >= q
    BY <1>1, <1>20, <1>4, <1>41, <1>11
  <2>2. QED
    BY <1>7, <1>9, <2>1
<1>12. ASSUME ps <= Len(text), text[ps] \notin {Quote, NL} PROVE e # ps
  BY <1>1, <1>20, <1>7, <1>12
<1>13. Quote # NL
  BY DEF Quote, NL
<1>14. NextLexeme(p) \in Nat /\ ps <= NextLexeme(p) /\ NextLexeme(p) <= Len(text) + 1 /\ p < NextLexeme(p)
  BY <1>1, <1>4, <1>6, <1>7, <1>9, <1>10
<1>15. ps <= Len(text) /\ text[ps] = Quote => NextLexeme(p) = ps + 1
  <2>1. ps <= Len(text) => ps \in 1..Len(text)
    BY <1>1, <1>4
  <2>2. QED
    BY <1>0, <1>1, <1>6, <1>11, <2>1
<1>16. ps <= Len(text) /\ text[ps] = NL => NextLexeme(p) = ps
  BY <1>3, <1>6, <1>11, <1>13
<1>17. ps <= Len(text) /\ text[ps] \notin {Quote, NL} => ps < NextLexeme(p)
  BY <1>6, <1>7, <1>9, <1>12
<1>18. QED
  BY <1>14, <1>15, <1>16, <1>17

\* A comment: as split_commands goes to the end of the line.
LEMMA NextComment ==
  ASSUME text \in Seq(Chars), NEW p \in Comments, NEW m,
         m = Min({k \in p..Len(text) : text[k] = NL} \cup {Len(text)}) + 1
  PROVE  NextLexeme(p) = m /\ m \in Nat /\ p < m /\ m <= Len(text) + 1
<1>1. Len(text) \in Nat /\ DOMAIN text = 1..Len(text)
  BY TextIs
<1>2. p \in 1..Len(text) /\ p < Len(text)
  BY <1>1 DEF Comments, Pairs
<1>3. PICK T : T = {k \in p..Len(text) : text[k] = NL} \cup {Len(text)}
  OBVIOUS
<1>4. T \in SUBSET Nat /\ T # {} /\ Len(text) \in T
  <2>1. \A k \in p..Len(text) : k \in Nat
    BY <1>1, <1>2
  <2>2. QED
    BY <1>1, <1>3, <2>1
<1>5. \A k \in T : k \in p..Len(text) /\ (text[k] = NL \/ k = Len(text))
  <2>1. \A k \in T : (k \in p..Len(text) /\ text[k] = NL) \/ k = Len(text)
    BY <1>3
  <2>2. Len(text) \in p..Len(text)
    BY <1>1, <1>2
  <2>3. QED
    BY <2>1, <2>2
<1>6. \A k \in p..Len(text) : text[k] = NL => k \in T
  BY <1>3
<1>7. PICK n : n = Min(T) /\ m = n + 1
  BY <1>3
<1>8. n \in T /\ \A k \in T : n <= k
  BY <1>4, <1>7, LeastIs
<1>9. PICK A : A = Marks(NL)
  OBVIOUS
<1>10. A \subseteq 1..Len(text) /\ \A k \in 1..Len(text) : k \in A <=> text[k] = NL
  BY <1>1, <1>9 DEF Marks
<1>11. PICK e : e = FirstIn(A, p)
  OBVIOUS
<1>12. /\ e \in Nat /\ e <= Len(text) + 1
       /\ e = Len(text) + 1 \/ (e \in A /\ e >= p)
       /\ \A k \in A : k >= p => e <= k
  <2>1. p \in Nat
    BY <1>1, <1>2
  <2>2. QED
    BY <1>10, <1>11, <2>1, FirstIs
<1>13. NextLexeme(p) = Beyond(e, 1)
  <2>1. NextLexeme(p) = AfterComment(p)
    BY KindsApart DEF NextLexeme
  <2>2. QED
    BY <1>9, <1>11, <2>1 DEF AfterComment
<1>14. Beyond(e, 1) = IF e + 1 <= Len(text) + 1 THEN e + 1 ELSE Len(text) + 1
  BY <1>1, <1>12, BeyondIs
<1>15. n \in p..Len(text)
  BY <1>5, <1>8
<1>16. CASE e = Len(text) + 1
  <2>1. text[n] # NL
    BY <1>1, <1>2, <1>10, <1>12, <1>15, <1>16
  <2>2. n = Len(text)
    BY <1>5, <1>8, <2>1
  <2>3. QED
    BY <1>1, <1>2, <1>7, <1>13, <1>14, <1>16, <2>2
<1>17. CASE e \in A /\ e >= p
  <2>1. e \in p..Len(text) /\ text[e] = NL
    BY <1>1, <1>2, <1>10, <1>12, <1>17
  <2>2. n <= e
    BY <1>6, <1>8, <2>1
  <2>3. text[n] = NL => e <= n
    BY <1>1, <1>2, <1>10, <1>12, <1>15
  <2>0. n \in Nat /\ e \in Nat
    BY <1>1, <1>2, <1>12, <1>15
  <2>29. e <= Len(text)
    BY <1>1, <1>2, <2>1
  <2>30. n = Len(text) => e <= n
    BY <2>29
  <2>31. e <= n
    BY <1>5, <1>8, <2>3, <2>30
  <2>4. n = e
    BY <2>0, <2>2, <2>31
  <2>5. QED
    BY <1>1, <1>2, <1>7, <1>13, <1>14, <1>15, <2>4
<1>18. QED
  BY <1>12, <1>16, <1>17

\* A block: the text up to ps does not end it, and then.
LEMMA NextBlock ==
  ASSUME text \in Seq(Chars), NEW p \in Blocks, NEW ps \in Nat, p + 2 <= ps, ps <= Len(text) + 1,
         \A k \in Pairs(Colon, Dash) : k >= p + 2 => k >= ps
  PROVE  /\ NextLexeme(p) \in Nat /\ ps <= NextLexeme(p) /\ NextLexeme(p) <= Len(text) + 1
         /\ p < NextLexeme(p)
         /\ ps \in Pairs(Colon, Dash) => NextLexeme(p) = ps + 2
<1>1. Len(text) \in Nat /\ DOMAIN text = 1..Len(text)
  BY TextIs
<1>2. p \in 1..Len(text)
  BY <1>1 DEF Blocks, Pairs
<1>3. PICK A : A = Pairs(Colon, Dash)
  OBVIOUS
<1>4. A \subseteq 1..Len(text) /\ \A k \in A : k < Len(text)
  BY <1>1, <1>3 DEF Pairs
<1>5. PICK q : q = p + 2 /\ q \in Nat
  BY <1>1, <1>2
<1>6. PICK e : e = FirstIn(A, q)
  OBVIOUS
<1>7. /\ e \in Nat /\ e <= Len(text) + 1
      /\ e = Len(text) + 1 \/ (e \in A /\ e >= q)
      /\ \A k \in A : k >= q => e <= k
  <2>1. A \subseteq 1..Len(text) /\ q \in Nat
    BY <1>4, <1>5
  <2>2. QED
    BY <1>6, <2>1, FirstIs
<1>8. NextLexeme(p) = Beyond(e, 2)
  <2>1. NextLexeme(p) = AfterBlock(p)
    BY KindsApart DEF NextLexeme
  <2>2. QED
    BY <1>3, <1>5, <1>6, <2>1 DEF AfterBlock
<1>9. Beyond(e, 2) = IF e + 2 <= Len(text) + 1 THEN e + 2 ELSE Len(text) + 1
  BY <1>1, <1>7, BeyondIs
<1>10. \A k \in A : k >= q => k >= ps
  BY <1>3, <1>5
<1>11. e >= ps
  BY <1>1, <1>7, <1>10
<1>12. ps \in A => e = ps
  BY <1>5, <1>7, <1>11
<1>13. ps \in A => NextLexeme(p) = ps + 2
  BY <1>1, <1>4, <1>8, <1>9, <1>12
<1>14. QED
  BY <1>1, <1>2, <1>3, <1>5, <1>7, <1>8, <1>9, <1>11, <1>13

LEMMA NextOther ==
  ASSUME NEW p, p \notin Marks(Quote), p \notin Comments, p \notin Blocks
  PROVE  NextLexeme(p) = p + 1
BY DEF NextLexeme

\* A lexeme ends after it starts, in the text.
LEMMA LexemeIs ==
  ASSUME text \in Seq(Chars), NEW p \in 1..Len(text)
  PROVE  NextLexeme(p) \in Nat /\ p < NextLexeme(p) /\ NextLexeme(p) <= Len(text) + 1
<1>1. Len(text) \in Nat /\ DOMAIN text = 1..Len(text)
  BY TextIs
<1>2. CASE p \in Marks(Quote)
  <2>1. p + 1 \in Nat /\ p < p + 1 /\ p + 1 <= Len(text) + 1
    BY <1>1
  <2>2. \A k \in QuoteEnds : k > p => k >= p + 1
    BY <1>1 DEF QuoteEnds, Marks
  <2>3. QED
    BY <1>2, <2>1, <2>2, NextQuote
<1>3. CASE p \in Comments
  <2>1. PICK m : m = Min({k \in p..Len(text) : text[k] = NL} \cup {Len(text)}) + 1
    OBVIOUS
  <2>2. QED
    BY <1>3, <2>1, NextComment
<1>4. CASE p \in Blocks
  <2>1. p + 2 \in Nat /\ p + 2 <= Len(text) + 1 /\ p + 2 <= p + 2
    BY <1>1, <1>4 DEF Blocks, Pairs
  <2>2. \A k \in Pairs(Colon, Dash) : k >= p + 2 => k >= p + 2
    OBVIOUS
  <2>3. QED
    BY <1>4, <2>1, <2>2, NextBlock
<1>5. CASE p \notin Marks(Quote) /\ p \notin Comments /\ p \notin Blocks
  BY <1>1, <1>5, NextOther
<1>6. QED
  BY <1>2, <1>3, <1>4, <1>5

\* The lexemes up to the one that starts at p.
Cut(S, p) ==
  /\ p \in 1..(Len(text) + 1) /\ S \subseteq 1..p /\ 1 \in S /\ p \in S
  /\ \A q \in S : q < p => NextLexeme(q) \in S /\ \A r \in S : r > q => r >= NextLexeme(q)

LEMMA CutFirst ==
  ASSUME text \in Seq(Chars)
  PROVE  Cut({1}, 1)
BY TextIs DEF Cut

LEMMA CutNext ==
  ASSUME text \in Seq(Chars), NEW S, NEW p, Cut(S, p), p <= Len(text), NEW q, q = NextLexeme(p)
  PROVE  Cut(S \cup {q}, q) /\ q \in Nat /\ p < q /\ q <= Len(text) + 1 /\ p \in 1..Len(text)
<1>1. Len(text) \in Nat
  BY TextIs
<1>2. p \in 1..Len(text)
  BY <1>1 DEF Cut
<1>3. q \in Nat /\ p < q /\ q <= Len(text) + 1
  BY <1>2, LexemeIs
<1>4. S \subseteq 1..p /\ 1 \in S /\ p \in S
  BY DEF Cut
<1>40. \A r \in S : r \in Nat /\ 1 <= r /\ r <= p
  BY <1>2, <1>4
<1>5. S \cup {q} \subseteq 1..q /\ q \in 1..(Len(text) + 1)
  <2>1. \A r \in S : r \in 1..q
    BY <1>2, <1>3, <1>40
  <2>2. q \in 1..q /\ q \in 1..(Len(text) + 1)
    BY <1>1, <1>2, <1>3
  <2>3. QED
    BY <2>1, <2>2
<1>6. ASSUME NEW x \in S \cup {q}, x < q
      PROVE  NextLexeme(x) \in S \cup {q} /\ \A r \in S \cup {q} : r > x => r >= NextLexeme(x)
  <2>1. x \in S /\ x \in 1..p
    BY <1>3, <1>4, <1>6
  <2>2. CASE x = p
    <3>1. \A r \in S : ~(r > p)
      BY <1>2, <1>4
    <3>2. NextLexeme(x) = q
      BY <2>2
    <3>3. \A r \in S \cup {q} : r > x => r = q
      BY <2>2, <3>1
    <3>4. QED
      BY <1>3, <3>2, <3>3
  <2>3. CASE x # p
    <3>1. x < p /\ p > x
      BY <1>2, <2>1, <2>3
    <3>2. NextLexeme(x) \in S /\ \A r \in S : r > x => r >= NextLexeme(x)
      BY <2>1, <3>1 DEF Cut
    <3>3. PICK n : n = NextLexeme(x)
      OBVIOUS
    <3>30. p >= n /\ n \in Nat
      BY <1>4, <1>40, <3>1, <3>2, <3>3
    <3>4. q >= NextLexeme(x)
      BY <1>2, <1>3, <3>3, <3>30
    <3>5. QED
      BY <3>2, <3>4
  <2>4. QED
    BY <2>2, <2>3
<1>7. 1 \in S \cup {q} /\ q \in S \cup {q}
  BY <1>4
<1>8. Cut(S \cup {q}, q)
  BY <1>5, <1>6, <1>7 DEF Cut
<1>9. QED
  BY <1>2, <1>3, <1>8

LEMMA CutLexing ==
  ASSUME text \in Seq(Chars), NEW S, Cut(S, Len(text) + 1)
  PROVE  S \in Lexings
<1>1. Len(text) \in Nat
  BY TextIs
<1>2. S \in SUBSET (1..(Len(text) + 1)) /\ 1 \in S
  BY DEF Cut
<1>3. ASSUME NEW p \in S, p <= Len(text)
      PROVE  NextLexeme(p) \in S /\ \A q \in S : q > p => q >= NextLexeme(p)
  <2>1. p < Len(text) + 1
    BY <1>1, <1>2, <1>3
  <2>2. QED
    BY <2>1 DEF Cut
<1>4. QED
  BY <1>2, <1>3 DEF Lexings

\* What is not dropped with a comment or a block, or at the end of a command.
Shown(S) ==
  {k \in DOMAIN text : \/ k \in S /\ k \notin Breaks(S) /\ k \notin Blocks
                       \/ \E q \in S : q \in Marks(Quote) /\ q < k /\ k < NextLexeme(q)}

LEMMA BreaksAre ==
  ASSUME NEW S, NEW k
  PROVE  k \in Breaks(S) <=> k \in S /\ (k \in Marks(NL) \/ k \in Marks(Semi) \/ k \in Comments)
BY DEF Breaks

\* In the lexeme that starts at p.
LEMMA ShownAt ==
  ASSUME text \in Seq(Chars), NEW S, NEW p, Cut(S, p), NEW k \in 1..Len(text), p <= k, k = p \/ k < NextLexeme(p)
  PROVE  /\ k \in Shown(S) <=> \/ k = p /\ p \notin Breaks(S) /\ p \notin Blocks
                               \/ k > p /\ p \in Marks(Quote)
         /\ k \in S => k = p
<1>1. Len(text) \in Nat /\ DOMAIN text = 1..Len(text)
  BY TextIs
<1>2. p \in Nat /\ p \in S /\ S \subseteq 1..p /\ k \in Nat
  BY <1>1 DEF Cut
<1>3. k \in S => k = p
  BY <1>2
<1>4. ASSUME NEW q \in S, q < k, k < NextLexeme(q) PROVE q = p
  <2>1. q \in Nat /\ q <= p
    BY <1>2
  <2>2. CASE q < p
    <3>1. PICK n : n = NextLexeme(q)
      OBVIOUS
    <3>2. p > q
      BY <1>2, <2>1, <2>2
    <3>3. p >= n /\ n \in S
      BY <1>2, <2>2, <3>1, <3>2 DEF Cut
    <3>4. n \in Nat /\ k < n
      BY <1>2, <1>4, <3>1, <3>3
    <3>5. QED
      BY <1>2, <3>3, <3>4
  <2>3. QED
    BY <1>2, <2>1, <2>2
<1>5. (\E q \in S : q \in Marks(Quote) /\ q < k /\ k < NextLexeme(q)) <=> k > p /\ p \in Marks(Quote)
  <2>1. k > p => p < k /\ k < NextLexeme(p)
    BY <1>2
  <2>2. p < k => k > p
    BY <1>2
  <2>3. QED
    BY <1>2, <1>4, <2>1, <2>2
<1>6. k \in Shown(S) <=> \/ k \in S /\ k \notin Breaks(S) /\ k \notin Blocks
                         \/ \E q \in S : q \in Marks(Quote) /\ q < k /\ k < NextLexeme(q)
  BY <1>1 DEF Shown
<1>7. QED
  BY <1>2, <1>3, <1>5, <1>6

\* The next lexeme changes nothing before it.
LEMMA ShownBefore ==
  ASSUME text \in Seq(Chars), NEW S, NEW p, Cut(S, p), p <= Len(text), NEW q, q = NextLexeme(p), NEW S2, S2 = S \cup {q},
         NEW k \in Nat, k < q
  PROVE  /\ k \in Shown(S2) <=> k \in Shown(S)
         /\ k \in Breaks(S2) <=> k \in Breaks(S)
<1>1. q \in Nat /\ p < q /\ q <= Len(text) + 1 /\ Len(text) \in Nat
  BY CutNext, TextIs
<1>2. k \in S2 <=> k \in S
  BY <1>1
<1>3. k \in Breaks(S2) <=> k \in Breaks(S)
  BY <1>2, BreaksAre
<1>4. ~(q < k)
  BY <1>1
<1>5. QED
  BY <1>2, <1>3, <1>4 DEF Shown

--------------------------------------------------------------------------------
(* The lines of split_commands are the text that is shown, between the breaks. *)

\* The positions in D are laid out in lines, between the breaks B: where each is.
Layout(D, B, ps, ls, line, col) ==
  /\ ls \in Seq(Seq(Chars)) /\ ls # <<>>
  /\ \A k \in D : /\ line[k] \in 1..Len(ls) /\ col[k] \in 1..Len(ls[line[k]])
                  /\ ls[line[k]][col[k]] = text[k]
  /\ \A n \in 1..Len(ls) : \A z \in 1..Len(ls[n]) : \E k \in D : line[k] = n /\ col[k] = z
  /\ \A k, l \in D : k < l => IF Apart(k, l, B) THEN line[k] < line[l]
                              ELSE line[k] = line[l] /\ col[k] < col[l]
  /\ \A k \in D : line[k] = Len(ls) <=> ~Apart(k, ps, B)

LEMMA LayoutSkip ==
  ASSUME NEW D \in SUBSET Nat, NEW B \in SUBSET Nat, NEW ps \in Nat, \A b \in B : b < ps,
         NEW ls, NEW line, NEW col, Layout(D, B, ps, ls, line, col), NEW ps2 \in Nat, ps <= ps2
  PROVE  Layout(D, B, ps2, ls, line, col)
<1>1. \A k \in D : Apart(k, ps2, B) <=> Apart(k, ps, B)
  <2>1. \A b \in B : b < ps2 /\ b < ps
    OBVIOUS
  <2>2. QED
    BY <2>1 DEF Apart
<1>2. QED
  BY <1>1 DEF Layout

LEMMA LayoutLine ==
  ASSUME NEW D \in SUBSET Nat, NEW B \in SUBSET Nat, NEW ps \in Nat, \A b \in B : b < ps, \A k \in D : k < ps,
         NEW ls, NEW line, NEW col, Layout(D, B, ps, ls, line, col), NEW ps2 \in Nat, ps < ps2
  PROVE  Layout(D, B \cup {ps}, ps2, Append(ls, <<>>), line, col)
<1>1. PICK ls2 : ls2 = Append(ls, <<>>)
  OBVIOUS
<1>2. ls \in Seq(Seq(Chars)) /\ <<>> \in Seq(Chars)
  BY DEF Layout
<1>3. PICK n : n = Len(ls) /\ n \in Nat
  BY <1>2, LenProperties
<1>4. /\ ls2 \in Seq(Seq(Chars)) /\ Len(ls2) = n + 1 /\ ls2[n + 1] = <<>>
      /\ \A i \in 1..n : ls2[i] = ls[i]
  BY <1>1, <1>2, <1>3, AppendProperties
<1>5. ls2 # <<>>
  BY <1>3, <1>4, EmptySeq
<1>6. \A k \in D : line[k] \in 1..n /\ col[k] \in 1..Len(ls[line[k]]) /\ ls[line[k]][col[k]] = text[k]
  BY <1>3 DEF Layout
<1>7. \A k \in D : /\ line[k] \in 1..(n + 1) /\ col[k] \in 1..Len(ls2[line[k]])
                   /\ ls2[line[k]][col[k]] = text[k]
  BY <1>3, <1>4, <1>6
<1>8. ASSUME NEW i \in 1..(n + 1), NEW z \in 1..Len(ls2[i])
      PROVE  \E k \in D : line[k] = i /\ col[k] = z
  <2>1. CASE i = n + 1
    <3>1. Len(ls2[i]) = 0
      BY <1>4, <2>1, EmptySeq
    <3>2. QED
      BY <3>1
  <2>2. CASE i # n + 1
    <3>1. i \in 1..n
      BY <1>3, <2>2
    <3>2. z \in 1..Len(ls[i])
      BY <1>4, <3>1
    <3>3. QED
      BY <1>3, <3>1, <3>2 DEF Layout
  <2>3. QED
    BY <2>1, <2>2
<1>9. ASSUME NEW k \in D, NEW l \in D, k < l
      PROVE  IF Apart(k, l, B \cup {ps}) THEN line[k] < line[l] ELSE line[k] = line[l] /\ col[k] < col[l]
  <2>1. ~(ps < l)
    OBVIOUS
  <2>2. Apart(k, l, B \cup {ps}) <=> Apart(k, l, B)
    BY <2>1 DEF Apart
  <2>3. QED
    BY <1>9, <2>2 DEF Layout
<1>10. ASSUME NEW k \in D PROVE Apart(k, ps2, B \cup {ps}) /\ line[k] # n + 1
  <2>1. k < ps /\ ps < ps2
    OBVIOUS
  <2>2. Apart(k, ps2, B \cup {ps})
    BY <2>1 DEF Apart
  <2>3. line[k] # n + 1
    BY <1>3, <1>6
  <2>4. QED
    BY <2>2, <2>3
<1>11. Layout(D, B \cup {ps}, ps2, ls2, line, col)
  BY <1>4, <1>5, <1>7, <1>8, <1>9, <1>10 DEF Layout
<1>12. QED
  BY <1>1, <1>11

LEMMA LayoutChar ==
  ASSUME NEW D \in SUBSET Nat, NEW B \in SUBSET Nat, NEW ps \in Nat, \A b \in B : b < ps, \A k \in D : k < ps,
         NEW ls, NEW line, NEW col, Layout(D, B, ps, ls, line, col), text[ps] \in Chars
  PROVE  \E line2, col2 : Layout(D \cup {ps}, B, ps + 1, Append(Front(ls), Append(Last(ls), text[ps])), line2, col2)
<1>1. PICK n : n = Len(ls)
  OBVIOUS
<1>2. ls \in Seq(Seq(Chars)) /\ ls # <<>>
  BY DEF Layout
<1>3. PICK last : last = Last(ls) /\ last = ls[n] /\ last \in Seq(Chars) /\ n \in Nat \ {0}
  BY <1>1, <1>2, FrontLast
<1>4. PICK m : m = Len(last) /\ m \in Nat
  BY <1>3, LenProperties
<1>5. PICK last2 : last2 = Append(last, text[ps])
  OBVIOUS
<1>6. /\ last2 \in Seq(Chars) /\ Len(last2) = m + 1 /\ last2[m + 1] = text[ps]
      /\ \A z \in 1..m : last2[z] = last[z]
  BY <1>3, <1>4, <1>5, AppendProperties
<1>7. PICK ls2 : ls2 = Append(Front(ls), last2)
  OBVIOUS
<1>8. /\ ls2 \in Seq(Seq(Chars)) /\ Len(ls2) = n /\ ls2[n] = last2
      /\ \A i \in 1..(n - 1) : ls2[i] = ls[i]
  BY <1>1, <1>2, <1>6, <1>7, ReplaceLast
<1>9. ls2 # <<>>
  BY <1>3, <1>8, EmptySeq
<1>10. PICK line2 : line2 = [k \in Nat |-> IF k = ps THEN n ELSE line[k]]
  OBVIOUS
<1>11. PICK col2 : col2 = [k \in Nat |-> IF k = ps THEN m + 1 ELSE col[k]]
  OBVIOUS
<1>12. /\ line2[ps] = n /\ col2[ps] = m + 1
       /\ \A k \in D : k # ps /\ line2[k] = line[k] /\ col2[k] = col[k]
  BY <1>10, <1>11
<1>13. \A k \in D : line[k] \in 1..n /\ col[k] \in 1..Len(ls[line[k]]) /\ ls[line[k]][col[k]] = text[k]
  BY <1>1 DEF Layout
<1>14. ASSUME NEW k \in D
       PROVE  /\ line2[k] \in 1..n /\ col2[k] \in 1..Len(ls2[line2[k]])
              /\ ls2[line2[k]][col2[k]] = text[k]
  <2>1. line2[k] = line[k] /\ col2[k] = col[k] /\ line[k] \in 1..n /\ col[k] \in 1..Len(ls[line[k]])
        /\ ls[line[k]][col[k]] = text[k]
    BY <1>12, <1>13
  <2>2. CASE line[k] = n
    <3>1. col[k] \in 1..m /\ last[col[k]] = text[k]
      BY <1>3, <1>4, <2>1, <2>2
    <3>2. col[k] \in 1..(m + 1) /\ last2[col[k]] = text[k]
      BY <1>4, <1>6, <3>1
    <3>3. QED
      BY <1>3, <1>6, <1>8, <2>1, <2>2, <3>2
  <2>3. CASE line[k] # n
    <3>1. line[k] \in 1..(n - 1)
      BY <1>3, <2>1, <2>3
    <3>2. QED
      BY <1>8, <2>1, <3>1
  <2>4. QED
    BY <2>2, <2>3
<1>15. /\ line2[ps] \in 1..n /\ col2[ps] \in 1..Len(ls2[line2[ps]])
       /\ ls2[line2[ps]][col2[ps]] = text[ps]
  BY <1>3, <1>4, <1>6, <1>8, <1>12
<1>16. ASSUME NEW i \in 1..n, NEW z \in 1..Len(ls2[i])
       PROVE  \E k \in D \cup {ps} : line2[k] = i /\ col2[k] = z
  <2>1. \A y \in 1..Len(ls[i]) : \E k \in D : line[k] = i /\ col[k] = y
    BY <1>1 DEF Layout
  <2>2. CASE i = n
    <3>1. z \in 1..(m + 1) /\ ls[i] = last
      BY <1>3, <1>6, <1>8, <2>2
    <3>2. CASE z = m + 1
      BY <1>12, <2>2, <3>2
    <3>3. CASE z # m + 1
      <4>1. z \in 1..Len(ls[i])
        BY <1>4, <3>1, <3>3
      <4>2. QED
        BY <1>12, <2>1, <4>1
    <3>4. QED
      BY <3>2, <3>3
  <2>3. CASE i # n
    <3>1. z \in 1..Len(ls[i])
      BY <1>3, <1>8, <2>3
    <3>2. QED
      BY <1>12, <2>1, <3>1
  <2>4. QED
    BY <2>2, <2>3
<1>17. \A k \in D : line[k] = n <=> ~Apart(k, ps, B)
  BY <1>1 DEF Layout
<1>18. ASSUME NEW k \in D \cup {ps}, NEW l \in D \cup {ps}, k < l
       PROVE  IF Apart(k, l, B) THEN line2[k] < line2[l] ELSE line2[k] = line2[l] /\ col2[k] < col2[l]
  <2>1. k \in D
    BY <1>18
  <2>2. CASE l \in D
    BY <1>12, <1>18, <2>1, <2>2 DEF Layout
  <2>3. CASE l = ps
    <3>1. line2[k] = line[k] /\ col2[k] = col[k] /\ line[k] \in 1..n /\ line2[l] = n /\ col2[l] = m + 1
      BY <1>12, <1>13, <2>1, <2>3
    <3>2. CASE Apart(k, l, B)
      <4>1. line[k] # n
        BY <1>17, <2>1, <2>3, <3>2
      <4>2. line[k] < n
        BY <1>3, <3>1, <4>1
      <4>3. QED
        BY <3>1, <3>2, <4>2
    <3>3. CASE ~Apart(k, l, B)
      <4>1. line[k] = n
        BY <1>17, <2>1, <2>3, <3>3
      <4>2. col[k] \in 1..m
        BY <1>3, <1>4, <1>13, <2>1, <4>1
      <4>3. col[k] < m + 1
        BY <1>4, <4>2
      <4>4. QED
        BY <3>1, <3>3, <4>1, <4>3
    <3>4. QED
      BY <3>2, <3>3
  <2>4. QED
    BY <2>2, <2>3
<1>19. ASSUME NEW k \in D \cup {ps} PROVE line2[k] = n <=> ~Apart(k, ps + 1, B)
  <2>1. CASE k = ps
    <3>1. \A b \in B : ~(k < b)
      BY <2>1
    <3>2. QED
      BY <1>12, <2>1, <3>1 DEF Apart
  <2>2. CASE k \in D
    <3>1. \A b \in B : b < ps /\ b < ps + 1
      OBVIOUS
    <3>2. Apart(k, ps + 1, B) <=> Apart(k, ps, B)
      BY <3>1 DEF Apart
    <3>3. QED
      BY <1>12, <1>17, <2>2, <3>2
  <2>3. QED
    BY <2>1, <2>2
<1>20. \A k \in D \cup {ps} : /\ line2[k] \in 1..n /\ col2[k] \in 1..Len(ls2[line2[k]])
                              /\ ls2[line2[k]][col2[k]] = text[k]
  BY <1>14, <1>15
<1>21. Layout(D \cup {ps}, B, ps + 1, ls2, line2, col2)
  BY <1>8, <1>9, <1>16, <1>18, <1>19, <1>20 DEF Layout
<1>22. QED
  BY <1>3, <1>5, <1>7, <1>21

UpTo(X, n) == {k \in X : k < n}

LEMMA UpToNext ==
  ASSUME NEW X \in SUBSET Nat, NEW n \in Nat
  PROVE  /\ n \in X => UpTo(X, n + 1) = UpTo(X, n) \cup {n}
         /\ n \notin X => UpTo(X, n + 1) = UpTo(X, n)
<1>1. \A k \in X : k < n + 1 <=> k < n \/ k = n
  OBVIOUS
<1>2. PICK m : m = n + 1
  OBVIOUS
<1>3. \A k \in X : k < m <=> k < n \/ k = n
  BY <1>1, <1>2
<1>4. /\ n \in X => UpTo(X, m) = UpTo(X, n) \cup {n}
      /\ n \notin X => UpTo(X, m) = UpTo(X, n)
  BY <1>3 DEF UpTo
<1>5. QED
  BY <1>2, <1>4

LEMMA UpToSkip ==
  ASSUME NEW X \in SUBSET Nat, NEW n \in Nat, NEW m \in Nat, n <= m,
         \A k \in X : k >= n => k >= m
  PROVE  UpTo(X, m) = UpTo(X, n)
<1>1. \A k \in X : k < m <=> k < n
  OBVIOUS
<1>2. QED
  BY <1>1 DEF UpTo

LEMMA UpToIs ==
  ASSUME NEW X \in SUBSET Nat, NEW n \in Nat
  PROVE  UpTo(X, n) \in SUBSET Nat /\ \A k \in UpTo(X, n) : k < n
BY DEF UpTo

\* Where split_commands is in the lexeme that starts at p.
Where(S, p, ps, q, b) ==
  /\ Cut(S, p) /\ ps \in 1..(Len(text) + 1)
  /\ q \in BOOLEAN /\ b \in BOOLEAN /\ ~(q /\ b)
  /\ ~q /\ ~b => ps = p
  /\ q => p \in Marks(Quote) /\ p < ps /\ \A k \in QuoteEnds : k > p => k >= ps
  /\ b => p \in Blocks /\ p + 2 <= ps /\ \A k \in Pairs(Colon, Dash) : k >= p + 2 => k >= ps

LaidOut(S, ps, ls, line, col) == Layout(UpTo(Shown(S), ps), UpTo(Breaks(S), ps), ps, ls, line, col)

Laid(S, ps, ls) == \E line, col : LaidOut(S, ps, ls, line, col)

SplitAt(S, p, ps, q, b, ls) == Where(S, p, ps, q, b) /\ Laid(S, ps, ls)
Started(S, p, ls) == SplitAt(S, p, p, FALSE, FALSE, ls)
SplitOK(ps, q, b, ls) == \E S, p : SplitAt(S, p, ps, q, b, ls)

LEMMA SetsOfText ==
  ASSUME text \in Seq(Chars), NEW S, NEW p, Cut(S, p)
  PROVE  Shown(S) \in SUBSET Nat /\ Breaks(S) \in SUBSET Nat
<1>1. Len(text) \in Nat /\ DOMAIN text = 1..Len(text)
  BY TextIs
<1>2. p \in Nat /\ \A k \in S : k \in Nat
  BY <1>1 DEF Cut
<1>3. \A k \in Shown(S) : k \in Nat
  BY <1>1 DEF Shown
<1>4. \A k \in Breaks(S) : k \in Nat
  BY <1>2, BreaksAre
<1>5. QED
  BY <1>3, <1>4

\* Nothing is shown, and no command ends, from ps up to ps2.
LEMMA LaidSkip ==
  ASSUME text \in Seq(Chars), NEW S, NEW p, Cut(S, p), NEW ps \in Nat, NEW ps2 \in Nat, ps <= ps2,
         \A k \in Shown(S) : k >= ps => k >= ps2, \A k \in Breaks(S) : k >= ps => k >= ps2,
         NEW ls, NEW line, NEW col, LaidOut(S, ps, ls, line, col)
  PROVE  LaidOut(S, ps2, ls, line, col)
<1>1. Shown(S) \in SUBSET Nat /\ Breaks(S) \in SUBSET Nat
  BY SetsOfText
<1>2. UpTo(Shown(S), ps2) = UpTo(Shown(S), ps) /\ UpTo(Breaks(S), ps2) = UpTo(Breaks(S), ps)
  BY <1>1, UpToSkip
<1>3. /\ UpTo(Shown(S), ps) \in SUBSET Nat /\ UpTo(Breaks(S), ps) \in SUBSET Nat
      /\ \A b \in UpTo(Breaks(S), ps) : b < ps
  BY <1>1, UpToIs
<1>4. Layout(UpTo(Shown(S), ps), UpTo(Breaks(S), ps), ps2, ls, line, col)
  BY <1>3, LayoutSkip DEF LaidOut
<1>5. QED
  BY <1>2, <1>4 DEF LaidOut

\* The command ends at ps.
LEMMA LaidLine ==
  ASSUME text \in Seq(Chars), NEW S, NEW p, Cut(S, p), NEW ps \in Nat, NEW ps2 \in Nat, ps < ps2,
         \A k \in Shown(S) : k >= ps => k >= ps2, ps \in Breaks(S), \A k \in Breaks(S) : k > ps => k >= ps2,
         NEW ls, NEW line, NEW col, LaidOut(S, ps, ls, line, col)
  PROVE  LaidOut(S, ps2, Append(ls, <<>>), line, col)
<1>1. Shown(S) \in SUBSET Nat /\ Breaks(S) \in SUBSET Nat
  BY SetsOfText
<1>2. UpTo(Shown(S), ps2) = UpTo(Shown(S), ps)
  BY <1>1, UpToSkip
<1>3. UpTo(Breaks(S), ps2) = UpTo(Breaks(S), ps) \cup {ps}
  BY <1>1 DEF UpTo
<1>4. /\ UpTo(Shown(S), ps) \in SUBSET Nat /\ UpTo(Breaks(S), ps) \in SUBSET Nat
      /\ \A b \in UpTo(Breaks(S), ps) : b < ps
      /\ \A k \in UpTo(Shown(S), ps) : k < ps
  BY <1>1, UpToIs
<1>5. Layout(UpTo(Shown(S), ps), UpTo(Breaks(S), ps) \cup {ps}, ps2, Append(ls, <<>>), line, col)
  BY <1>4, LayoutLine DEF LaidOut
<1>6. QED
  BY <1>2, <1>3, <1>5 DEF LaidOut

\* The character at ps is kept.
LEMMA LaidChar ==
  ASSUME text \in Seq(Chars), NEW S, NEW p, Cut(S, p), NEW ps \in 1..Len(text),
         ps \in Shown(S), ps \notin Breaks(S),
         NEW ls, NEW line, NEW col, LaidOut(S, ps, ls, line, col)
  PROVE  \E line2, col2 : LaidOut(S, ps + 1, Append(Front(ls), Append(Last(ls), text[ps])), line2, col2)
<1>0. ps \in Nat /\ text[ps] \in Chars
  BY TextIs
<1>1. Shown(S) \in SUBSET Nat /\ Breaks(S) \in SUBSET Nat
  BY SetsOfText
<1>2. UpTo(Shown(S), ps + 1) = UpTo(Shown(S), ps) \cup {ps} /\ UpTo(Breaks(S), ps + 1) = UpTo(Breaks(S), ps)
  BY <1>0, <1>1, UpToNext
<1>3. /\ UpTo(Shown(S), ps) \in SUBSET Nat /\ UpTo(Breaks(S), ps) \in SUBSET Nat
      /\ \A b \in UpTo(Breaks(S), ps) : b < ps
      /\ \A k \in UpTo(Shown(S), ps) : k < ps
  BY <1>0, <1>1, UpToIs
<1>4. PICK line2, col2 :
        Layout(UpTo(Shown(S), ps) \cup {ps}, UpTo(Breaks(S), ps), ps + 1,
               Append(Front(ls), Append(Last(ls), text[ps])), line2, col2)
  BY <1>0, <1>3, LayoutChar DEF LaidOut
<1>5. QED
  BY <1>2, <1>4 DEF LaidOut

\* At the end of the lexeme.
LEMMA LexemeEnds ==
  ASSUME text \in Seq(Chars), NEW S, NEW p, Cut(S, p), p <= Len(text), NEW q, q = NextLexeme(p), NEW ls,
         Laid(S, q, ls)
  PROVE  \E S2 : Started(S2, q, ls)
<1>1. PICK S2 : S2 = S \cup {q}
  OBVIOUS
<1>2. Cut(S2, q) /\ q \in Nat /\ q <= Len(text) + 1 /\ p \in 1..Len(text) /\ p < q
  BY <1>1, CutNext
<1>3. Where(S2, q, q, FALSE, FALSE)
  BY <1>2, TextIs DEF Where
<1>4. \A k \in Nat : k < q => (k \in Shown(S2) <=> k \in Shown(S)) /\ (k \in Breaks(S2) <=> k \in Breaks(S))
  BY <1>1, ShownBefore
<1>5. Shown(S) \in SUBSET Nat /\ Breaks(S) \in SUBSET Nat
  BY SetsOfText
<1>6. Shown(S2) \in SUBSET Nat /\ Breaks(S2) \in SUBSET Nat
  BY <1>2, SetsOfText
<1>7. UpTo(Shown(S2), q) = UpTo(Shown(S), q)
  BY <1>4, <1>5, <1>6 DEF UpTo
<1>8. UpTo(Breaks(S2), q) = UpTo(Breaks(S), q)
  BY <1>4, <1>5, <1>6 DEF UpTo
<1>9. Laid(S2, q, ls)
  BY <1>7, <1>8 DEF Laid, LaidOut
<1>10. QED
  BY <1>3, <1>9 DEF SplitAt, Started

--------------------------------------------------------------------------------
(* The turns of split_commands.                                               *)

\* The turns of split_commands.

\* A turn that drops what is in a block.
LEMMA BlockTurn ==
  ASSUME text \in Seq(Chars), NEW S, NEW p, NEW ps \in 1..Len(text), NEW ls, SplitAt(S, p, ps, FALSE, TRUE, ls)
  PROVE  /\ ps \in Pairs(Colon, Dash) => SplitOK(ps + 2, FALSE, FALSE, ls)
         /\ ps \notin Pairs(Colon, Dash) => SplitOK(ps + 1, FALSE, TRUE, ls)
<1>1. Len(text) \in Nat /\ ps \in Nat
  BY TextIs
<1>2. /\ Cut(S, p) /\ p \in Blocks /\ p + 2 <= ps
      /\ \A k \in Pairs(Colon, Dash) : k >= p + 2 => k >= ps
  BY DEF SplitAt, Started, Where
<1>3. p \in 1..Len(text) /\ p \notin Marks(Quote)
  BY <1>1, <1>2, TextIs, KindsApart DEF Blocks, Pairs
<1>4. PICK q : q = NextLexeme(p)
  OBVIOUS
<1>5. q \in Nat /\ ps <= q /\ q <= Len(text) + 1 /\ (ps \in Pairs(Colon, Dash) => q = ps + 2)
  BY <1>1, <1>2, <1>4, NextBlock
<1>6. \A k \in 1..Len(text) : p < k /\ k < q => k \notin Shown(S) /\ k \notin S
  BY <1>2, <1>3, <1>4, ShownAt
<1>7. Shown(S) \subseteq 1..Len(text) /\ Breaks(S) \subseteq 1..Len(text)
  BY TextIs DEF Shown, Breaks, Marks, Comments, Pairs
<1>8. \A k \in Breaks(S) : k \in S
  BY BreaksAre
<1>9. PICK line, col : LaidOut(S, ps, ls, line, col)
  BY DEF SplitAt, Laid, Started
<1>10. ASSUME NEW ps2 \in Nat, ps <= ps2, ps2 <= q PROVE LaidOut(S, ps2, ls, line, col)
  <2>1. ASSUME NEW k \in 1..Len(text), k >= ps, k < ps2 PROVE k \notin Shown(S) /\ k \notin Breaks(S)
    BY <1>1, <1>2, <1>3, <1>5, <1>6, <1>8, <1>10, <2>1
  <2>2. (\A k \in Shown(S) : k >= ps => k >= ps2) /\ (\A k \in Breaks(S) : k >= ps => k >= ps2)
    BY <1>7, <2>1
  <2>3. QED
    BY <1>1, <1>2, <1>9, <1>10, <2>2, LaidSkip
<1>11. ASSUME ps \in Pairs(Colon, Dash) PROVE SplitOK(ps + 2, FALSE, FALSE, ls)
  <2>1. Laid(S, q, ls)
    BY <1>5, <1>10 DEF Laid
  <2>2. \E S2 : Started(S2, q, ls)
    BY <1>1, <1>2, <1>3, <1>4, <2>1, LexemeEnds
  <2>3. QED
    BY <1>5, <1>11, <2>2 DEF SplitOK, Started
<1>12. ASSUME ps \notin Pairs(Colon, Dash) PROVE SplitOK(ps + 1, FALSE, TRUE, ls)
  <2>1. PICK ps2 : ps2 = ps + 1 /\ ps2 \in Nat /\ ps <= ps2 /\ ps2 <= Len(text) + 1
    BY <1>1
  <2>2. \A k \in Pairs(Colon, Dash) : k \in 1..Len(text)
    BY TextIs DEF Pairs
  <2>3. \A k \in Pairs(Colon, Dash) : k >= p + 2 => k >= ps2
    BY <1>1, <1>2, <1>12, <2>1, <2>2
  <2>4. p + 2 <= ps2 /\ ps2 \in 1..(Len(text) + 1)
    BY <1>1, <1>2, <1>3, <2>1
  <2>5. ps2 <= q
    BY <1>2, <1>4, <2>1, <2>3, <2>4, NextBlock
  <2>6. LaidOut(S, ps2, ls, line, col)
    BY <1>10, <2>1, <2>5
  <2>7. Where(S, p, ps2, FALSE, TRUE)
    BY <1>2, <2>3, <2>4 DEF Where
  <2>8. QED
    BY <2>1, <2>6, <2>7 DEF SplitAt, SplitOK, Laid, Started
<1>13. QED
  BY <1>11, <1>12

\* The end of a line closes a quote.
LEMMA QuoteClosed ==
  ASSUME text \in Seq(Chars), NEW S, NEW p, NEW ps \in 1..Len(text), NEW ls, SplitAt(S, p, ps, TRUE, FALSE, ls),
         text[ps] = NL
  PROVE  \E S2 : Started(S2, ps, ls)
<1>1. Len(text) \in Nat /\ ps \in Nat
  BY TextIs
<1>2. Cut(S, p) /\ p \in Marks(Quote) /\ p < ps /\ \A k \in QuoteEnds : k > p => k >= ps
  BY DEF SplitAt, Started, Where
<1>3. p \in 1..Len(text)
  BY <1>2, TextIs DEF Marks
<1>4. NextLexeme(p) = ps
  BY <1>1, <1>2, NextQuote
<1>5. \E S2 : Started(S2, ps, ls)
  <2>1. Laid(S, ps, ls) /\ p <= Len(text)
    BY <1>1, <1>3 DEF SplitAt
  <2>2. QED
    BY <1>2, <1>4, <2>1, LexemeEnds
<1>6. QED
  BY <1>5

\* What ends a command: the end of a line, a semicolon, a comment.
LEMMA BreakTurn ==
  ASSUME text \in Seq(Chars), NEW S, NEW p \in 1..Len(text), NEW ls, Started(S, p, ls),
         p \in Marks(NL) \/ p \in Marks(Semi) \/ p \in Comments
  PROVE  SplitOK(NextLexeme(p), FALSE, FALSE, Append(ls, <<>>))
<1>1. Len(text) \in Nat /\ p \in Nat
  BY TextIs
<1>2. Cut(S, p)
  BY DEF SplitAt, Started, Where
<1>3. p \in S /\ p \in Breaks(S)
  BY <1>2, BreaksAre DEF Cut
<1>4. p \notin Marks(Quote)
  BY KindsApart DEF Marks, Quote, NL, Semi
<1>5. PICK q : q = NextLexeme(p)
  OBVIOUS
<1>6. q \in Nat /\ p < q
  BY <1>5, LexemeIs
<1>7. \A k \in 1..Len(text) : p <= k /\ k < q => k \notin Shown(S) /\ (k \in S => k = p)
  BY <1>1, <1>2, <1>3, <1>4, <1>5, ShownAt
<1>8. Shown(S) \subseteq 1..Len(text) /\ Breaks(S) \subseteq 1..Len(text)
  BY TextIs DEF Shown, Breaks, Marks, Comments, Pairs
<1>9. \A k \in Breaks(S) : k \in S
  BY BreaksAre
<1>10. PICK line, col : LaidOut(S, p, ls, line, col)
  BY DEF SplitAt, Laid, Started
<1>11. (\A k \in Shown(S) : k >= p => k >= q) /\ (\A k \in Breaks(S) : k > p => k >= q)
  BY <1>1, <1>6, <1>7, <1>8, <1>9
<1>12. PICK ls2 : ls2 = Append(ls, <<>>)
  OBVIOUS
<1>13. Laid(S, q, ls2)
  BY <1>1, <1>2, <1>3, <1>6, <1>10, <1>11, <1>12, LaidLine DEF Laid
<1>14. \E S2 : Started(S2, q, ls2)
  BY <1>1, <1>2, <1>5, <1>13, LexemeEnds
<1>15. QED
  BY <1>5, <1>12, <1>14 DEF SplitOK, Started

\* What is kept in a quote.
LEMMA QuotedTurn ==
  ASSUME text \in Seq(Chars), NEW S, NEW p, NEW ps \in 1..Len(text), NEW ls, SplitAt(S, p, ps, TRUE, FALSE, ls),
         text[ps] # NL
  PROVE  SplitOK(ps + 1, text[ps] # Quote, FALSE, Append(Front(ls), Append(Last(ls), text[ps])))
<1>1. Len(text) \in Nat /\ ps \in Nat
  BY TextIs
<1>2. Cut(S, p) /\ p \in Marks(Quote) /\ p < ps /\ \A k \in QuoteEnds : k > p => k >= ps
  BY DEF SplitAt, Started, Where
<1>3. p \in 1..Len(text)
  BY <1>2, TextIs DEF Marks
<1>4. PICK q : q = NextLexeme(p)
  OBVIOUS
<1>5. ps < q /\ (text[ps] = Quote => q = ps + 1) /\ q \in Nat
  <2>1. q \in Nat /\ (text[ps] = Quote => q = ps + 1) /\ (text[ps] \notin {Quote, NL} => ps < q)
    BY <1>1, <1>2, <1>4, NextQuote
  <2>2. QED
    BY <1>1, <2>1
<1>6. ps \in Shown(S) /\ ps \notin S
  BY <1>1, <1>2, <1>3, <1>4, <1>5, ShownAt
<1>7. ps \notin Breaks(S)
  BY <1>6, BreaksAre
<1>8. PICK ls2 : ls2 = Append(Front(ls), Append(Last(ls), text[ps]))
  OBVIOUS
<1>9. PICK ps2 : ps2 = ps + 1 /\ ps2 \in Nat /\ ps2 \in 1..(Len(text) + 1)
  BY <1>1
<1>10. Laid(S, ps2, ls2)
  BY <1>2, <1>6, <1>7, <1>8, <1>9, LaidChar DEF SplitAt, Laid, Started
<1>11. CASE text[ps] = Quote
  <2>1. \E S2 : Started(S2, q, ls2)
    BY <1>1, <1>2, <1>3, <1>4, <1>5, <1>9, <1>10, <1>11, LexemeEnds
  <2>2. (text[ps] # Quote) = FALSE
    BY <1>11
  <2>3. SplitOK(ps2, FALSE, FALSE, ls2)
    BY <1>5, <1>9, <1>11, <2>1 DEF SplitOK, Started
  <2>4. QED
    BY <1>8, <1>9, <2>2, <2>3
<1>12. CASE text[ps] # Quote
  <2>1. \A k \in QuoteEnds : k \in 1..Len(text) /\ text[k] \in {Quote, NL}
    BY TextIs DEF QuoteEnds, Marks
  <2>2. \A k \in QuoteEnds : k > p => k >= ps2
    BY <1>1, <1>2, <1>9, <1>12, <2>1
  <2>3. p < ps2
    BY <1>1, <1>2, <1>3, <1>9
  <2>4. Where(S, p, ps2, TRUE, FALSE)
    BY <1>2, <1>9, <2>2, <2>3 DEF Where
  <2>5. (text[ps] # Quote) = TRUE
    BY <1>12
  <2>6. SplitOK(ps2, TRUE, FALSE, ls2)
    BY <1>10, <2>4 DEF SplitAt, SplitOK, Laid, Started
  <2>7. QED
    BY <1>8, <1>9, <2>5, <2>6
<1>13. QED
  BY <1>11, <1>12

\* What is kept outside quotes, and what opens a quote.
LEMMA KeptTurn ==
  ASSUME text \in Seq(Chars), NEW S, NEW p \in 1..Len(text), NEW ls, Started(S, p, ls),
         p \notin Marks(NL), p \notin Marks(Semi), p \notin Comments, p \notin Blocks
  PROVE  SplitOK(p + 1, text[p] = Quote, FALSE, Append(Front(ls), Append(Last(ls), text[p])))
<1>1. Len(text) \in Nat /\ p \in Nat /\ DOMAIN text = 1..Len(text)
  BY TextIs
<1>2. Cut(S, p) /\ p \in S
  BY DEF SplitAt, Started, Where, Cut
<1>3. p \notin Breaks(S)
  BY BreaksAre
<1>4. p \in Shown(S)
  BY <1>1, <1>2, <1>3 DEF Shown
<1>5. PICK ls2 : ls2 = Append(Front(ls), Append(Last(ls), text[p]))
  OBVIOUS
<1>6. PICK ps2 : ps2 = p + 1 /\ ps2 \in Nat /\ ps2 \in 1..(Len(text) + 1)
  BY <1>1
<1>7. Laid(S, ps2, ls2)
  BY <1>2, <1>3, <1>4, <1>5, <1>6, LaidChar DEF SplitAt, Laid, Started
<1>8. p \in Marks(Quote) <=> text[p] = Quote
  BY <1>1 DEF Marks
<1>9. CASE text[p] = Quote
  <2>1. \A k \in QuoteEnds : k \in 1..Len(text)
    BY TextIs DEF QuoteEnds, Marks
  <2>2. \A k \in QuoteEnds : k > p => k >= ps2
    BY <1>1, <1>6, <2>1
  <2>3. p < ps2
    BY <1>1, <1>6
  <2>4. Where(S, p, ps2, TRUE, FALSE)
    BY <1>2, <1>6, <1>8, <1>9, <2>2, <2>3 DEF Where
  <2>5. (text[p] = Quote) = TRUE
    BY <1>9
  <2>6. SplitOK(ps2, TRUE, FALSE, ls2)
    BY <1>7, <2>4 DEF SplitAt, SplitOK, Laid, Started
  <2>7. QED
    BY <1>5, <1>6, <2>5, <2>6
<1>10. CASE text[p] # Quote
  <2>1. NextLexeme(p) = ps2
    BY <1>6, <1>8, <1>10, NextOther
  <2>2. \E S2 : Started(S2, ps2, ls2)
    BY <1>1, <1>2, <1>7, <2>1, LexemeEnds
  <2>3. (text[p] = Quote) = FALSE
    BY <1>10
  <2>4. SplitOK(ps2, FALSE, FALSE, ls2)
    BY <2>2 DEF SplitOK, Started
  <2>5. QED
    BY <1>5, <1>6, <2>3, <2>4
<1>11. QED
  BY <1>9, <1>10

\* What opens a block.
LEMMA BlockOpens ==
  ASSUME text \in Seq(Chars), NEW S, NEW p \in 1..Len(text), NEW ls, Started(S, p, ls), p \in Blocks
  PROVE  SplitOK(p + 2, FALSE, TRUE, ls)
<1>1. Len(text) \in Nat /\ p \in Nat
  BY TextIs
<1>2. Cut(S, p) /\ p \in S
  BY DEF SplitAt, Started, Where, Cut
<1>3. p \notin Marks(Quote)
  BY KindsApart
<1>4. PICK ps2 : ps2 = p + 2 /\ ps2 \in Nat /\ p <= ps2
  BY <1>1
<1>5. ps2 <= Len(text) + 1 /\ ps2 \in 1..(Len(text) + 1)
  BY <1>1, <1>4, TextIs DEF Blocks, Pairs
<1>6. \A k \in Pairs(Colon, Dash) : k >= p + 2 => k >= ps2
  BY <1>4
<1>7. p + 2 <= ps2
  BY <1>1, <1>4
<1>8. PICK q : q = NextLexeme(p)
  OBVIOUS
<1>9. q \in Nat /\ ps2 <= q
  BY <1>4, <1>5, <1>6, <1>7, <1>8, NextBlock
<1>10. p \notin Breaks(S)
  BY <1>1, BreaksAre, KindsApart DEF Blocks, Pairs, Marks, NL, Semi, Dash
<1>11. \A k \in 1..Len(text) : p <= k /\ k < q => k \notin Shown(S) /\ k \notin Breaks(S)
  BY <1>1, <1>2, <1>3, <1>8, <1>10, ShownAt, BreaksAre
<1>12. Shown(S) \subseteq 1..Len(text) /\ Breaks(S) \subseteq 1..Len(text)
  BY TextIs DEF Shown, Breaks, Marks, Comments, Pairs
<1>13. (\A k \in Shown(S) : k >= p => k >= ps2) /\ (\A k \in Breaks(S) : k >= p => k >= ps2)
  BY <1>1, <1>4, <1>9, <1>11, <1>12
<1>14. PICK line, col : LaidOut(S, p, ls, line, col)
  BY DEF SplitAt, Laid, Started
<1>15. LaidOut(S, ps2, ls, line, col)
  BY <1>1, <1>2, <1>4, <1>13, <1>14, LaidSkip
<1>16. Where(S, p, ps2, FALSE, TRUE)
  BY <1>2, <1>5, <1>6, <1>7 DEF Where
<1>17. QED
  BY <1>4, <1>15, <1>16 DEF SplitAt, SplitOK, Laid, Started

\* At the end of the text every lexeme has ended.
LEMMA TextEnds ==
  ASSUME text \in Seq(Chars), NEW q, NEW b, NEW ls, NEW ps, SplitOK(ps, q, b, ls), ps > Len(text)
  PROVE  \E S \in Lexings : \E line, col : Layout(Shown(S), Breaks(S), ps, ls, line, col)
<1>1. PICK S, p : SplitAt(S, p, ps, q, b, ls)
  BY DEF SplitOK, Started
<1>2. Where(S, p, ps, q, b) /\ Cut(S, p) /\ Len(text) \in Nat
  BY <1>1, TextIs DEF SplitAt, Started, Where
<1>3. ps = Len(text) + 1 /\ ps \in Nat
  BY <1>2 DEF Where
<1>4. \E S2 : Started(S2, ps, ls)
  <2>1. CASE ~q /\ ~b
    <3>1. ps = p /\ q = FALSE /\ b = FALSE
      BY <1>2, <2>1 DEF Where
    <3>2. QED
      BY <1>1, <3>1 DEF Started
  <2>2. CASE q
    <3>1. p \in Marks(Quote) /\ p < ps /\ \A k \in QuoteEnds : k > p => k >= ps
      BY <1>2, <2>2 DEF Where
    <3>2. p \in 1..Len(text)
      BY <3>1, TextIs DEF Marks
    <3>3. ps <= NextLexeme(p) /\ NextLexeme(p) <= Len(text) + 1 /\ NextLexeme(p) \in Nat
      BY <1>2, <1>3, <3>1, NextQuote
    <3>4. NextLexeme(p) = ps
      BY <1>2, <1>3, <3>3
    <3>5. Laid(S, ps, ls) /\ p <= Len(text)
      BY <1>1, <1>2, <3>2 DEF SplitAt
    <3>6. QED
      BY <1>2, <3>4, <3>5, LexemeEnds
  <2>3. CASE b
    <3>1. p \in Blocks /\ p + 2 <= ps /\ \A k \in Pairs(Colon, Dash) : k >= p + 2 => k >= ps
      BY <1>2, <2>3 DEF Where
    <3>2. p \in 1..Len(text)
      BY <3>1, TextIs DEF Blocks, Pairs
    <3>3. ps <= NextLexeme(p) /\ NextLexeme(p) <= Len(text) + 1 /\ NextLexeme(p) \in Nat
      BY <1>2, <1>3, <3>1, NextBlock
    <3>4. NextLexeme(p) = ps
      BY <1>2, <1>3, <3>3
    <3>5. Laid(S, ps, ls) /\ p <= Len(text)
      BY <1>1, <1>2, <3>2 DEF SplitAt
    <3>6. QED
      BY <1>2, <3>4, <3>5, LexemeEnds
  <2>4. QED
    BY <2>1, <2>2, <2>3
<1>5. PICK S2 : Started(S2, ps, ls)
  BY <1>4
<1>6. Cut(S2, ps)
  BY <1>5 DEF SplitAt, Started, Where
<1>7. S2 \in Lexings
  BY <1>3, <1>6, CutLexing
<1>8. Shown(S2) \subseteq 1..Len(text) /\ Breaks(S2) \subseteq 1..Len(text)
  BY TextIs DEF Shown, Breaks, Marks, Comments, Pairs
<1>9. \A k \in 1..Len(text) : k < ps
  BY <1>2, <1>3
<1>10. UpTo(Shown(S2), ps) = Shown(S2) /\ UpTo(Breaks(S2), ps) = Breaks(S2)
  BY <1>8, <1>9 DEF UpTo
<1>11. \E line, col : Layout(Shown(S2), Breaks(S2), ps, ls, line, col)
  BY <1>5, <1>10 DEF SplitAt, Started, Laid, LaidOut
<1>12. QED
  BY <1>7, <1>11

--------------------------------------------------------------------------------
(* The words and the commands, among the positions of the text.               *)

\* Words and commands, among the positions of the text.
Rising == {x \in Nat \X Nat : x[1] < x[2]}

LEMMA SeqIsFcn ==
  ASSUME NEW T, NEW s \in Seq(T)
  PROVE  s = [i \in 1..Len(s) |-> s[i]]
OBVIOUS

LEMMA InOrderBy ==
  ASSUME NEW T, NEW s \in Seq(T), NEW A, NEW val, NEW R, Orders(s, A, val, R), Asymmetric(A, R),
         \A x, y \in A : <<x, y>> \in R <=> x < y
  PROVE  s = InOrder(A, val)
<1>3. /\ Len(s) = Cardinality(A)
      /\ \A x \in A : s[1 + Cardinality(Under(x, A, R))] = val[x]
      /\ \A j \in 1..Len(s) : \E x \in A : Cardinality(Under(x, A, R)) = j - 1
  BY OrdersRank
<1>. DEFINE C(x) == Cardinality({y \in A : y < x})
<1>4. \A x \in A : C(x) = Cardinality(Under(x, A, R))
  <2>1. ASSUME NEW x \in A PROVE Under(x, A, R) = {y \in A : y < x}
    BY DEF Under
  <2>2. QED
    BY <2>1
<1>5. Len(s) \in Nat
  BY LenProperties
<1>6. ASSUME NEW j \in 1..Len(s) PROVE s[j] = val[CHOOSE k \in A : C(k) = j - 1]
  <2>. HIDE DEF C
  <2>1. \E x \in A : C(x) = j - 1
    BY <1>3, <1>4
  <2>2. PICK k : k = CHOOSE x \in A : C(x) = j - 1
    OBVIOUS
  <2>3. k \in A /\ C(k) = j - 1
    BY <2>1, <2>2
  <2>4. s[1 + (j - 1)] = val[k]
    BY <1>3, <1>4, <2>3
  <2>5. 1 + (j - 1) = j
    BY <1>5
  <2>6. QED
    BY <2>2, <2>4, <2>5
<1>7. s = [j \in 1..Len(s) |-> s[j]]
  BY SeqIsFcn
<1>8. s = [j \in 1..Len(s) |-> val[CHOOSE k \in A : C(k) = j - 1]]
  <2>. HIDE DEF C
  <2>1. QED
    BY <1>6, <1>7
<1>9. QED
  BY <1>3, <1>8 DEF InOrder

LEMMA InOrderIs ==
  ASSUME NEW T, NEW s \in Seq(T), NEW A \in SUBSET Nat, NEW val, Orders(s, A, val, Rising)
  PROVE  s = InOrder(A, val)
<1>1. \A x, y \in A : <<x, y>> \in Rising <=> x < y
  BY DEF Rising
<1>2. Asymmetric(A, Rising)
  BY <1>1 DEF Asymmetric
<1>3. QED
  BY <1>1, <1>2, InOrderBy

LEMMA OrdersAppend ==
  ASSUME NEW T, NEW s \in Seq(T), NEW A \in SUBSET Nat, NEW val, Orders(s, A, val, Rising),
         NEW x \in Nat, \A y \in A : y < x, val[x] \in T
  PROVE  Orders(Append(s, val[x]), A \cup {x}, val, Rising)
<1>0. PICK t : t = <<val[x]>>
  OBVIOUS
<1>1. t \in Seq(T)
  BY <1>0
<1>2. Orders(t, {x}, val, Rising)
  BY <1>0, OrdersOne
<1>3. \A y \in A, z \in {x} : <<y, z>> \in Rising
  BY DEF Rising
<1>4. Orders(s \o t, A \cup {x}, val, Rising)
  BY <1>1, <1>2, <1>3, OrdersConcat
<1>5. Append(s, val[x]) = s \o t
  BY <1>0, AppendIsConcat
<1>6. QED
  BY <1>4, <1>5

LEMMA LexingIs ==
  ASSUME text \in Seq(Chars), NEW S \in Lexings
  PROVE  /\ S \subseteq 1..(Len(text) + 1) /\ \A k \in S : k \in Nat
         /\ \A p, q \in S : p <= Len(text) /\ p < q => NextLexeme(p) <= q
         /\ \A p \in S : p <= Len(text) => NextLexeme(p) \in S
<1>1. Len(text) \in Nat
  BY TextIs
<1>2. S \in SUBSET (1..(Len(text) + 1))
      /\ \A p \in S : p <= Len(text) => NextLexeme(p) \in S /\ \A q \in S : q > p => q >= NextLexeme(p)
  BY DEF Lexings
<1>3. \A k \in S : k \in Nat
  BY <1>1, <1>2
<1>4. ASSUME NEW p \in S, NEW q \in S, p <= Len(text), p < q PROVE NextLexeme(p) <= q
  <2>1. PICK n : n = NextLexeme(p)
    OBVIOUS
  <2>2. n \in S /\ q >= n
    BY <1>2, <1>3, <1>4, <2>1
  <2>3. QED
    BY <1>3, <2>1, <2>2
<1>5. QED
  BY <1>2, <1>3, <1>4

\* What the characters of words are: shown, and neither a quote nor a gap.
LEMMA SpeltIs ==
  ASSUME text \in Seq(Chars), NEW S \in Lexings
  PROVE  /\ \A k : k \in Spelt(S) <=> k \in Shown(S) /\ text[k] # Quote /\ k \notin Ends(S)
         /\ \A k \in Ends(S) : k \in Breaks(S) \/ k \in Shown(S)
         /\ \A k \in Breaks(S) : k \in Ends(S) /\ k \notin Shown(S)
         /\ Shown(S) \subseteq 1..Len(text) /\ \A k \in Ends(S) : k \in 1..Len(text) /\ k \in S
<1>1. DOMAIN text = 1..Len(text) /\ Len(text) \in Nat
  BY TextIs
<1>2. \A k : k \in Ends(S) <=> k \in Breaks(S) \/ (k \in S /\ k \in Marks(Gap))
  BY DEF Ends
<1>3. \A k : k \in Shown(S) <=> k \in 1..Len(text) /\
        (\/ k \in S /\ k \notin Breaks(S) /\ k \notin Blocks
         \/ \E q \in S : q \in Marks(Quote) /\ q < k /\ k < NextLexeme(q))
  BY <1>1 DEF Shown
<1>4. \A k : k \in Marks(Quote) => k \in 1..Len(text)
  BY <1>1 DEF Marks
<1>5. \A k : k \in Spelt(S) <=> k \in 1..Len(text) /\ text[k] # Quote /\
        (\/ k \in S /\ k \notin Ends(S) /\ k \notin Blocks
         \/ \E q \in S : q \in Marks(Quote) /\ q < k /\ k < NextLexeme(q))
  BY <1>1 DEF Spelt, Marks
<1>6. ASSUME NEW k \in S, NEW q \in S, q \in Marks(Quote), q < k, k < NextLexeme(q) PROVE FALSE
  <2>1. q \in 1..Len(text) /\ q <= Len(text)
    BY <1>1, <1>4, <1>6
  <2>2. NextLexeme(q) <= k
    BY <1>6, <2>1, LexingIs
  <2>3. k \in Nat /\ NextLexeme(q) \in Nat
    BY <2>1, LexingIs, LexemeIs
  <2>4. QED
    BY <1>6, <2>2, <2>3
<1>7. \A k \in Breaks(S) : k \in S
  BY BreaksAre
<1>8. \A k \in Ends(S) : k \in S
  BY <1>2, <1>7
<1>9. \A k : k \in Spelt(S) <=> k \in Shown(S) /\ text[k] # Quote /\ k \notin Ends(S)
  BY <1>2, <1>3, <1>5, <1>6, <1>8
<1>10. \A k \in Marks(Gap) : k \notin Blocks /\ k \in 1..Len(text)
  BY <1>1 DEF Marks, Blocks, Pairs, Gap, Dash
<1>11. \A k \in Ends(S) : k \in Breaks(S) \/ k \in Shown(S)
  BY <1>2, <1>3, <1>10
<1>12. \A k \in Breaks(S) : k \in 1..Len(text)
  BY <1>1 DEF Breaks, Marks, Comments, Pairs
<1>13. \A k \in Breaks(S) : k \in Ends(S) /\ k \notin Shown(S)
  BY <1>2, <1>3, <1>6, <1>7
<1>14. \A k \in Ends(S) : k \in 1..Len(text)
  BY <1>2, <1>10, <1>12
<1>15. QED
  BY <1>3, <1>8, <1>9, <1>11, <1>13, <1>14

\* tokenise: O is what it has read of the text in the lines before, E in the line it
\* is in.
ReadSoFar(S, O, E) ==
  /\ O \subseteq Shown(S) /\ E \subseteq Shown(S) /\ \A k \in E : k \notin O
  /\ \A k \in O, l \in Shown(S) : l \notin O => k < l /\ Apart(k, l, Breaks(S))
  /\ \A k, l \in E : ~Apart(k, l, Breaks(S))
  /\ \A k \in E, l \in Shown(S) : l \notin O /\ l \notin E => k < l

\* The word it is in, where those before it in the line start, and whether a quote
\* is open.
Current(S, E) == {k \in E : k \in Spelt(S) /\ \A g \in E : g \in Ends(S) => g < k}
Done(S, E) == {k \in E : k \in Starts(S, Ends(S)) /\ \E g \in E : g \in Ends(S) /\ k < g}
Opened(S, E) ==
  \E q \in E : /\ q \in S /\ q \in Marks(Quote)
               /\ \A j \in E : j > q => j < NextLexeme(q) /\ text[j] # Quote

\* A quote ends at a quote, at the end of its line or of the text, and holds neither.
LEMMA QuoteShape ==
  ASSUME text \in Seq(Chars), NEW q \in Marks(Quote), NEW n, n = NextLexeme(q)
  PROVE  /\ n = Len(text) + 1 \/ (n \in 1..Len(text) /\ text[n] = NL)
            \/ (q < n - 1 /\ n - 1 \in 1..Len(text) /\ text[n - 1] = Quote)
         /\ \A j \in 1..Len(text) : q < j /\ j + 1 < n => text[j] # Quote
<1>1. DOMAIN text = 1..Len(text) /\ Len(text) \in Nat
  BY TextIs
<1>2. q \in 1..Len(text) /\ q \in Nat
  BY <1>1 DEF Marks
<1>3. PICK r : r = q + 1
  OBVIOUS
<1>4. r \in Nat
  BY <1>2, <1>3
<1>5. PICK A : A = QuoteEnds
  OBVIOUS
<1>6. A \subseteq 1..Len(text)
  BY <1>1, <1>5 DEF QuoteEnds, Marks
<1>7. PICK e : e = FirstIn(A, r)
  OBVIOUS
<1>8. /\ e \in Nat /\ e <= Len(text) + 1
      /\ e = Len(text) + 1 \/ (e \in A /\ e >= r)
      /\ \A k \in A : k >= r => e <= k
  BY <1>4, <1>6, <1>7, FirstIs
<1>9. n = IF e \in Marks(Quote) THEN e + 1 ELSE e
  <2>1. NextLexeme(q) = AfterQuote(q)
    BY KindsApart DEF NextLexeme
  <2>2. AfterQuote(q) = IF e \in Marks(Quote) THEN e + 1 ELSE e
    BY <1>3, <1>5, <1>7 DEF AfterQuote
  <2>3. QED
    BY <2>1, <2>2
<1>10. n = Len(text) + 1 \/ (n \in 1..Len(text) /\ text[n] = NL)
            \/ (q < n - 1 /\ n - 1 \in 1..Len(text) /\ text[n - 1] = Quote)
  <2>1. CASE e \in Marks(Quote)
    <3>1. e \in 1..Len(text) /\ text[e] = Quote /\ n = e + 1
      BY <1>1, <1>9, <2>1 DEF Marks
    <3>2. n - 1 = e
      BY <1>8, <3>1
    <3>3. e >= r
      BY <1>1, <1>8, <3>1
    <3>4. QED
      BY <1>2, <1>3, <1>8, <3>1, <3>2, <3>3
  <2>2. CASE e \notin Marks(Quote)
    <3>1. n = e
      BY <1>9, <2>2
    <3>2. e \in A => e \in 1..Len(text) /\ text[e] = NL
      BY <1>1, <1>5, <2>2 DEF QuoteEnds, Marks
    <3>3. QED
      BY <1>8, <3>1, <3>2
  <2>3. QED
    BY <2>1, <2>2
<1>11. ASSUME NEW j \in 1..Len(text), q < j, j + 1 < n, text[j] = Quote PROVE FALSE
  <2>1. j \in A /\ j \in Nat
    BY <1>1, <1>5, <1>11 DEF QuoteEnds, Marks
  <2>2. j >= r
    BY <1>2, <1>3, <1>11, <2>1
  <2>3. e <= j
    BY <1>8, <2>1, <2>2
  <2>4. n <= e + 1 /\ n \in Nat
    BY <1>8, <1>9
  <2>5. QED
    BY <1>8, <1>11, <2>1, <2>3, <2>4
<1>12. QED
  BY <1>10, <1>11

LEMMA ApartMore ==
  ASSUME NEW k, NEW l, NEW A, NEW B, Apart(k, l, A), \A x \in A : x \in B
  PROVE  Apart(k, l, B)
BY DEF Apart

LEMMA StartsAre ==
  ASSUME NEW S, NEW A, NEW k
  PROVE  k \in Starts(S, A) <=> k \in Spelt(S) /\ \A l \in Spelt(S) : l < k => Apart(l, k, A)
BY DEF Starts

\* At the end of a word.
LEMMA WordDone ==
  ASSUME text \in Seq(Chars), NEW S \in Lexings, NEW O, NEW E, ReadSoFar(S, O, E),
         \A k \in E, l \in Spelt(S) : k \in Spelt(S) /\ l \notin O /\ l \notin E => Apart(k, l, Ends(S)),
         NEW h \in Current(S, E), \A k \in Current(S, E) : h <= k
  PROVE  /\ h \in Starts(S, Ends(S)) /\ h \in E
         /\ From(h, Spelt(S), Ends(S)) = Current(S, E)
         /\ {k \in E : k \in Starts(S, Ends(S))} = Done(S, E) \cup {h}
         /\ \A k \in Done(S, E) : k < h
<1>1. /\ \A k \in Shown(S) : k \in Nat
      /\ \A k \in Spelt(S) : k \in Shown(S) /\ k \notin Ends(S) /\ k \in Nat
      /\ \A k \in Ends(S) : k \in Nat /\ (k \in Breaks(S) \/ k \in Shown(S))
      /\ \A k \in Breaks(S) : k \in Ends(S)
  BY SpeltIs, TextIs
<1>2. /\ \A k \in O : k \in Shown(S)
      /\ \A k \in E : k \in Shown(S) /\ k \notin O
      /\ \A k \in O, l \in Shown(S) : l \notin O => k < l /\ Apart(k, l, Breaks(S))
      /\ \A k, l \in E : ~Apart(k, l, Breaks(S))
      /\ \A k \in E, l \in Shown(S) : l \notin O /\ l \notin E => k < l
  BY DEF ReadSoFar
<1>3. \A k : k \in Current(S, E) <=> k \in E /\ k \in Spelt(S) /\ \A g \in E : g \in Ends(S) => g < k
  BY DEF Current
<1>4. \A k : k \in Done(S, E) <=> k \in E /\ k \in Starts(S, Ends(S)) /\ \E g \in E : g \in Ends(S) /\ k < g
  BY DEF Done
<1>5. h \in E /\ h \in Spelt(S) /\ h \in Nat
  BY <1>1, <1>3
<1>6. ASSUME NEW k \in E, k \in Spelt(S), k \notin Current(S, E) PROVE \E g \in E : g \in Ends(S) /\ k < g
  <2>1. PICK g \in E : g \in Ends(S) /\ ~(g < k)
    BY <1>3, <1>6
  <2>2. g # k /\ g \in Nat /\ k \in Nat
    BY <1>1, <1>6, <2>1
  <2>3. QED
    BY <2>1, <2>2
<1>7. ASSUME NEW l \in Spelt(S), l < h PROVE Apart(l, h, Ends(S))
  <2>0. l \in Shown(S) /\ l \in Nat /\ ~(h < l) /\ ~(h <= l)
    BY <1>1, <1>5, <1>7
  <2>1. CASE l \in O
    <3>1. Apart(l, h, Breaks(S))
      BY <1>2, <1>5, <2>1
    <3>2. QED
      BY <1>1, <3>1, ApartMore
  <2>2. CASE l \in E
    <3>1. l \notin Current(S, E)
      BY <2>0
    <3>2. PICK g \in E : g \in Ends(S) /\ l < g
      BY <1>6, <2>2, <3>1
    <3>3. g < h
      BY <1>3, <3>2
    <3>4. QED
      BY <3>2, <3>3 DEF Apart
  <2>3. CASE l \notin O /\ l \notin E
    BY <1>2, <1>5, <2>0, <2>3
  <2>4. QED
    BY <2>1, <2>2, <2>3
<1>8. h \in Starts(S, Ends(S))
  BY <1>5, <1>7, StartsAre
<1>9. ASSUME NEW l PROVE l \in From(h, Spelt(S), Ends(S)) <=> l \in Current(S, E)
  <2>1. l \in From(h, Spelt(S), Ends(S)) <=> l \in Spelt(S) /\ h <= l /\ ~Apart(h, l, Ends(S))
    BY DEF From
  <2>2. ASSUME l \in Current(S, E), NEW b \in Ends(S), h < b, b < l PROVE FALSE
    <3>1. l \in E /\ l \in Spelt(S) /\ l \in Nat /\ b \in Nat
      BY <1>1, <1>3, <2>2
    <3>2. b \notin Breaks(S)
      BY <1>2, <1>5, <2>2, <3>1 DEF Apart
    <3>3. b \in Shown(S)
      BY <1>1, <3>2
    <3>4. b \notin O
      BY <1>1, <1>2, <1>5, <2>2, <3>1
    <3>5. b \in E
      BY <1>1, <1>2, <2>2, <3>1, <3>3, <3>4
    <3>6. b < h
      BY <1>3, <3>5
    <3>7. QED
      BY <1>5, <2>2, <3>1, <3>6
  <2>3. l \in Current(S, E) => ~Apart(h, l, Ends(S))
    BY <2>2 DEF Apart
  <2>4. l \in Current(S, E) => l \in Spelt(S) /\ h <= l
    BY <1>3
  <2>5. ASSUME l \in Spelt(S), h <= l, ~Apart(h, l, Ends(S)) PROVE l \in Current(S, E)
    <3>1. l \in Shown(S) /\ l \in Nat
      BY <1>1, <2>5
    <3>2. l \in O => l < h
      BY <1>2, <1>5
    <3>3. l \notin O
      BY <1>5, <2>5, <3>1, <3>2
    <3>4. l \in E
      BY <1>5, <2>5, <3>3
    <3>5. \A g \in E : g \in Ends(S) => g < l
      <4>1. ASSUME NEW g \in E, g \in Ends(S) PROVE g < l
        <5>1. g < h /\ g \in Nat
          BY <1>1, <1>3, <4>1
        <5>2. QED
          BY <1>5, <2>5, <3>1, <5>1
      <4>2. QED
        BY <4>1
    <3>6. QED
      BY <1>3, <2>5, <3>4, <3>5
  <2>6. QED
    BY <2>1, <2>3, <2>4, <2>5
<1>10. From(h, Spelt(S), Ends(S)) = Current(S, E)
  BY <1>9
<1>11. ASSUME NEW k \in E, k \in Starts(S, Ends(S)) PROVE k \in Done(S, E) \/ k = h
  <2>1. k \in Spelt(S) /\ \A l \in Spelt(S) : l < k => Apart(l, k, Ends(S))
    BY <1>11, StartsAre
  <2>2. CASE k \in Current(S, E)
    <3>1. h <= k /\ k \in Nat
      BY <1>1, <2>1, <2>2
    <3>2. ~Apart(h, k, Ends(S))
      BY <1>9, <2>2 DEF From
    <3>3. ~(h < k)
      BY <1>5, <2>1, <3>2
    <3>4. QED
      BY <1>5, <3>1, <3>3
  <2>3. CASE k \notin Current(S, E)
    BY <1>4, <1>6, <1>11, <2>1, <2>3
  <2>4. QED
    BY <2>2, <2>3
<1>12. {k \in E : k \in Starts(S, Ends(S))} = Done(S, E) \cup {h}
  BY <1>4, <1>5, <1>8, <1>11
<1>13. ASSUME NEW k \in Done(S, E) PROVE k < h
  <2>1. PICK g \in E : g \in Ends(S) /\ k < g
    BY <1>4
  <2>2. g < h
    BY <1>3, <2>1
  <2>3. k \in Nat /\ g \in Nat
    BY <1>1, <1>2, <1>4, <2>1
  <2>4. QED
    BY <1>5, <2>1, <2>2, <2>3
<1>14. QED
  BY <1>5, <1>8, <1>10, <1>12, <1>13

LEMMA NoWord ==
  ASSUME text \in Seq(Chars), NEW S \in Lexings, NEW O, NEW E, ReadSoFar(S, O, E), Current(S, E) = {}
  PROVE  {k \in E : k \in Starts(S, Ends(S))} = Done(S, E)
<1>1. ASSUME NEW k \in E, k \in Starts(S, Ends(S)) PROVE \E g \in E : g \in Ends(S) /\ k < g
  <2>1. k \in Spelt(S)
    BY <1>1, StartsAre
  <2>2. PICK g \in E : g \in Ends(S) /\ ~(g < k)
    BY <2>1 DEF Current
  <2>3. g # k /\ g \in Nat /\ k \in Nat
    BY <2>1, <2>2, SpeltIs, TextIs
  <2>4. QED
    BY <2>2, <2>3
<1>2. QED
  BY <1>1 DEF Done

\* The position that is read next.
Cursor(S, O, E, k) ==
  /\ k \in Shown(S) /\ k \notin O /\ k \notin E
  /\ \A l \in Shown(S) : l < k => l \in O \/ l \in E
  /\ \A l \in E : ~Apart(l, k, Breaks(S))

LEMMA ShownNat ==
  ASSUME text \in Seq(Chars), NEW S \in Lexings
  PROVE  \A k \in Shown(S) : k \in Nat /\ k \in 1..Len(text)
BY SpeltIs, TextIs

LEMMA ReadNext ==
  ASSUME text \in Seq(Chars), NEW S \in Lexings, NEW O, NEW E, ReadSoFar(S, O, E), NEW k, Cursor(S, O, E, k)
  PROVE  ReadSoFar(S, O, E \cup {k}) /\ \A l \in E : l < k /\ l \in Nat
<1>1. \A l \in Shown(S) : l \in Nat
  BY ShownNat
<1>2. /\ \A l \in O : l \in Shown(S)
      /\ \A l \in E : l \in Shown(S) /\ l \notin O
      /\ \A x \in O, l \in Shown(S) : l \notin O => x < l /\ Apart(x, l, Breaks(S))
      /\ \A x, l \in E : ~Apart(x, l, Breaks(S))
      /\ \A x \in E, l \in Shown(S) : l \notin O /\ l \notin E => x < l
  BY DEF ReadSoFar
<1>3. /\ k \in Shown(S) /\ k \notin O /\ k \notin E
      /\ \A l \in Shown(S) : l < k => l \in O \/ l \in E
      /\ \A l \in E : ~Apart(l, k, Breaks(S))
  BY DEF Cursor
<1>4. \A l \in E : l < k /\ l \in Nat
  BY <1>1, <1>2, <1>3
<1>5. \A b \in Breaks(S) : b \in Nat
  BY SpeltIs, TextIs
<1>6. ASSUME NEW l, l \in E \/ l = k PROVE ~Apart(k, l, Breaks(S))
  BY <1>1, <1>3, <1>4, <1>5, <1>6 DEF Apart
<1>7. ASSUME NEW x \in E \cup {k}, NEW l \in E \cup {k} PROVE ~Apart(x, l, Breaks(S))
  BY <1>2, <1>3, <1>6
<1>8. ASSUME NEW l \in Shown(S), l \notin O, l \notin E, l # k PROVE k < l
  BY <1>1, <1>3, <1>8
<1>9. QED
  BY <1>2, <1>3, <1>4, <1>7, <1>8 DEF ReadSoFar

LEMMA ReadLine ==
  ASSUME NEW S, NEW O, NEW E, ReadSoFar(S, O, E),
         \A k \in E, l \in Shown(S) : l \notin O /\ l \notin E => Apart(k, l, Breaks(S))
  PROVE  ReadSoFar(S, O \cup E, {})
BY DEF ReadSoFar

\* A quote is open inside the quotes of the text, and there only.
LEMMA QuotedAt ==
  ASSUME text \in Seq(Chars), NEW S \in Lexings, NEW O, NEW E, ReadSoFar(S, O, E), NEW k, Cursor(S, O, E, k)
  PROVE  Opened(S, E) <=> k \notin S
<1>1. /\ \A l \in Shown(S) : l \in Nat /\ l \in 1..Len(text)
      /\ DOMAIN text = 1..Len(text) /\ Len(text) \in Nat
  BY ShownNat, TextIs
<1>2. /\ \A l \in O : l \in Shown(S)
      /\ \A l \in E : l \in Shown(S) /\ l \notin O
      /\ \A x \in O, l \in Shown(S) : l \notin O => x < l /\ Apart(x, l, Breaks(S))
  BY DEF ReadSoFar
<1>3. /\ k \in Shown(S) /\ k \notin O /\ k \notin E /\ k \in Nat /\ k <= Len(text)
      /\ \A l \in Shown(S) : l < k => l \in O \/ l \in E
      /\ \A l \in E : ~Apart(l, k, Breaks(S))
  BY <1>1 DEF Cursor
<1>4. \A l \in E : l < k /\ l \in Nat
  BY ReadNext
<1>5. /\ \A p \in S : p \in Nat
      /\ \A p, q \in S : p <= Len(text) /\ p < q => NextLexeme(p) <= q
      /\ \A p \in S : p <= Len(text) => NextLexeme(p) \in S
  BY LexingIs
<1>6. \A b \in Breaks(S) : b \in S /\ b \in Nat /\ b \notin Shown(S)
  BY <1>5, SpeltIs
<1>7. \A x : x \in Shown(S) <=> x \in 1..Len(text) /\
        (\/ x \in S /\ x \notin Breaks(S) /\ x \notin Blocks
         \/ \E q \in S : q \in Marks(Quote) /\ q < x /\ x < NextLexeme(q))
  BY <1>1 DEF Shown
<1>8. \A q \in Marks(Quote) : q \in 1..Len(text)
  BY <1>1 DEF Marks
<1>9. ASSUME k \in S, NEW q \in E, q \in S, q \in Marks(Quote),
             \A j \in E : j > q => j < NextLexeme(q) /\ text[j] # Quote
      PROVE  FALSE
  <2>1. PICK n : n = NextLexeme(q)
    OBVIOUS
  <2>2. q < k /\ q \in Nat /\ q <= Len(text) /\ n \in S /\ n \in Nat /\ n <= k /\ q < n
    BY <1>1, <1>2, <1>3, <1>4, <1>5, <1>9, <2>1, LexemeIs
  <2>3. n = Len(text) + 1 \/ (n \in 1..Len(text) /\ text[n] = NL)
            \/ (q < n - 1 /\ n - 1 \in 1..Len(text) /\ text[n - 1] = Quote)
    BY <1>9, <2>1, QuoteShape
  <2>4. n # Len(text) + 1
    BY <1>1, <1>3, <2>2
  <2>5. CASE n \in 1..Len(text) /\ text[n] = NL
    <3>1. n \in Breaks(S)
      BY <1>1, <2>2, <2>5 DEF Breaks, Marks
    <3>2. n < k
      BY <1>3, <1>6, <2>2, <3>1
    <3>3. Apart(q, k, Breaks(S))
      BY <2>2, <3>1, <3>2 DEF Apart
    <3>4. QED
      BY <1>3, <1>9, <3>3
  <2>6. CASE q < n - 1 /\ n - 1 \in 1..Len(text) /\ text[n - 1] = Quote
    <3>1. PICK j : j = n - 1
      OBVIOUS
    <3>2. q < j /\ j < n /\ j \in 1..Len(text) /\ j \in Nat /\ j < k /\ text[j] = Quote
      BY <1>1, <1>3, <2>2, <2>6, <3>1
    <3>3. j \in Shown(S)
      BY <1>7, <1>9, <2>1, <3>2
    <3>4. j \notin O
      <4>1. j \in O => j < q
        BY <1>2, <1>9
      <4>2. QED
        BY <2>2, <3>2, <4>1
    <3>5. j \in E
      BY <1>3, <3>2, <3>3, <3>4
    <3>6. QED
      BY <1>9, <2>2, <3>2, <3>5
  <2>7. QED
    BY <2>3, <2>4, <2>5, <2>6
<1>10. ASSUME k \notin S PROVE Opened(S, E)
  <2>1. PICK q \in S : q \in Marks(Quote) /\ q < k /\ k < NextLexeme(q)
    BY <1>3, <1>7, <1>10
  <2>2. PICK n : n = NextLexeme(q)
    OBVIOUS
  <2>3. q \in Nat /\ q \in 1..Len(text) /\ q <= Len(text) /\ n \in Nat /\ n \in S /\ k < n
    BY <1>5, <1>8, <2>1, <2>2, LexemeIs
  <2>4. q \notin Breaks(S) /\ q \notin Blocks
    BY <2>1, KindsApart DEF Breaks, Marks, Quote, NL, Semi
  <2>5. q \in Shown(S)
    BY <1>7, <2>3, <2>4
  <2>6. q \notin O
    <3>1. ASSUME NEW b \in Breaks(S), q < b, b < k PROVE FALSE
      <4>1. n <= b
        BY <1>5, <1>6, <2>2, <2>3, <3>1
      <4>2. QED
        BY <1>3, <1>6, <2>3, <3>1, <4>1
    <3>2. ~Apart(q, k, Breaks(S))
      BY <3>1 DEF Apart
    <3>3. QED
      BY <1>2, <1>3, <3>2
  <2>7. q \in E
    BY <1>3, <2>1, <2>5, <2>6
  <2>8. ASSUME NEW j \in E, j > q PROVE j < NextLexeme(q) /\ text[j] # Quote
    <3>1. j < k /\ j \in Nat /\ j \in 1..Len(text) /\ q < j
      BY <1>1, <1>2, <1>4, <2>3, <2>8
    <3>2. j < n /\ j + 1 < n
      BY <1>3, <2>3, <3>1
    <3>3. text[j] # Quote
      BY <2>1, <2>2, <3>1, <3>2, QuoteShape
    <3>4. QED
      BY <2>2, <3>2, <3>3
  <2>9. QED
    BY <2>1, <2>7, <2>8 DEF Opened
<1>11. QED
  BY <1>9, <1>10 DEF Opened

\* A quote opens, and closes; nothing else does.
LEMMA QuoteRead ==
  ASSUME text \in Seq(Chars), NEW S \in Lexings, NEW O, NEW E, ReadSoFar(S, O, E), NEW k, Cursor(S, O, E, k)
  PROVE  Opened(S, E \cup {k}) <=> IF text[k] = Quote THEN ~Opened(S, E) ELSE Opened(S, E)
<1>1. \A l \in E : l < k /\ l \in Nat
  BY ReadNext
<1>2. k \in Nat /\ k \in 1..Len(text) /\ k \in Shown(S) /\ DOMAIN text = 1..Len(text) /\ k <= Len(text)
  BY ShownNat, TextIs DEF Cursor
<1>3. Opened(S, E) <=> k \notin S
  BY QuotedAt
<1>4. k \in Marks(Quote) <=> text[k] = Quote
  BY <1>2 DEF Marks
<1>5. CASE k \in S /\ text[k] = Quote
  <2>1. \A j \in E \cup {k} : ~(j > k)
    BY <1>1, <1>2
  <2>2. QED
    BY <1>3, <1>4, <1>5, <2>1 DEF Opened
<1>6. CASE k \in S /\ text[k] # Quote
  <2>1. Opened(S, E \cup {k}) => Opened(S, E)
    BY <1>4, <1>6 DEF Opened
  <2>2. QED
    BY <1>3, <1>6, <2>1
<1>7. CASE k \notin S /\ text[k] = Quote
  <2>1. ASSUME NEW q \in E \cup {k}, q \in S, \A j \in E \cup {k} : j > q => text[j] # Quote PROVE FALSE
    <3>1. q \in E
      BY <1>7, <2>1
    <3>2. k > q
      BY <1>1, <1>2, <3>1
    <3>3. QED
      BY <1>7, <2>1, <3>2
  <2>2. QED
    BY <1>3, <1>7, <2>1 DEF Opened
<1>8. CASE k \notin S /\ text[k] # Quote
  <2>1. PICK q \in E : /\ q \in S /\ q \in Marks(Quote)
                       /\ \A j \in E : j > q => j < NextLexeme(q) /\ text[j] # Quote
    BY <1>3, <1>8 DEF Opened
  <2>2. k < NextLexeme(q)
    <3>1. PICK p \in S : p \in Marks(Quote) /\ p < k /\ k < NextLexeme(p)
      BY <1>2, <1>8 DEF Shown
    <3>2. p \in Nat /\ q \in Nat /\ q < k /\ q <= Len(text) /\ p <= Len(text)
      BY <1>1, <1>2, <3>1, LexingIs
    <3>3. PICK n : n = NextLexeme(p)
      OBVIOUS
    <3>4. PICK m : m = NextLexeme(q)
      OBVIOUS
    <3>5. n \in Nat /\ m \in Nat
      <4>1. p \in 1..Len(text) /\ q \in 1..Len(text)
        BY <1>2, <2>1, <3>1 DEF Marks
      <4>2. QED
        BY <3>3, <3>4, <4>1, LexemeIs
    <3>6. p < q => n <= q
      BY <2>1, <3>1, <3>2, <3>3, LexingIs
    <3>7. ~(p < q)
      BY <1>2, <3>1, <3>2, <3>3, <3>5, <3>6
    <3>8. q < p => p \in E
      <4>1. ASSUME q < p PROVE p \in E
        <5>1. p \in Shown(S)
          BY <1>2, <3>1, KindsApart DEF Shown, Breaks, Marks, Quote, NL, Semi
        <5>2. p \in O \/ p \in E
          BY <3>1, <5>1 DEF Cursor
        <5>3. q \notin O /\ q \in Shown(S)
          BY <2>1 DEF ReadSoFar
        <5>4. p \in O => p < q
          BY <5>3 DEF ReadSoFar
        <5>5. QED
          BY <3>2, <4>1, <5>2, <5>4
      <4>2. QED
        BY <4>1
    <3>9. text[p] = Quote
      BY <3>1 DEF Marks
    <3>10. p = q
      BY <2>1, <3>2, <3>7, <3>8, <3>9
    <3>11. QED
      BY <3>1, <3>10
  <2>3. Opened(S, E \cup {k})
    BY <1>8, <2>1, <2>2 DEF Opened
  <2>4. QED
    BY <1>3, <1>8, <2>3
<1>9. QED
  BY <1>5, <1>6, <1>7, <1>8

\* What the character at the cursor is.
LEMMA KindAt ==
  ASSUME text \in Seq(Chars), NEW S \in Lexings, NEW O, NEW E, ReadSoFar(S, O, E), NEW k, Cursor(S, O, E, k)
  PROVE  /\ text[k] = Quote => k \notin Spelt(S) /\ k \notin Ends(S)
         /\ text[k] = Gap /\ ~Opened(S, E) => k \in Ends(S)
         /\ text[k] # Quote /\ (Opened(S, E) \/ text[k] # Gap) => k \in Spelt(S) /\ k \notin Ends(S)
         /\ text[k] \in Chars
<1>1. k \in 1..Len(text) /\ k \in Shown(S) /\ DOMAIN text = 1..Len(text)
  BY ShownNat, TextIs DEF Cursor
<1>2. Opened(S, E) <=> k \notin S
  BY QuotedAt
<1>3. k \notin Breaks(S)
  BY <1>1, SpeltIs
<1>4. k \in Ends(S) <=> k \in S /\ text[k] = Gap
  BY <1>1, <1>3 DEF Ends, Marks
<1>5. k \in Spelt(S) <=> text[k] # Quote /\ k \notin Ends(S)
  BY <1>1, SpeltIs
<1>6. text[k] = Quote => text[k] # Gap
  BY DEF Quote, Gap
<1>7. text[k] \in Chars
  BY <1>1
<1>8. QED
  BY <1>2, <1>4, <1>5, <1>6, <1>7

\* A quote changes no word, a character goes to the word it is in, an end ends it.
LEMMA QuoteAt ==
  ASSUME text \in Seq(Chars), NEW S \in Lexings, NEW O, NEW E, ReadSoFar(S, O, E), NEW k, Cursor(S, O, E, k),
         k \notin Spelt(S), k \notin Ends(S)
  PROVE  Current(S, E \cup {k}) = Current(S, E) /\ Done(S, E \cup {k}) = Done(S, E)
<1>1. \A l \in E : ~(k < l)
  <2>1. \A l \in E : l < k /\ l \in Nat
    BY ReadNext
  <2>2. k \in Nat
    BY ShownNat DEF Cursor
  <2>3. QED
    BY <2>1, <2>2
<1>2. k \notin Starts(S, Ends(S))
  BY StartsAre
<1>3. QED
  BY <1>2 DEF Current, Done

LEMMA LetterAt ==
  ASSUME text \in Seq(Chars), NEW S \in Lexings, NEW O, NEW E, ReadSoFar(S, O, E), NEW k, Cursor(S, O, E, k),
         k \in Spelt(S), k \notin Ends(S)
  PROVE  Current(S, E \cup {k}) = Current(S, E) \cup {k} /\ Done(S, E \cup {k}) = Done(S, E)
<1>1. \A l \in E : l < k /\ ~(k < l)
  <2>1. \A l \in E : l < k /\ l \in Nat
    BY ReadNext
  <2>2. k \in Nat
    BY ShownNat DEF Cursor
  <2>3. QED
    BY <2>1, <2>2
<1>2. Done(S, E \cup {k}) = Done(S, E)
  BY <1>1 DEF Done
<1>3. ASSUME NEW x PROVE x \in Current(S, E \cup {k}) <=> x \in Current(S, E) \/ x = k
  BY <1>1 DEF Current
<1>4. QED
  BY <1>2, <1>3

LEMMA EndAt ==
  ASSUME text \in Seq(Chars), NEW S \in Lexings, NEW O, NEW E, ReadSoFar(S, O, E), NEW k, Cursor(S, O, E, k),
         k \in Ends(S)
  PROVE  /\ Current(S, E \cup {k}) = {} /\ Done(S, E \cup {k}) = {x \in E : x \in Starts(S, Ends(S))}
         /\ \A x \in E, l \in Spelt(S) :
              x \in Spelt(S) /\ l \notin O /\ l \notin E => Apart(x, l, Ends(S))
<1>1. \A l \in E : l < k /\ l \in Nat
  BY ReadNext
<1>2. k \in Nat /\ k \in Shown(S) /\ ~(k < k) /\ \A l \in E : ~(k < l)
  BY <1>1, ShownNat DEF Cursor
<1>3. \A x : x \in Starts(S, Ends(S)) => x \in Spelt(S)
  BY StartsAre
<1>4. \A x \in Spelt(S) : x \notin Ends(S) /\ x \in Shown(S) /\ x \in Nat
  BY SpeltIs, ShownNat
<1>5. Current(S, E \cup {k}) = {}
  BY <1>1, <1>2, <1>4 DEF Current
<1>6. Done(S, E \cup {k}) = {x \in E : x \in Starts(S, Ends(S))}
  BY <1>1, <1>2, <1>3, <1>4 DEF Done
<1>7. ASSUME NEW x \in E, NEW l \in Spelt(S), x \in Spelt(S), l \notin O, l \notin E PROVE Apart(x, l, Ends(S))
  <2>1. ~(l < k) /\ l # k /\ l \in Nat
    BY <1>4, <1>7 DEF Cursor
  <2>2. x < k /\ k < l
    BY <1>1, <1>2, <2>1
  <2>3. QED
    BY <2>2 DEF Apart
<1>8. QED
  BY <1>5, <1>6, <1>7

\* The variables of tokenise.
TokenType == [at : Nat, tokens : Seq(Seq(Chars)), current : Seq(Chars), inQuotes : BOOLEAN]
WordsRead(t, S, E) ==
  /\ Orders(t.current, Current(S, E), text, Rising)
  /\ Orders(t.tokens, Done(S, E), Words(S), Rising)

LEMMA WordIs ==
  ASSUME text \in Seq(Chars), NEW S \in Lexings, NEW h \in Starts(S, Ends(S)), NEW s \in Seq(Chars),
         Orders(s, From(h, Spelt(S), Ends(S)), text, Rising)
  PROVE  Words(S)[h] = s
<1>1. PICK A : A = From(h, Spelt(S), Ends(S))
  OBVIOUS
<1>2. A \in SUBSET Nat
  BY <1>1, SpeltIs, ShownNat DEF From
<1>3. s = InOrder(A, text)
  BY <1>1, <1>2, InOrderIs
<1>4. Words(S)[h] = InOrder(From(h, Spelt(S), Ends(S)), text)
  BY DEF Words
<1>5. QED
  BY <1>1, <1>3, <1>4

LEMMA FlushIs ==
  ASSUME NEW t \in TokenType
  PROVE  /\ Flush(t) \in TokenType /\ Flush(t).current = <<>> /\ Flush(t).inQuotes = t.inQuotes
         /\ Flush(t).at = t.at
         /\ Flush(t).tokens = IF t.current = <<>> THEN t.tokens ELSE Append(t.tokens, t.current)
<1>1. CASE t.current = <<>>
  BY <1>1 DEF Flush, TokenType
<1>2. CASE t.current # <<>>
  <2>1. Flush(t) = [t EXCEPT !.tokens = Append(@, t.current), !.current = <<>>]
    BY <1>2 DEF Flush
  <2>2. t.tokens \in Seq(Seq(Chars)) /\ t.current \in Seq(Chars)
    BY DEF TokenType
  <2>3. Append(t.tokens, t.current) \in Seq(Seq(Chars)) /\ <<>> \in Seq(Chars)
    BY <2>2, AppendProperties
  <2>4. QED
    BY <1>2, <2>1, <2>3 DEF TokenType
<1>3. QED
  BY <1>1, <1>2

\* What is flushed at the end of a word is the words that start in the line so far.
LEMMA FlushReads ==
  ASSUME text \in Seq(Chars), NEW S \in Lexings, NEW O, NEW E, ReadSoFar(S, O, E),
         NEW t \in TokenType, WordsRead(t, S, E),
         \A k \in E, l \in Spelt(S) : k \in Spelt(S) /\ l \notin O /\ l \notin E => Apart(k, l, Ends(S))
  PROVE  Orders(Flush(t).tokens, {x \in E : x \in Starts(S, Ends(S))}, Words(S), Rising)
<1>1. t.current \in Seq(Chars) /\ t.tokens \in Seq(Seq(Chars))
  BY DEF TokenType
<1>2. /\ Orders(t.current, Current(S, E), text, Rising)
      /\ Orders(t.tokens, Done(S, E), Words(S), Rising)
  BY DEF WordsRead
<1>3. t.current = <<>> <=> Current(S, E) = {}
  BY <1>1, <1>2, OrdersEmpty
<1>4. \A x \in Current(S, E) : x \in Nat
  BY SpeltIs, ShownNat DEF Current
<1>5. CASE t.current = <<>>
  <2>1. {x \in E : x \in Starts(S, Ends(S))} = Done(S, E)
    BY <1>3, <1>5, NoWord
  <2>2. Flush(t).tokens = t.tokens
    BY <1>5, FlushIs
  <2>3. QED
    BY <1>2, <2>1, <2>2
<1>6. CASE t.current # <<>>
  <2>1. PICK h \in Current(S, E) : \A k \in Current(S, E) : h <= k
    <3>1. Current(S, E) \in SUBSET Nat /\ Current(S, E) # {}
      BY <1>3, <1>4, <1>6
    <3>2. QED
      BY <3>1, LeastOne
  <2>2. /\ h \in Starts(S, Ends(S))
        /\ From(h, Spelt(S), Ends(S)) = Current(S, E)
        /\ {k \in E : k \in Starts(S, Ends(S))} = Done(S, E) \cup {h}
        /\ \A k \in Done(S, E) : k < h
    BY <2>1, WordDone
  <2>3. Orders(t.current, From(h, Spelt(S), Ends(S)), text, Rising)
    BY <1>2, <2>2
  <2>4. Words(S)[h] = t.current
    BY <1>1, <2>2, <2>3, WordIs
  <2>5. Done(S, E) \in SUBSET Nat /\ h \in Nat
    BY <1>4, StartsAre, SpeltIs, ShownNat DEF Done
  <2>6. Orders(Append(t.tokens, Words(S)[h]), Done(S, E) \cup {h}, Words(S), Rising)
    BY <1>1, <1>2, <2>2, <2>4, <2>5, OrdersAppend
  <2>7. Flush(t).tokens = Append(t.tokens, t.current)
    BY <1>6, FlushIs
  <2>8. QED
    BY <2>2, <2>4, <2>6, <2>7
<1>7. QED
  BY <1>5, <1>6

\* A character is taken.
Took(u, t, S, E) ==
  u \in TokenType /\ WordsRead(u, S, E) /\ u.at = t.at /\ (u.inQuotes <=> Opened(S, E))

LEMMA TakeReads ==
  ASSUME text \in Seq(Chars), NEW S \in Lexings, NEW O, NEW E, ReadSoFar(S, O, E), NEW k, Cursor(S, O, E, k),
         NEW t \in TokenType, WordsRead(t, S, E), t.inQuotes <=> Opened(S, E),
         NEW u, u = Take(t, text[k]), NEW E2, E2 = E \cup {k}
  PROVE  Took(u, t, S, E2)
<1>1. PICK x : x = text[k]
  OBVIOUS
<1>2. /\ x = Quote => k \notin Spelt(S) /\ k \notin Ends(S)
      /\ x = Gap /\ ~Opened(S, E) => k \in Ends(S)
      /\ x # Quote /\ (Opened(S, E) \/ x # Gap) => k \in Spelt(S) /\ k \notin Ends(S)
      /\ x \in Chars
  BY <1>1, KindAt
<1>4. /\ k \notin Spelt(S) /\ k \notin Ends(S) =>
           Current(S, E2) = Current(S, E) /\ Done(S, E2) = Done(S, E)
      /\ k \in Spelt(S) /\ k \notin Ends(S) =>
           Current(S, E2) = Current(S, E) \cup {k} /\ Done(S, E2) = Done(S, E)
      /\ k \in Ends(S) =>
           /\ Current(S, E2) = {} /\ Done(S, E2) = {y \in E : y \in Starts(S, Ends(S))}
           /\ \A y \in E, l \in Spelt(S) :
                y \in Spelt(S) /\ l \notin O /\ l \notin E => Apart(y, l, Ends(S))
  <2>1. k \notin Spelt(S) /\ k \notin Ends(S) =>
           Current(S, E \cup {k}) = Current(S, E) /\ Done(S, E \cup {k}) = Done(S, E)
    BY QuoteAt
  <2>2. k \in Spelt(S) /\ k \notin Ends(S) =>
           Current(S, E \cup {k}) = Current(S, E) \cup {k} /\ Done(S, E \cup {k}) = Done(S, E)
    BY LetterAt
  <2>3. ASSUME k \in Ends(S)
        PROVE  /\ Current(S, E \cup {k}) = {} /\ Done(S, E \cup {k}) = {y \in E : y \in Starts(S, Ends(S))}
               /\ \A y \in E, l \in Spelt(S) :
                    y \in Spelt(S) /\ l \notin O /\ l \notin E => Apart(y, l, Ends(S))
    BY <2>3, EndAt
  <2>4. QED
    BY <2>1, <2>2, <2>3
<1>5. Opened(S, E2) <=> IF x = Quote THEN ~Opened(S, E) ELSE Opened(S, E)
  BY <1>1, QuoteRead
<1>6. /\ Orders(t.current, Current(S, E), text, Rising)
      /\ Orders(t.tokens, Done(S, E), Words(S), Rising)
  BY DEF WordsRead
<1>7. /\ t.current \in Seq(Chars) /\ t.tokens \in Seq(Seq(Chars)) /\ t.inQuotes \in BOOLEAN
      /\ t = [at |-> t.at, tokens |-> t.tokens, current |-> t.current, inQuotes |-> t.inQuotes] /\ t.at \in Nat
  BY DEF TokenType
<1>8. CASE x = Quote
  <2>1. u = [t EXCEPT !.inQuotes = ~@]
    BY <1>1, <1>8 DEF Take
  <2>2. u.current = t.current /\ u.tokens = t.tokens /\ u.at = t.at /\ u.inQuotes = ~t.inQuotes /\ u \in TokenType
    BY <1>7, <2>1 DEF TokenType
  <2>3. WordsRead(u, S, E2)
    BY <1>2, <1>4, <1>6, <1>8, <2>2 DEF WordsRead
  <2>4. u.inQuotes <=> Opened(S, E2)
    BY <1>5, <1>8, <2>2
  <2>5. QED
    BY <2>2, <2>3, <2>4 DEF Took
<1>9. CASE x # Quote /\ ~t.inQuotes /\ x = Gap
  <2>1. u = Flush(t)
    BY <1>1, <1>9 DEF Take
  <2>2. u \in TokenType /\ u.current = <<>> /\ u.inQuotes = t.inQuotes /\ u.at = t.at
    BY <2>1, FlushIs
  <2>3. k \in Ends(S)
    BY <1>2, <1>9
  <2>4. Orders(Flush(t).tokens, {y \in E : y \in Starts(S, Ends(S))}, Words(S), Rising)
    BY <1>4, <2>3, FlushReads
  <2>5. Orders(u.tokens, Done(S, E2), Words(S), Rising)
    BY <1>4, <2>1, <2>3, <2>4
  <2>6. Orders(u.current, Current(S, E2), text, Rising)
    BY <1>4, <2>2, <2>3, OrdersNone
  <2>7. WordsRead(u, S, E2)
    BY <2>5, <2>6 DEF WordsRead
  <2>8. u.inQuotes <=> Opened(S, E2)
    BY <1>5, <1>9, <2>2
  <2>9. QED
    BY <2>2, <2>7, <2>8 DEF Took
<1>10. CASE x # Quote /\ (t.inQuotes \/ x # Gap)
  <2>1. u = [t EXCEPT !.current = Append(@, x)]
    BY <1>1, <1>10 DEF Take
  <2>2. Append(t.current, x) \in Seq(Chars)
    BY <1>2, <1>7, AppendProperties
  <2>3. u.current = Append(t.current, x) /\ u.tokens = t.tokens /\ u.at = t.at /\ u.inQuotes = t.inQuotes /\ u \in TokenType
    BY <1>7, <2>1, <2>2 DEF TokenType
  <2>4. k \in Spelt(S) /\ k \notin Ends(S)
    BY <1>2, <1>10
  <2>5. Current(S, E) \in SUBSET Nat /\ k \in Nat /\ \A y \in Current(S, E) : y < k
    <3>1. \A y \in E : y < k /\ y \in Nat
      BY ReadNext
    <3>2. k \in Nat
      BY ShownNat DEF Cursor
    <3>3. QED
      BY <3>1, <3>2 DEF Current
  <2>6. Orders(Append(t.current, text[k]), Current(S, E) \cup {k}, text, Rising)
    BY <1>1, <1>2, <1>6, <1>7, <2>5, OrdersAppend
  <2>7. WordsRead(u, S, E2)
    BY <1>1, <1>4, <1>6, <2>3, <2>4, <2>6 DEF WordsRead
  <2>8. u.inQuotes <=> Opened(S, E2)
    BY <1>5, <1>10, <2>3
  <2>9. QED
    BY <2>3, <2>7, <2>8 DEF Took
<1>11. QED
  BY <1>8, <1>9, <1>10

\* At the end of a line.
LEMMA NoCommand ==
  ASSUME text \in Seq(Chars), NEW S \in Lexings, NEW E, {x \in E : x \in Starts(S, Ends(S))} = {}
  PROVE  {x \in E : x \in Starts(S, Breaks(S))} = {}
<1>1. \A x \in Breaks(S) : x \in Ends(S)
  BY SpeltIs
<1>2. ASSUME NEW x \in E, x \in Starts(S, Breaks(S)) PROVE x \in Starts(S, Ends(S))
  <2>1. x \in Spelt(S) /\ \A l \in Spelt(S) : l < x => Apart(l, x, Breaks(S))
    BY <1>2, StartsAre
  <2>2. \A l \in Spelt(S) : l < x => Apart(l, x, Ends(S))
    BY <1>1, <2>1, ApartMore
  <2>3. QED
    BY <2>1, <2>2, StartsAre
<1>3. QED
  BY <1>2

LEMMA CommandDone ==
  ASSUME text \in Seq(Chars), NEW S \in Lexings, NEW O, NEW E, ReadSoFar(S, O, E),
         \A k \in E, l \in Shown(S) : l \notin O /\ l \notin E => Apart(k, l, Breaks(S)),
         {x \in E : x \in Starts(S, Ends(S))} # {}
  PROVE  \E h \in E : /\ h \in Starts(S, Breaks(S))
                      /\ From(h, Starts(S, Ends(S)), Breaks(S)) = {x \in E : x \in Starts(S, Ends(S))}
                      /\ {x \in E : x \in Starts(S, Breaks(S))} = {h}
                      /\ \A x \in O : x < h
<1>1. /\ \A k \in Shown(S) : k \in Nat
      /\ \A k \in Spelt(S) : k \in Shown(S) /\ k \in Nat
      /\ \A k \in Breaks(S) : k \in Ends(S)
  BY SpeltIs, TextIs
<1>2. /\ \A k \in O : k \in Shown(S)
      /\ \A k \in E : k \in Shown(S) /\ k \notin O
      /\ \A k \in O, l \in Shown(S) : l \notin O => k < l /\ Apart(k, l, Breaks(S))
      /\ \A k, l \in E : ~Apart(k, l, Breaks(S))
  BY DEF ReadSoFar
<1>3. PICK T : T = {k \in E : k \in Spelt(S)}
  OBVIOUS
<1>4. T \in SUBSET Nat /\ T # {}
  BY <1>1, <1>3, StartsAre
<1>5. PICK h \in T : \A k \in T : h <= k
  BY <1>4, LeastOne
<1>6. h \in E /\ h \in Spelt(S) /\ h \in Nat /\ \A k \in E : k \in Spelt(S) => h <= k
  BY <1>1, <1>3, <1>5
<1>7. ASSUME NEW l \in Spelt(S), l < h PROVE Apart(l, h, Breaks(S))
  <2>1. l \in Shown(S) /\ ~(h <= l) /\ ~(h < l)
    BY <1>1, <1>6, <1>7
  <2>2. l \notin E
    BY <1>6, <2>1
  <2>3. l \in O
    BY <1>2, <1>6, <2>1, <2>2, <1>1 DEF ReadSoFar
  <2>4. QED
    BY <1>2, <1>6, <2>3
<1>8. h \in Starts(S, Breaks(S)) /\ h \in Starts(S, Ends(S))
  <2>1. \A l \in Spelt(S) : l < h => Apart(l, h, Ends(S))
    BY <1>1, <1>7, ApartMore
  <2>2. QED
    BY <1>6, <1>7, <2>1, StartsAre
<1>9. ASSUME NEW l PROVE l \in From(h, Starts(S, Ends(S)), Breaks(S)) <=> l \in E /\ l \in Starts(S, Ends(S))
  <2>1. l \in From(h, Starts(S, Ends(S)), Breaks(S)) <=> l \in Starts(S, Ends(S)) /\ h <= l /\ ~Apart(h, l, Breaks(S))
    BY DEF From
  <2>2. l \in E /\ l \in Starts(S, Ends(S)) => h <= l /\ ~Apart(h, l, Breaks(S))
    BY <1>2, <1>6, StartsAre
  <2>3. ASSUME l \in Starts(S, Ends(S)), h <= l, ~Apart(h, l, Breaks(S)) PROVE l \in E
    <3>1. l \in Shown(S) /\ l \in Nat
      BY <1>1, <2>3, StartsAre
    <3>2. l \in O => l < h
      BY <1>2, <1>6
    <3>3. l \notin O
      BY <1>6, <2>3, <3>1, <3>2
    <3>4. QED
      BY <1>6, <2>3, <3>1, <3>3
  <2>4. QED
    BY <2>1, <2>2, <2>3
<1>10. From(h, Starts(S, Ends(S)), Breaks(S)) = {x \in E : x \in Starts(S, Ends(S))}
  BY <1>9
<1>11. ASSUME NEW x \in E, x \in Starts(S, Breaks(S)) PROVE x = h
  <2>1. x \in Spelt(S) /\ \A l \in Spelt(S) : l < x => Apart(l, x, Breaks(S))
    BY <1>11, StartsAre
  <2>2. h <= x /\ x \in Nat
    BY <1>1, <1>6, <2>1
  <2>3. ~(h < x)
    BY <1>2, <1>6, <2>1
  <2>4. QED
    BY <1>6, <2>2, <2>3
<1>12. {x \in E : x \in Starts(S, Breaks(S))} = {h}
  BY <1>6, <1>8, <1>11
<1>13. \A x \in O : x < h
  BY <1>2, <1>6
<1>14. QED
  BY <1>6, <1>8, <1>10, <1>12, <1>13

\* commands, of the commands that start in the lines before.
CommandsRead(c, S, O) ==
  c \in Seq(Seq(Seq(Chars))) /\ Orders(c, {x \in O : x \in Starts(S, Breaks(S))}, Commands(S), Rising)

LEMMA LineReads ==
  ASSUME text \in Seq(Chars), NEW S \in Lexings, NEW O, NEW E, ReadSoFar(S, O, E),
         \A k \in E, l \in Shown(S) : l \notin O /\ l \notin E => Apart(k, l, Breaks(S)),
         NEW c, CommandsRead(c, S, O),
         NEW ts \in Seq(Seq(Chars)), Orders(ts, {x \in E : x \in Starts(S, Ends(S))}, Words(S), Rising),
         NEW c2, c2 = IF ts = <<>> THEN c ELSE Append(c, ts)
  PROVE  CommandsRead(c2, S, O \cup E)
<1>1. PICK A : A = {x \in E : x \in Starts(S, Ends(S))}
  OBVIOUS
<1>2. PICK C : C = {x \in O : x \in Starts(S, Breaks(S))}
  OBVIOUS
<1>3. ts = <<>> <=> A = {}
  BY <1>1, OrdersEmpty
<1>4. c \in Seq(Seq(Seq(Chars))) /\ Orders(c, C, Commands(S), Rising)
  BY <1>2 DEF CommandsRead
<1>5. \A x \in O \cup E : x \in Nat
  BY ShownNat DEF ReadSoFar
<1>6. CASE ts = <<>>
  <2>1. {x \in E : x \in Starts(S, Breaks(S))} = {}
    BY <1>1, <1>3, <1>6, NoCommand
  <2>2. {x \in O \cup E : x \in Starts(S, Breaks(S))} = C
    BY <1>2, <2>1
  <2>3. QED
    BY <1>4, <1>6, <2>2 DEF CommandsRead
<1>7. CASE ts # <<>>
  <2>1. PICK h \in E : /\ h \in Starts(S, Breaks(S))
                       /\ From(h, Starts(S, Ends(S)), Breaks(S)) = A
                       /\ {x \in E : x \in Starts(S, Breaks(S))} = {h}
                       /\ \A x \in O : x < h
    BY <1>1, <1>3, <1>7, CommandDone
  <2>2. A \in SUBSET Nat
    BY <1>1, <1>5
  <2>3. ts = InOrder(A, Words(S))
    BY <1>1, <2>2, InOrderIs
  <2>4. Commands(S)[h] = InOrder(From(h, Starts(S, Ends(S)), Breaks(S)), Words(S))
    BY <2>1 DEF Commands
  <2>5. Commands(S)[h] = ts
    BY <2>1, <2>3, <2>4
  <2>6. C \in SUBSET Nat /\ h \in Nat /\ \A x \in C : x < h
    BY <1>2, <1>5, <2>1
  <2>7. Orders(Append(c, Commands(S)[h]), C \cup {h}, Commands(S), Rising)
    BY <1>4, <2>5, <2>6, OrdersAppend
  <2>8. {x \in O \cup E : x \in Starts(S, Breaks(S))} = C \cup {h}
    BY <1>2, <2>1
  <2>9. Append(c, ts) \in Seq(Seq(Seq(Chars)))
    BY <1>4, AppendProperties
  <2>10. QED
    BY <1>7, <2>5, <2>7, <2>8, <2>9 DEF CommandsRead
<1>8. QED
  BY <1>6, <1>7

\* What is read of the text, by the line, and the place in it, where tokenise is.
LinesRead(S, line, n) == {k \in Shown(S) : line[k] < n}
LineRead(S, line, col, n, at) == {k \in Shown(S) : line[k] = n /\ col[k] < at}

LEMMA LayoutIs ==
  ASSUME text \in Seq(Chars), NEW S \in Lexings, NEW ps, NEW ls, NEW line, NEW col,
         Layout(Shown(S), Breaks(S), ps, ls, line, col)
  PROVE  /\ ls \in Seq(Seq(Chars)) /\ Len(ls) \in Nat \ {0}
         /\ \A n \in 1..Len(ls) : ls[n] \in Seq(Chars) /\ Len(ls[n]) \in Nat
         /\ \A k \in Shown(S) : /\ line[k] \in 1..Len(ls) /\ line[k] \in Nat
                                /\ col[k] \in 1..Len(ls[line[k]]) /\ col[k] \in Nat
                                /\ ls[line[k]][col[k]] = text[k]
         /\ \A n \in 1..Len(ls) : \A z \in 1..Len(ls[n]) : \E k \in Shown(S) : line[k] = n /\ col[k] = z
         /\ \A k, l \in Shown(S) : k < l /\ Apart(k, l, Breaks(S)) => line[k] < line[l]
         /\ \A k, l \in Shown(S) : k < l /\ ~Apart(k, l, Breaks(S)) => line[k] = line[l] /\ col[k] < col[l]
         /\ \A k, l \in Shown(S) : Apart(k, l, Breaks(S)) => k < l
<1>1. ls \in Seq(Seq(Chars)) /\ ls # <<>>
  BY DEF Layout
<1>2. Len(ls) \in Nat \ {0}
  BY <1>1, EmptySeq, LenProperties
<1>3. \A n \in 1..Len(ls) : ls[n] \in Seq(Chars) /\ Len(ls[n]) \in Nat
  BY <1>1
<1>4. \A k \in Shown(S) : /\ line[k] \in 1..Len(ls) /\ col[k] \in 1..Len(ls[line[k]])
                          /\ ls[line[k]][col[k]] = text[k]
  BY DEF Layout
<1>5. \A k \in Shown(S) : line[k] \in Nat /\ col[k] \in Nat
  BY <1>2, <1>3, <1>4
<1>6. \A n \in 1..Len(ls) : \A z \in 1..Len(ls[n]) : \E k \in Shown(S) : line[k] = n /\ col[k] = z
  BY DEF Layout
<1>7. \A k, l \in Shown(S) : k < l => IF Apart(k, l, Breaks(S)) THEN line[k] < line[l]
                              ELSE line[k] = line[l] /\ col[k] < col[l]
  BY DEF Layout
<1>8. ASSUME NEW k \in Shown(S), NEW l \in Shown(S), Apart(k, l, Breaks(S)) PROVE k < l
  <2>1. PICK b \in Breaks(S) : k < b /\ b < l
    BY <1>8 DEF Apart
  <2>2. k \in Nat /\ l \in Nat /\ b \in Nat
    BY <2>1, ShownNat, SpeltIs, TextIs
  <2>3. QED
    BY <2>1, <2>2
<1>9. QED
  BY <1>1, <1>2, <1>3, <1>4, <1>5, <1>6, <1>7, <1>8

LEMMA LayoutReads ==
  ASSUME text \in Seq(Chars), NEW S \in Lexings, NEW ps, NEW ls, NEW line, NEW col,
         Layout(Shown(S), Breaks(S), ps, ls, line, col), NEW n \in 1..Len(ls), NEW at \in Nat
  PROVE  ReadSoFar(S, LinesRead(S, line, n), LineRead(S, line, col, n, at))
<1>0. \A k \in Shown(S) : k \in Nat
  BY ShownNat
<1>1. /\ \A k \in Shown(S) : line[k] \in Nat /\ col[k] \in Nat
      /\ \A k, l \in Shown(S) : k < l /\ Apart(k, l, Breaks(S)) => line[k] < line[l]
      /\ \A k, l \in Shown(S) : k < l /\ ~Apart(k, l, Breaks(S)) => line[k] = line[l] /\ col[k] < col[l]
      /\ \A k, l \in Shown(S) : Apart(k, l, Breaks(S)) => k < l
  BY LayoutIs
<1>2. n \in Nat
  BY LayoutIs
<1>3. ASSUME NEW k \in Shown(S), NEW l \in Shown(S), line[k] < n, ~(line[l] < n)
      PROVE  k < l /\ Apart(k, l, Breaks(S))
  <2>1. line[k] < line[l] /\ line[k] # line[l] /\ ~(line[l] < line[k])
    BY <1>1, <1>2, <1>3
  <2>2. k # l /\ ~(l < k)
    BY <1>1, <2>1
  <2>3. k < l
    BY <1>0, <2>2
  <2>4. QED
    BY <1>1, <2>1, <2>3
<1>4. ASSUME NEW k \in Shown(S), NEW l \in Shown(S), line[k] = n, line[l] = n PROVE ~Apart(k, l, Breaks(S))
  BY <1>1, <1>2, <1>4
<1>5. ASSUME NEW k \in Shown(S), NEW l \in Shown(S), line[k] = n, col[k] < at, ~(line[l] < n),
             ~(line[l] = n /\ col[l] < at)
      PROVE  k < l
  <2>1. k # l
    BY <1>5
  <2>2. ~(l < k /\ Apart(l, k, Breaks(S)))
    BY <1>1, <1>5
  <2>3. ASSUME l < k, ~Apart(l, k, Breaks(S)) PROVE FALSE
    <3>1. line[l] = line[k] /\ col[l] < col[k]
      BY <1>1, <2>3
    <3>2. QED
      BY <1>1, <1>5, <3>1
  <2>4. QED
    BY <1>0, <2>1, <2>2, <2>3
<1>6. \A k : k \in LinesRead(S, line, n) <=> k \in Shown(S) /\ line[k] < n
  BY DEF LinesRead
<1>7. \A k : k \in LineRead(S, line, col, n, at) <=> k \in Shown(S) /\ line[k] = n /\ col[k] < at
  BY DEF LineRead
<1>8. \A k \in LineRead(S, line, col, n, at) : k \notin LinesRead(S, line, n)
  BY <1>1, <1>2, <1>6, <1>7
<1>9. QED
  BY <1>3, <1>4, <1>5, <1>6, <1>7, <1>8 DEF ReadSoFar

LEMMA LayoutCursor ==
  ASSUME text \in Seq(Chars), NEW S \in Lexings, NEW ps, NEW ls, NEW line, NEW col,
         Layout(Shown(S), Breaks(S), ps, ls, line, col), NEW n \in 1..Len(ls), NEW at \in 1..Len(ls[n]), NEW m, m = at + 1
  PROVE  \E k : /\ Cursor(S, LinesRead(S, line, n), LineRead(S, line, col, n, at), k)
                /\ text[k] = ls[n][at]
                /\ LineRead(S, line, col, n, m) = LineRead(S, line, col, n, at) \cup {k}
<1>0. \A k \in Shown(S) : k \in Nat
  BY ShownNat
<1>1. /\ \A k \in Shown(S) : line[k] \in Nat /\ col[k] \in Nat /\ ls[line[k]][col[k]] = text[k]
      /\ \A k, l \in Shown(S) : k < l /\ Apart(k, l, Breaks(S)) => line[k] < line[l]
      /\ \A k, l \in Shown(S) : k < l /\ ~Apart(k, l, Breaks(S)) => line[k] = line[l] /\ col[k] < col[l]
      /\ \A k, l \in Shown(S) : Apart(k, l, Breaks(S)) => k < l
      /\ \A i \in 1..Len(ls) : \A z \in 1..Len(ls[i]) : \E k \in Shown(S) : line[k] = i /\ col[k] = z
  BY LayoutIs
<1>2. n \in Nat /\ at \in Nat
  BY LayoutIs
<1>3. PICK k \in Shown(S) : line[k] = n /\ col[k] = at
  BY <1>1
<1>4. \A l : l \in LinesRead(S, line, n) <=> l \in Shown(S) /\ line[l] < n
  BY DEF LinesRead
<1>5. \A a, l : l \in LineRead(S, line, col, n, a) <=> l \in Shown(S) /\ line[l] = n /\ col[l] < a
  BY DEF LineRead
<1>6. ASSUME NEW l \in Shown(S), l < k PROVE line[l] < n \/ (line[l] = n /\ col[l] < at)
  BY <1>1, <1>3, <1>6
<1>7. ASSUME NEW l \in Shown(S), line[l] = n, col[l] < at PROVE ~Apart(l, k, Breaks(S))
  <2>1. ~(line[l] < line[k])
    BY <1>1, <1>2, <1>3, <1>7
  <2>2. QED
    BY <1>1, <2>1
<1>8. k \notin LinesRead(S, line, n) /\ k \notin LineRead(S, line, col, n, at)
  BY <1>2, <1>3, <1>4, <1>5
<1>9. Cursor(S, LinesRead(S, line, n), LineRead(S, line, col, n, at), k)
  BY <1>3, <1>4, <1>5, <1>6, <1>7, <1>8 DEF Cursor
<1>10. ASSUME NEW l \in Shown(S), line[l] = n, col[l] = at PROVE l = k
  <2>1. ~(line[l] < line[k]) /\ ~(line[k] < line[l]) /\ ~(col[l] < col[k]) /\ ~(col[k] < col[l])
    BY <1>1, <1>2, <1>3, <1>10
  <2>2. ~(l < k) /\ ~(k < l)
    BY <1>1, <2>1
  <2>3. QED
    BY <1>0, <2>2
<1>12. ASSUME NEW l PROVE l \in LineRead(S, line, col, n, m) <=> l \in LineRead(S, line, col, n, at) \/ l = k
  <2>1. l \in Shown(S) => (col[l] < m <=> col[l] < at \/ col[l] = at)
    BY <1>1, <1>2
  <2>2. QED
    BY <1>3, <1>5, <1>10, <2>1
<1>13. LineRead(S, line, col, n, m) = LineRead(S, line, col, n, at) \cup {k}
  BY <1>12
<1>14. text[k] = ls[n][at]
  BY <1>1, <1>3
<1>15. QED
  BY <1>9, <1>13, <1>14

LEMMA LayoutLineEnds ==
  ASSUME text \in Seq(Chars), NEW S \in Lexings, NEW ps, NEW ls, NEW line, NEW col,
         Layout(Shown(S), Breaks(S), ps, ls, line, col), NEW n \in 1..Len(ls), NEW at \in Nat, at > Len(ls[n]),
         NEW O, NEW E, O = LinesRead(S, line, n), E = LineRead(S, line, col, n, at),
         NEW m, m = n + 1
  PROVE  /\ \A k \in E, l \in Shown(S) : l \notin O /\ l \notin E => Apart(k, l, Breaks(S))
         /\ LinesRead(S, line, m) = O \cup E
         /\ LineRead(S, line, col, m, 1) = {}
         /\ n = Len(ls) => O \cup E = Shown(S)
<1>1. /\ \A k \in Shown(S) : line[k] \in Nat /\ col[k] \in Nat /\ line[k] \in 1..Len(ls) /\ col[k] \in 1..Len(ls[line[k]])
      /\ \A k, l \in Shown(S) : k < l /\ ~Apart(k, l, Breaks(S)) => line[k] = line[l] /\ col[k] < col[l]
      /\ Len(ls[n]) \in Nat /\ Len(ls) \in Nat
  BY LayoutIs
<1>2. n \in Nat
  BY LayoutIs
<1>3. \A l : l \in O <=> l \in Shown(S) /\ line[l] < n
  BY DEF LinesRead
<1>4. \A l : l \in E <=> l \in Shown(S) /\ line[l] = n /\ col[l] < at
  BY DEF LineRead
<1>5. ASSUME NEW l \in Shown(S), line[l] = n PROVE col[l] < at
  BY <1>1, <1>5
<1>6. \A l : l \in O \cup E <=> l \in Shown(S) /\ (line[l] < n \/ line[l] = n)
  BY <1>3, <1>4, <1>5
<1>7. ASSUME NEW k \in E, NEW l \in Shown(S), l \notin O, l \notin E PROVE Apart(k, l, Breaks(S))
  <2>1. ReadSoFar(S, O, E)
    BY LayoutReads
  <2>2. k < l
    BY <1>7, <2>1 DEF ReadSoFar
  <2>3. k \in Shown(S) /\ line[k] = n /\ line[l] # n
    BY <1>4, <1>5, <1>7
  <2>4. QED
    BY <1>1, <2>2, <2>3
<1>9. \A l \in Shown(S) : line[l] < m <=> line[l] < n \/ line[l] = n
  BY <1>1, <1>2
<1>10. \A l : l \in LinesRead(S, line, m) <=> l \in Shown(S) /\ line[l] < m
  BY DEF LinesRead
<1>11. LinesRead(S, line, m) = O \cup E
  BY <1>6, <1>9, <1>10
<1>12. \A l \in Shown(S) : ~(col[l] < 1)
  BY <1>1
<1>13. LineRead(S, line, col, m, 1) = {}
  BY <1>12 DEF LineRead
<1>14. ASSUME n = Len(ls) PROVE O \cup E = Shown(S)
  <2>1. \A l \in Shown(S) : line[l] < n \/ line[l] = n
    BY <1>1, <1>14
  <2>2. QED
    BY <1>6, <2>1
<1>15. QED
  BY <1>7, <1>11, <1>13, <1>14

--------------------------------------------------------------------------------
(* No step changes the text.                                                  *)

\* The operators of the text are those of the next state: no step changes the text.
LEMMA SameLexemes ==
  ASSUME text' = text
  PROVE  /\ \A x : Marks(x)' = Marks(x)
         /\ \A x, y : Pairs(x, y)' = Pairs(x, y)
         /\ Comments' = Comments /\ Blocks' = Blocks /\ QuoteEnds' = QuoteEnds
         /\ \A p : NextLexeme(p)' = NextLexeme(p)
         /\ Lexings' = Lexings
<1>1. \A x : Marks(x)' = Marks(x)
  BY DEF Marks
<1>2. \A x, y : Pairs(x, y)' = Pairs(x, y)
  BY DEF Pairs
<1>3. Comments' = Comments /\ Blocks' = Blocks /\ QuoteEnds' = QuoteEnds
  BY <1>1, <1>2 DEF Comments, Blocks, QuoteEnds, Colon, Dash, Quote, NL
<1>4. \A A, p : FirstIn(A, p)' = FirstIn(A, p)
  BY DEF FirstIn
<1>5. \A k, n : Beyond(k, n)' = Beyond(k, n)
  BY DEF Beyond
<1>6. \A p : AfterQuote(p)' = AfterQuote(p)
  BY <1>1, <1>3, <1>4 DEF AfterQuote
<1>7. \A p : AfterComment(p)' = AfterComment(p)
  BY <1>1, <1>4, <1>5 DEF AfterComment
<1>8. \A p : AfterBlock(p)' = AfterBlock(p)
  BY <1>2, <1>4, <1>5 DEF AfterBlock
<1>9. \A p : NextLexeme(p)' = NextLexeme(p)
  BY <1>1, <1>3, <1>6, <1>7, <1>8 DEF NextLexeme
<1>10. Lexings' = Lexings
  BY <1>9 DEF Lexings
<1>11. QED
  BY <1>1, <1>2, <1>3, <1>9, <1>10

LEMMA SameShown ==
  ASSUME text' = text
  PROVE  /\ \A S : Breaks(S)' = Breaks(S)
         /\ \A S : Ends(S)' = Ends(S)
         /\ \A S : Shown(S)' = Shown(S)
         /\ \A S : Spelt(S)' = Spelt(S)
         /\ \A S, A : Starts(S, A)' = Starts(S, A)
<1>1. \A S : Breaks(S)' = Breaks(S)
  BY SameLexemes DEF Breaks
<1>2. \A S : Ends(S)' = Ends(S)
  BY <1>1, SameLexemes DEF Ends
<1>3. \A S : Shown(S)' = Shown(S)
  BY <1>1, SameLexemes DEF Shown
<1>4. \A S : Spelt(S)' = Spelt(S)
  BY <1>2, SameLexemes DEF Spelt
<1>5. \A S, A : Starts(S, A)' = Starts(S, A)
  BY <1>4 DEF Starts
<1>6. QED
  BY <1>1, <1>2, <1>3, <1>4, <1>5

LEMMA SameLayout ==
  ASSUME text' = text
  PROVE  \A D, B, ps, ls, line, col : Layout(D, B, ps, ls, line, col)' <=> Layout(D, B, ps, ls, line, col)
BY DEF Layout

LEMMA SameSplit ==
  ASSUME text' = text
  PROVE  \A ps, q, b, ls : SplitOK(ps, q, b, ls)' <=> SplitOK(ps, q, b, ls)
<1>1. \A S, p : Cut(S, p)' <=> Cut(S, p)
  BY SameLexemes DEF Cut
<1>2. \A S, p, ps, q, b : Where(S, p, ps, q, b)' <=> Where(S, p, ps, q, b)
  BY <1>1, SameLexemes DEF Where
<1>3. \A S, ps, ls, line, col : LaidOut(S, ps, ls, line, col)' <=> LaidOut(S, ps, ls, line, col)
  BY SameLayout, SameShown DEF LaidOut
<1>4. \A S, ps, ls : Laid(S, ps, ls)' <=> Laid(S, ps, ls)
  BY <1>3 DEF Laid
<1>5. \A S, p, ps, q, b, ls : SplitAt(S, p, ps, q, b, ls)' <=> SplitAt(S, p, ps, q, b, ls)
  BY <1>2, <1>4 DEF SplitAt
<1>6. QED
  BY <1>5 DEF SplitOK

LEMMA SameWords ==
  ASSUME text' = text
  PROVE  /\ \A S : Words(S)' = Words(S)
         /\ \A S : Commands(S)' = Commands(S)
         /\ \A S, E : Current(S, E)' = Current(S, E)
         /\ \A S, E : Done(S, E)' = Done(S, E)
         /\ \A S, E : Opened(S, E)' <=> Opened(S, E)
         /\ \A t, S, E : WordsRead(t, S, E)' <=> WordsRead(t, S, E)
         /\ \A c, S, O : CommandsRead(c, S, O)' <=> CommandsRead(c, S, O)
         /\ \A S, line, n : LinesRead(S, line, n)' = LinesRead(S, line, n)
         /\ \A S, line, col, n, at : LineRead(S, line, col, n, at)' = LineRead(S, line, col, n, at)
<1>1. \A S : Words(S)' = Words(S)
  BY SameShown DEF Words
<1>2. \A S : Commands(S)' = Commands(S)
  BY <1>1, SameShown DEF Commands
<1>3. \A S, E : Current(S, E)' = Current(S, E)
  BY SameShown DEF Current
<1>4. \A S, E : Done(S, E)' = Done(S, E)
  BY SameShown DEF Done
<1>5. \A S, E : Opened(S, E)' <=> Opened(S, E)
  BY SameLexemes DEF Opened
<1>6. \A t, S, E : WordsRead(t, S, E)' <=> WordsRead(t, S, E)
  BY <1>1, <1>3, <1>4 DEF WordsRead
<1>7. \A c, S, O : CommandsRead(c, S, O)' <=> CommandsRead(c, S, O)
  BY <1>2, SameShown DEF CommandsRead
<1>8. \A S, line, n : LinesRead(S, line, n)' = LinesRead(S, line, n)
  BY SameShown DEF LinesRead
<1>9. \A S, line, col, n, at : LineRead(S, line, col, n, at)' = LineRead(S, line, col, n, at)
  BY SameShown DEF LineRead
<1>10. QED
  BY <1>1, <1>2, <1>3, <1>4, <1>5, <1>6, <1>7, <1>8, <1>9

--------------------------------------------------------------------------------
(* The invariant of ModfileText.                                              *)

\* The turns of split_commands, as actions.
SplitTurn == Block \/ LineEnd \/ Quoted \/ OpenQuote \/ Comment \/ OpenBlock \/ Semicolon \/ Plain

LEMMA ReadsIs ==
  ASSUME text \in Seq(Chars), pos \in 1..Len(text), NEW x, NEW y
  PROVE  Reads(x, y) <=> pos \in Pairs(x, y)
<1>1. DOMAIN text = 1..Len(text)
  BY TextIs
<1>2. QED
  BY <1>1 DEF Reads, Pairs, char

LEMMA SplitKeeps ==
  ASSUME text \in Seq(Chars), SplitOK(pos, inQuotes, inBlock, lines), SplitTurn
  PROVE  SplitOK(pos', inQuotes', inBlock', lines')
<1>0. /\ pos <= Len(text) /\ Len(text) \in Nat /\ DOMAIN text = 1..Len(text)
  BY TextIs DEF SplitTurn, Block, LineEnd, Quoted, OpenQuote, Comment, OpenBlock, Semicolon, Plain, Outside, Turn
<1>1. PICK S, p : SplitAt(S, p, pos, inQuotes, inBlock, lines)
  BY DEF SplitOK
<1>2. Where(S, p, pos, inQuotes, inBlock)
  BY <1>1 DEF SplitAt
<1>3. /\ pos \in 1..Len(text) /\ pos \in Nat
      /\ inQuotes \in BOOLEAN /\ inBlock \in BOOLEAN /\ ~(inQuotes /\ inBlock)
      /\ ~inQuotes /\ ~inBlock => pos = p
  BY <1>0, <1>2 DEF Where
<1>4. \A x, y : Reads(x, y) <=> pos \in Pairs(x, y)
  BY <1>3, ReadsIs
<1>5. \A x : pos \in Marks(x) <=> char = x
  BY <1>0, <1>3 DEF Marks, char
<1>6. ASSUME ~inQuotes, ~inBlock PROVE Started(S, pos, lines)
  <2>1. inQuotes = FALSE /\ inBlock = FALSE /\ p = pos
    BY <1>3, <1>6
  <2>2. SplitAt(S, pos, pos, FALSE, FALSE, lines)
    BY <1>1, <2>1
  <2>3. QED
    BY <2>2 DEF Started
<1>7. ASSUME inQuotes PROVE SplitAt(S, p, pos, TRUE, FALSE, lines)
  <2>1. inQuotes = TRUE /\ inBlock = FALSE
    BY <1>3, <1>7
  <2>2. QED
    BY <1>1, <2>1
<1>8. ASSUME inBlock PROVE SplitAt(S, p, pos, FALSE, TRUE, lines)
  <2>1. inQuotes = FALSE /\ inBlock = TRUE
    BY <1>3, <1>8
  <2>2. QED
    BY <1>1, <2>1
<1>9. CASE Block
  <2>1. /\ inBlock /\ inBlock' = ~Reads(Colon, Dash) /\ lines' = lines /\ inQuotes' = inQuotes
        /\ pos' = IF Reads(Colon, Dash) THEN pos + 2 ELSE pos + 1
    BY <1>9 DEF Block
  <2>2. inQuotes' = FALSE
    BY <1>3, <2>1
  <2>3. SplitAt(S, p, pos, FALSE, TRUE, lines)
    BY <1>8, <2>1
  <2>4. CASE Reads(Colon, Dash)
    <3>1. SplitOK(pos + 2, FALSE, FALSE, lines)
      BY <1>3, <1>4, <2>3, <2>4, BlockTurn
    <3>2. inBlock' = FALSE /\ pos' = pos + 2
      BY <2>1, <2>4
    <3>3. QED
      BY <2>1, <2>2, <3>1, <3>2
  <2>5. CASE ~Reads(Colon, Dash)
    <3>1. SplitOK(pos + 1, FALSE, TRUE, lines)
      BY <1>3, <1>4, <2>3, <2>5, BlockTurn
    <3>2. inBlock' = TRUE /\ pos' = pos + 1
      BY <2>1, <2>5
    <3>3. QED
      BY <2>1, <2>2, <3>1, <3>2
  <2>6. QED
    BY <2>4, <2>5
<1>10. CASE LineEnd
  <2>1. /\ ~inBlock /\ char = NL /\ lines' = Append(lines, <<>>) /\ inQuotes' = FALSE
        /\ pos' = pos + 1 /\ inBlock' = inBlock
    BY <1>10 DEF LineEnd, NewLine
  <2>2. inBlock' = FALSE
    BY <1>3, <2>1
  <2>3. PICK S2 : Started(S2, pos, lines)
    <3>1. CASE inQuotes
      BY <1>3, <1>7, <2>1, <3>1, QuoteClosed DEF char
    <3>2. CASE ~inQuotes
      BY <1>6, <2>1, <3>2
    <3>3. QED
      BY <3>1, <3>2
  <2>4. pos \in Marks(NL)
    BY <1>5, <2>1
  <2>5. SplitOK(NextLexeme(pos), FALSE, FALSE, Append(lines, <<>>))
    BY <1>3, <2>3, <2>4, BreakTurn
  <2>6. NextLexeme(pos) = pos + 1
    <3>1. pos \notin Marks(Quote) /\ pos \notin Comments /\ pos \notin Blocks
      BY <2>4 DEF Marks, Comments, Blocks, Pairs, Quote, NL, Colon, Dash
    <3>2. QED
      BY <3>1, NextOther
  <2>7. QED
    BY <2>1, <2>2, <2>5, <2>6
<1>11. CASE Quoted
  <2>1. /\ ~inBlock /\ inQuotes /\ char # NL /\ inQuotes' = (char # Quote)
        /\ lines' = Append(Front(lines), Append(Last(lines), char))
        /\ pos' = pos + 1 /\ inBlock' = inBlock
    BY <1>11 DEF Quoted, Keep
  <2>2. inBlock' = FALSE
    BY <1>3, <2>1
  <2>3. SplitOK(pos + 1, text[pos] # Quote, FALSE, Append(Front(lines), Append(Last(lines), text[pos])))
    BY <1>3, <1>7, <2>1, QuotedTurn DEF char
  <2>4. QED
    BY <2>1, <2>2, <2>3 DEF char
<1>12. CASE OpenQuote
  <2>1. /\ ~inBlock /\ ~inQuotes /\ char = Quote /\ inQuotes' = TRUE
        /\ lines' = Append(Front(lines), Append(Last(lines), char))
        /\ pos' = pos + 1 /\ inBlock' = inBlock
    BY <1>12 DEF OpenQuote, Outside, Keep
  <2>2. inBlock' = FALSE
    BY <1>3, <2>1
  <2>3. pos \notin Marks(NL) /\ pos \notin Marks(Semi) /\ pos \notin Comments /\ pos \notin Blocks
    <3>1. pos \in Marks(Quote)
      BY <1>5, <2>1
    <3>2. QED
      BY <3>1, KindsApart DEF Marks, Quote, NL, Semi
  <2>4. SplitOK(pos + 1, text[pos] = Quote, FALSE, Append(Front(lines), Append(Last(lines), text[pos])))
    BY <1>3, <1>6, <2>1, <2>3, KeptTurn
  <2>5. (text[pos] = Quote) = TRUE
    BY <2>1 DEF char
  <2>6. QED
    BY <2>1, <2>2, <2>4, <2>5 DEF char
<1>13. CASE Comment
  <2>1. /\ ~inBlock /\ ~inQuotes /\ Reads(Colon, Colon) /\ inQuotes' = inQuotes /\ inBlock' = inBlock
        /\ lines' = Append(lines, <<>>)
        /\ pos' = Min({k \in pos..Len(text) : text[k] = NL} \cup {Len(text)}) + 1
    BY <1>13 DEF Comment, Outside, NewLine
  <2>2. inBlock' = FALSE /\ inQuotes' = FALSE
    BY <1>3, <2>1
  <2>3. pos \in Comments
    BY <1>4, <2>1 DEF Comments
  <2>4. SplitOK(NextLexeme(pos), FALSE, FALSE, Append(lines, <<>>))
    BY <1>3, <1>6, <2>1, <2>3, BreakTurn
  <2>5. NextLexeme(pos) = pos'
    BY <2>1, <2>3, NextComment
  <2>6. QED
    BY <2>1, <2>2, <2>4, <2>5
<1>14. CASE OpenBlock
  <2>1. /\ ~inBlock /\ ~inQuotes /\ Reads(Dash, Colon) /\ inQuotes' = inQuotes /\ inBlock' = TRUE
        /\ lines' = lines /\ pos' = pos + 2
    BY <1>14 DEF OpenBlock, Outside
  <2>2. inQuotes' = FALSE
    BY <1>3, <2>1
  <2>3. pos \in Blocks
    BY <1>4, <2>1 DEF Blocks
  <2>4. SplitOK(pos + 2, FALSE, TRUE, lines)
    BY <1>3, <1>6, <2>1, <2>3, BlockOpens
  <2>5. QED
    BY <2>1, <2>2, <2>4
<1>15. CASE Semicolon
  <2>1. /\ ~inBlock /\ ~inQuotes /\ char = Semi /\ inQuotes' = inQuotes /\ inBlock' = inBlock
        /\ lines' = Append(lines, <<>>) /\ pos' = pos + 1
    BY <1>15 DEF Semicolon, Outside, NewLine
  <2>2. inBlock' = FALSE /\ inQuotes' = FALSE
    BY <1>3, <2>1
  <2>3. pos \in Marks(Semi)
    BY <1>5, <2>1
  <2>4. SplitOK(NextLexeme(pos), FALSE, FALSE, Append(lines, <<>>))
    BY <1>3, <1>6, <2>1, <2>3, BreakTurn
  <2>5. NextLexeme(pos) = pos + 1
    <3>1. pos \notin Marks(Quote) /\ pos \notin Comments /\ pos \notin Blocks
      BY <2>3 DEF Marks, Comments, Blocks, Pairs, Quote, Semi, Colon, Dash
    <3>2. QED
      BY <3>1, NextOther
  <2>6. QED
    BY <2>1, <2>2, <2>4, <2>5
<1>16. CASE Plain
  <2>1. /\ ~inBlock /\ ~inQuotes /\ char # NL /\ char # Quote /\ char # Semi
        /\ ~Reads(Colon, Colon) /\ ~Reads(Dash, Colon) /\ inQuotes' = inQuotes /\ inBlock' = inBlock
        /\ lines' = Append(Front(lines), Append(Last(lines), char)) /\ pos' = pos + 1
    BY <1>16 DEF Plain, Outside, Keep
  <2>2. inBlock' = FALSE /\ inQuotes' = FALSE
    BY <1>3, <2>1
  <2>3. pos \notin Marks(NL) /\ pos \notin Marks(Semi) /\ pos \notin Comments /\ pos \notin Blocks
    BY <1>4, <1>5, <2>1 DEF Comments, Blocks
  <2>4. SplitOK(pos + 1, text[pos] = Quote, FALSE, Append(Front(lines), Append(Last(lines), text[pos])))
    BY <1>3, <1>6, <2>1, <2>3, KeptTurn
  <2>5. (text[pos] = Quote) = FALSE
    BY <2>1 DEF char
  <2>6. QED
    BY <2>1, <2>2, <2>4, <2>5 DEF char
<1>17. QED
  BY <1>9, <1>10, <1>11, <1>12, <1>13, <1>14, <1>15, <1>16 DEF SplitTurn

\* tokenise is in line n of what split_commands made.
TokenisedAt(S, ls, line, col, n, ps, rest, t, c) ==
  /\ S \in Lexings /\ Layout(Shown(S), Breaks(S), ps, ls, line, col)
  /\ n \in 1..Len(ls) /\ rest \in Seq(Seq(Chars)) /\ Len(rest) = Len(ls) - n + 1
  /\ \A i \in 1..Len(rest) : rest[i] = ls[n + i - 1]
  /\ t \in TokenType /\ t.at \in 1..(Len(ls[n]) + 1)
  /\ CommandsRead(c, S, LinesRead(S, line, n))
  /\ WordsRead(t, S, LineRead(S, line, col, n, t.at))
  /\ t.inQuotes <=> Opened(S, LineRead(S, line, col, n, t.at))
TokenOK(ps, rest, t, c) == \E S, ls, line, col, n : TokenisedAt(S, ls, line, col, n, ps, rest, t, c)

Grammatical(c) == \E S \in Lexings : c = InOrder(Starts(S, Breaks(S)), Commands(S))

LEMMA NothingRead ==
  ASSUME NEW S
  PROVE  NoToken \in TokenType /\ WordsRead(NoToken, S, {}) /\ ~Opened(S, {})
<1>1. NoToken \in TokenType
  <2>1. <<>> \in Seq(Chars) /\ <<>> \in Seq(Seq(Chars))
    OBVIOUS
  <2>2. QED
    BY <2>1 DEF NoToken, TokenType
<1>2. Current(S, {}) = {} /\ Done(S, {}) = {} /\ ~Opened(S, {})
  BY DEF Current, Done, Opened
<1>3. NoToken.current = <<>> /\ NoToken.tokens = <<>>
  BY DEF NoToken
<1>4. Orders(<<>>, {}, text, Rising) /\ Orders(<<>>, {}, Words(S), Rising)
  BY OrdersNone
<1>5. WordsRead(NoToken, S, {})
  BY <1>2, <1>3, <1>4 DEF WordsRead
<1>6. QED
  BY <1>1, <1>2, <1>5

LEMMA TokenStarts ==
  ASSUME text \in Seq(Chars), NEW q, NEW b, NEW ls, NEW ps, SplitOK(ps, q, b, ls), ps > Len(text)
  PROVE  TokenOK(ps, ls, NoToken, <<>>)
<1>1. PICK S, line, col : S \in Lexings /\ Layout(Shown(S), Breaks(S), ps, ls, line, col)
  BY TextEnds
<1>2. /\ ls \in Seq(Seq(Chars)) /\ Len(ls) \in Nat \ {0}
      /\ \A k \in Shown(S) : line[k] \in Nat /\ line[k] \in 1..Len(ls) /\ col[k] \in 1..Len(ls[line[k]])
      /\ \A n \in 1..Len(ls) : Len(ls[n]) \in Nat
  BY <1>1, LayoutIs
<1>3. PICK n : n = 1
  OBVIOUS
<1>4. n \in 1..Len(ls) /\ Len(ls) = Len(ls) - n + 1 /\ \A i \in 1..Len(ls) : ls[i] = ls[n + i - 1]
  BY <1>2, <1>3
<1>5. NoToken.at \in 1..(Len(ls[n]) + 1) /\ NoToken.at = 1
  BY <1>2, <1>4 DEF NoToken
<1>6. \A k \in Shown(S) : ~(line[k] < n) /\ ~(col[k] < 1)
  BY <1>2, <1>3
<1>7. LinesRead(S, line, n) = {} /\ LineRead(S, line, col, n, NoToken.at) = {}
  BY <1>5, <1>6 DEF LinesRead, LineRead
<1>8. CommandsRead(<<>>, S, {})
  <2>1. {x \in {} : x \in Starts(S, Breaks(S))} = {}
    OBVIOUS
  <2>2. Orders(<<>>, {}, Commands(S), Rising)
    BY OrdersNone
  <2>3. <<>> \in Seq(Seq(Seq(Chars)))
    OBVIOUS
  <2>4. QED
    BY <2>1, <2>2, <2>3 DEF CommandsRead
<1>9. NoToken \in TokenType /\ WordsRead(NoToken, S, {}) /\ ~Opened(S, {}) /\ ~NoToken.inQuotes
  BY NothingRead DEF NoToken
<1>10. TokenisedAt(S, ls, line, col, n, ps, ls, NoToken, <<>>)
  BY <1>1, <1>2, <1>4, <1>5, <1>7, <1>8, <1>9 DEF TokenisedAt
<1>11. QED
  BY <1>10 DEF TokenOK

LEMMA TokenCharacter ==
  ASSUME text \in Seq(Chars), NEW ps, NEW rest, NEW t, NEW c, TokenOK(ps, rest, t, c), t.at <= Len(rest[1]),
         NEW v, v = Take(t, rest[1][t.at]), NEW u, u = [v EXCEPT !.at = @ + 1]
  PROVE  TokenOK(ps, rest, u, c)
<1>1. PICK S, ls, line, col, n : TokenisedAt(S, ls, line, col, n, ps, rest, t, c)
  BY DEF TokenOK
<1>2. /\ S \in Lexings /\ Layout(Shown(S), Breaks(S), ps, ls, line, col)
      /\ n \in 1..Len(ls) /\ rest \in Seq(Seq(Chars)) /\ Len(rest) = Len(ls) - n + 1
      /\ \A i \in 1..Len(rest) : rest[i] = ls[n + i - 1]
      /\ t \in TokenType /\ t.at \in 1..(Len(ls[n]) + 1)
      /\ CommandsRead(c, S, LinesRead(S, line, n))
      /\ WordsRead(t, S, LineRead(S, line, col, n, t.at))
      /\ t.inQuotes <=> Opened(S, LineRead(S, line, col, n, t.at))
  BY <1>1 DEF TokenisedAt
<1>3. n \in Nat /\ Len(ls) \in Nat /\ Len(ls[n]) \in Nat
  BY <1>2, LayoutIs
<1>4. rest[1] = ls[n]
  <2>1. 1 \in 1..Len(rest) /\ n + 1 - 1 = n
    BY <1>2, <1>3
  <2>2. QED
    BY <1>2, <2>1
<1>5. PICK at : at = t.at /\ at \in 1..Len(ls[n]) /\ at \in Nat
  BY <1>2, <1>3, <1>4
<1>6. PICK O, E : O = LinesRead(S, line, n) /\ E = LineRead(S, line, col, n, at)
  OBVIOUS
<1>7. PICK k : /\ Cursor(S, O, E, k) /\ text[k] = ls[n][at]
               /\ LineRead(S, line, col, n, at + 1) = E \cup {k}
  <2>1. at \in 1..Len(ls[n]) /\ n \in 1..Len(ls)
    BY <1>2, <1>5
  <2>2. S \in Lexings /\ Layout(Shown(S), Breaks(S), ps, ls, line, col)
    BY <1>2
  <2>3. PICK m : m = at + 1
    OBVIOUS
  <2>4. \E k : /\ Cursor(S, LinesRead(S, line, n), LineRead(S, line, col, n, at), k)
               /\ text[k] = ls[n][at]
               /\ LineRead(S, line, col, n, m) = LineRead(S, line, col, n, at) \cup {k}
    BY <2>1, <2>2, <2>3, LayoutCursor
  <2>5. QED
    BY <1>6, <2>3, <2>4
<1>8. ReadSoFar(S, O, E)
  BY <1>2, <1>5, <1>6, LayoutReads
<1>9. v = Take(t, text[k])
  BY <1>4, <1>5, <1>7
<1>10. PICK F : F = E \cup {k}
  OBVIOUS
<1>11. /\ v \in TokenType /\ WordsRead(v, S, F) /\ v.at = at
       /\ v.inQuotes <=> Opened(S, F)
  <2>1. S \in Lexings /\ t \in TokenType /\ WordsRead(t, S, E) /\ (t.inQuotes <=> Opened(S, E))
    BY <1>2, <1>5, <1>6
  <2>2. Cursor(S, O, E, k)
    BY <1>7
  <2>3. Took(v, t, S, F)
    BY <1>8, <1>9, <1>10, <2>1, <2>2, TakeReads
  <2>4. QED
    BY <1>5, <2>3 DEF Took
<1>12. u = [v EXCEPT !.at = @ + 1]
  OBVIOUS
<1>13. /\ u \in TokenType /\ u.at = at + 1 /\ u.current = v.current /\ u.tokens = v.tokens
       /\ u.inQuotes = v.inQuotes
  <2>1. /\ v.at \in Nat /\ v.current \in Seq(Chars) /\ v.tokens \in Seq(Seq(Chars)) /\ v.inQuotes \in BOOLEAN
        /\ v = [at |-> v.at, tokens |-> v.tokens, current |-> v.current, inQuotes |-> v.inQuotes]
    BY <1>11 DEF TokenType
  <2>2. u = [at |-> v.at + 1, tokens |-> v.tokens, current |-> v.current, inQuotes |-> v.inQuotes]
    BY <1>12, <2>1
  <2>3. v.at + 1 = at + 1 /\ at + 1 \in Nat
    BY <1>5, <1>11
  <2>4. QED
    BY <2>1, <2>2, <2>3 DEF TokenType
<1>14. WordsRead(u, S, F)
  BY <1>11, <1>13 DEF WordsRead
<1>15. u.at \in 1..(Len(ls[n]) + 1)
  BY <1>3, <1>5, <1>13
<1>16. LineRead(S, line, col, n, u.at) = F
  BY <1>7, <1>10, <1>13
<1>17. TokenisedAt(S, ls, line, col, n, ps, rest, u, c)
  BY <1>2, <1>11, <1>13, <1>14, <1>15, <1>16 DEF TokenisedAt
<1>18. QED
  BY <1>17 DEF TokenOK

LEMMA TokenLine ==
  ASSUME text \in Seq(Chars), NEW ps, NEW rest, NEW t, NEW c, TokenOK(ps, rest, t, c), t.at > Len(rest[1]),
         NEW ts, ts = Flush(t).tokens, NEW c2, c2 = IF ts = <<>> THEN c ELSE Append(c, ts)
  PROVE  /\ Len(rest) = 1 => Grammatical(c2)
         /\ Len(rest) # 1 => TokenOK(ps, Tail(rest), NoToken, c2)
<1>1. PICK S, ls, line, col, n : TokenisedAt(S, ls, line, col, n, ps, rest, t, c)
  BY DEF TokenOK
<1>2. /\ S \in Lexings /\ Layout(Shown(S), Breaks(S), ps, ls, line, col)
      /\ n \in 1..Len(ls) /\ rest \in Seq(Seq(Chars)) /\ Len(rest) = Len(ls) - n + 1
      /\ \A i \in 1..Len(rest) : rest[i] = ls[n + i - 1]
      /\ t \in TokenType /\ t.at \in 1..(Len(ls[n]) + 1)
      /\ CommandsRead(c, S, LinesRead(S, line, n))
      /\ WordsRead(t, S, LineRead(S, line, col, n, t.at))
      /\ t.inQuotes <=> Opened(S, LineRead(S, line, col, n, t.at))
  BY <1>1 DEF TokenisedAt
<1>3. /\ n \in Nat /\ Len(ls) \in Nat /\ Len(ls[n]) \in Nat
      /\ \A i \in 1..Len(ls) : Len(ls[i]) \in Nat
  BY <1>2, LayoutIs
<1>4. rest[1] = ls[n]
  <2>1. 1 \in 1..Len(rest) /\ n + 1 - 1 = n
    BY <1>2, <1>3
  <2>2. QED
    BY <1>2, <2>1
<1>5. PICK at : at = t.at /\ at \in Nat /\ at > Len(ls[n])
  BY <1>2, <1>3, <1>4
<1>6. PICK O, E : O = LinesRead(S, line, n) /\ E = LineRead(S, line, col, n, at)
  OBVIOUS
<1>7. /\ \A k \in E, l \in Shown(S) : l \notin O /\ l \notin E => Apart(k, l, Breaks(S))
      /\ LinesRead(S, line, n + 1) = O \cup E
      /\ LineRead(S, line, col, n + 1, 1) = {}
      /\ n = Len(ls) => O \cup E = Shown(S)
  <2>1. S \in Lexings /\ Layout(Shown(S), Breaks(S), ps, ls, line, col) /\ n \in 1..Len(ls)
    BY <1>2
  <2>2. O = LinesRead(S, line, n) /\ E = LineRead(S, line, col, n, at)
    BY <1>6
  <2>3. PICK m : m = n + 1
    OBVIOUS
  <2>4. \A k \in E, l \in Shown(S) : l \notin O /\ l \notin E => Apart(k, l, Breaks(S))
    BY <1>5, <2>1, <2>2, <2>3, LayoutLineEnds
  <2>5. LinesRead(S, line, m) = O \cup E
    BY <1>5, <2>1, <2>2, <2>3, LayoutLineEnds
  <2>6. LineRead(S, line, col, m, 1) = {}
    BY <1>5, <2>1, <2>2, <2>3, LayoutLineEnds
  <2>7. n = Len(ls) => O \cup E = Shown(S)
    BY <1>5, <2>1, <2>2, <2>3, LayoutLineEnds
  <2>8. QED
    BY <2>3, <2>4, <2>5, <2>6, <2>7
<1>8. ReadSoFar(S, O, E)
  BY <1>2, <1>5, <1>6, LayoutReads
<1>9. Orders(ts, {x \in E : x \in Starts(S, Ends(S))}, Words(S), Rising) /\ ts \in Seq(Seq(Chars))
  <2>1. ASSUME NEW k \in E, NEW l \in Spelt(S), l \notin O, l \notin E PROVE Apart(k, l, Ends(S))
    <3>1. l \in Shown(S)
      BY <1>2, SpeltIs
    <3>2. Apart(k, l, Breaks(S))
      BY <1>7, <2>1, <3>1
    <3>3. \A x \in Breaks(S) : x \in Ends(S)
      BY <1>2, SpeltIs
    <3>4. QED
      BY <3>2, <3>3, ApartMore
  <2>2. WordsRead(t, S, E)
    BY <1>2, <1>5, <1>6
  <2>3. Orders(Flush(t).tokens, {x \in E : x \in Starts(S, Ends(S))}, Words(S), Rising)
    BY <1>2, <1>8, <2>1, <2>2, FlushReads
  <2>4. Flush(t) \in TokenType
    BY <1>2, FlushIs
  <2>5. QED
    BY <2>3, <2>4 DEF TokenType
<1>10. CommandsRead(c2, S, O \cup E)
  <2>1. CommandsRead(c, S, O)
    BY <1>2, <1>6
  <2>2. QED
    BY <1>2, <1>7, <1>8, <1>9, <2>1, LineReads
<1>11. ASSUME Len(rest) = 1 PROVE Grammatical(c2)
  <2>1. n = Len(ls)
    <3>1. Len(ls) - n + 1 = 1
      BY <1>2, <1>11
    <3>2. QED
      BY <1>3, <3>1
  <2>2. O \cup E = Shown(S)
    BY <1>7, <2>1
  <2>3. \A x \in Starts(S, Breaks(S)) : x \in Shown(S) /\ x \in Nat
    BY <1>2, StartsAre, SpeltIs, ShownNat
  <2>4. {x \in O \cup E : x \in Starts(S, Breaks(S))} = Starts(S, Breaks(S))
    BY <2>2, <2>3
  <2>5. c2 \in Seq(Seq(Seq(Chars))) /\ Orders(c2, Starts(S, Breaks(S)), Commands(S), Rising)
    BY <1>10, <2>4 DEF CommandsRead
  <2>6. Starts(S, Breaks(S)) \in SUBSET Nat
    BY <2>3
  <2>7. c2 = InOrder(Starts(S, Breaks(S)), Commands(S))
    BY <2>5, <2>6, InOrderIs
  <2>8. QED
    BY <1>2, <2>7 DEF Grammatical
<1>12. ASSUME Len(rest) # 1 PROVE TokenOK(ps, Tail(rest), NoToken, c2)
  <2>1. PICK m : m = n + 1
    OBVIOUS
  <2>2. PICK rs : rs = Tail(rest)
    OBVIOUS
  <2>3. Len(rest) \in Nat /\ Len(rest) > 1
    BY <1>2, <1>3, <1>12
  <2>4. m \in 1..Len(ls)
    BY <1>2, <1>3, <2>1, <2>3
  <2>5. rs \in Seq(Seq(Chars)) /\ Len(rs) = Len(rest) - 1 /\ \A i \in 1..Len(rs) : rs[i] = rest[i + 1]
    <3>1. rest # <<>>
      BY <2>3
    <3>2. QED
      BY <1>2, <2>2, <2>3, <3>1
  <2>6. Len(rs) = Len(ls) - m + 1
    BY <1>2, <1>3, <2>1, <2>5
  <2>7. \A i \in 1..Len(rs) : rs[i] = ls[m + i - 1]
    <3>1. ASSUME NEW i \in 1..Len(rs) PROVE rs[i] = ls[m + i - 1]
      <4>1. i \in Nat /\ i + 1 \in 1..Len(rest)
        BY <2>3, <2>5
      <4>2. rest[i + 1] = ls[n + (i + 1) - 1]
        BY <1>2, <4>1
      <4>3. n + (i + 1) - 1 = m + i - 1
        BY <1>3, <2>1, <4>1
      <4>4. QED
        BY <2>5, <4>2, <4>3
    <3>2. QED
      BY <3>1
  <2>8. NoToken.at = 1 /\ ~NoToken.inQuotes /\ NoToken.at \in 1..(Len(ls[m]) + 1)
    BY <1>3, <2>4 DEF NoToken
  <2>9. LinesRead(S, line, m) = O \cup E /\ LineRead(S, line, col, m, NoToken.at) = {}
    BY <1>7, <2>1, <2>8
  <2>10. NoToken \in TokenType /\ WordsRead(NoToken, S, {}) /\ ~Opened(S, {})
    BY NothingRead
  <2>11. TokenisedAt(S, ls, line, col, m, ps, rs, NoToken, c2)
    BY <1>2, <1>10, <2>4, <2>5, <2>6, <2>7, <2>8, <2>9, <2>10 DEF TokenisedAt
  <2>12. QED
    BY <2>2, <2>11 DEF TokenOK
<1>13. QED
  BY <1>11, <1>12

\* What holds of the text at every step.
TextInv ==
  /\ text \in Seq(Chars)
  /\ phase = "split" => SplitOK(pos, inQuotes, inBlock, lines) /\ token = NoToken /\ commands = <<>>
  /\ phase = "tokenise" => TokenOK(pos, lines, token, commands)
  /\ phase = "done" => Grammatical(commands)

LEMMA SameTokens ==
  ASSUME text' = text
  PROVE  /\ \A ps, rest, t, c : TokenOK(ps, rest, t, c)' <=> TokenOK(ps, rest, t, c)
         /\ \A c : Grammatical(c)' <=> Grammatical(c)
<1>1. \A S, ls, line, col, n, ps, rest, t, c :
        TokenisedAt(S, ls, line, col, n, ps, rest, t, c)' <=> TokenisedAt(S, ls, line, col, n, ps, rest, t, c)
  BY SameLexemes, SameShown, SameLayout, SameWords DEF TokenisedAt
<1>2. \A c : Grammatical(c)' <=> Grammatical(c)
  BY SameLexemes, SameShown, SameWords DEF Grammatical
<1>3. QED
  BY <1>1, <1>2 DEF TokenOK

LEMMA TextStarts ==
  ASSUME TextInit
  PROVE  TextInv
<1>1. text \in Seq(Chars)
  <2>1. PICK m \in 0..MaxLength : text \in [1..m -> Chars]
    BY DEF TextInit, BoundedSeq, SeqOf
  <2>2. QED
    BY <2>1, LengthAssumption
<1>2. PICK S, ls : S = {1} /\ ls = << <<>> >>
  OBVIOUS
<1>3. Cut(S, 1)
  BY <1>1, <1>2, CutFirst
<1>4. UpTo(Shown(S), 1) = {}
  BY <1>1, TextIs DEF UpTo, Shown
<1>5. ls \in Seq(Seq(Chars)) /\ ls # <<>> /\ \A n \in 1..Len(ls) : Len(ls[n]) = 0
  BY <1>2
<1>6. \A n \in 1..Len(ls) : 1..Len(ls[n]) = {}
  BY <1>5
<1>7. Layout({}, UpTo(Breaks(S), 1), 1, ls, <<>>, <<>>)
  BY <1>5, <1>6 DEF Layout
<1>8. Laid(S, 1, ls)
  BY <1>4, <1>7 DEF Laid, LaidOut
<1>9. Where(S, 1, 1, FALSE, FALSE)
  BY <1>1, <1>3, TextIs DEF Where
<1>10. SplitOK(1, FALSE, FALSE, ls)
  BY <1>8, <1>9 DEF SplitOK, SplitAt
<1>11. pos = 1 /\ inQuotes = FALSE /\ inBlock = FALSE /\ lines = << <<>> >> /\ token = NoToken
       /\ commands = <<>> /\ phase = "split"
  BY DEF TextInit
<1>12. QED
  BY <1>1, <1>2, <1>10, <1>11 DEF TextInv

LEMMA TextSteps ==
  ASSUME TextInv, [TextNext]_textVars
  PROVE  TextInv'
<1>1. text \in Seq(Chars)
  BY DEF TextInv
<1>2. text' = text
  BY DEF TextNext, textVars, Block, LineEnd, Quoted, OpenQuote, Comment, OpenBlock, Semicolon, Plain, Outside, Turn,
         EndOfText, Character, EndOfLine, Tokenising
<1>3. text' \in Seq(Chars)
  BY <1>1, <1>2 DEF Chars, Quote, Colon, Dash, Semi, NL, Gap
<1>4. CASE SplitTurn
  <2>1. phase = "split" /\ phase' = phase /\ token' = token /\ commands' = commands
    BY <1>4 DEF SplitTurn, Block, LineEnd, Quoted, OpenQuote, Comment, OpenBlock, Semicolon, Plain, Outside, Turn
  <2>2. SplitOK(pos, inQuotes, inBlock, lines) /\ token = NoToken /\ commands = <<>>
    BY <2>1 DEF TextInv
  <2>3. SplitOK(pos', inQuotes', inBlock', lines')
    BY <1>1, <1>4, <2>2, SplitKeeps
  <2>4. SplitOK(pos, inQuotes, inBlock, lines)'
    BY <1>2, <2>3, SameSplit
  <2>5. token' = NoToken' /\ commands' = <<>>
    BY <2>1, <2>2 DEF NoToken
  <2>6. QED
    BY <1>3, <2>1, <2>4, <2>5 DEF TextInv
<1>5. CASE EndOfText
  <2>1. phase = "split" /\ phase' = "tokenise" /\ pos > Len(text)
        /\ pos' = pos /\ lines' = lines /\ token' = token /\ commands' = commands
    BY <1>5 DEF EndOfText
  <2>2. SplitOK(pos, inQuotes, inBlock, lines) /\ token = NoToken /\ commands = <<>>
    BY <2>1 DEF TextInv
  <2>3. TokenOK(pos', lines', token', commands')
    BY <1>1, <2>1, <2>2, TokenStarts
  <2>4. TokenOK(pos, lines, token, commands)'
    BY <1>2, <2>3, SameTokens
  <2>5. QED
    BY <1>3, <2>1, <2>4 DEF TextInv
<1>6. CASE Character
  <2>1. /\ phase = "tokenise" /\ phase' = phase /\ pos' = pos /\ lines' = lines /\ commands' = commands
        /\ token.at <= Len(lines[1])
        /\ token' = [Take(token, lines[1][token.at]) EXCEPT !.at = @ + 1]
    BY <1>6 DEF Character, Tokenising
  <2>2. TokenOK(pos, lines, token, commands)
    BY <2>1 DEF TextInv
  <2>3. TokenOK(pos', lines', token', commands')
    <3>1. PICK v : v = Take(token, lines[1][token.at])
      OBVIOUS
    <3>2. token' = [v EXCEPT !.at = @ + 1]
      BY <2>1, <3>1
    <3>3. QED
      BY <1>1, <2>1, <2>2, <3>1, <3>2, TokenCharacter
  <2>4. TokenOK(pos, lines, token, commands)'
    BY <1>2, <2>3, SameTokens
  <2>5. QED
    BY <1>3, <2>1, <2>4 DEF TextInv
<1>7. CASE EndOfLine
  <2>1. PICK ts : ts = Flush(token).tokens
    OBVIOUS
  <2>2. /\ phase = "tokenise" /\ pos' = pos /\ token.at > Len(lines[1])
        /\ commands' = IF ts = <<>> THEN commands ELSE Append(commands, ts)
        /\ token' = NoToken
        /\ IF Len(lines) = 1 THEN phase' = "done" /\ lines' = lines
                             ELSE lines' = Tail(lines) /\ phase' = phase
    BY <1>7, <2>1 DEF EndOfLine, Tokenising
  <2>3. TokenOK(pos, lines, token, commands)
    BY <2>2 DEF TextInv
  <2>4. /\ Len(lines) = 1 => Grammatical(commands')
        /\ Len(lines) # 1 => TokenOK(pos, Tail(lines), NoToken, commands')
    BY <1>1, <2>1, <2>2, <2>3, TokenLine
  <2>5. CASE Len(lines) = 1
    <3>1. phase' = "done" /\ Grammatical(commands)'
      BY <1>2, <2>2, <2>4, <2>5, SameTokens
    <3>2. QED
      BY <1>3, <3>1 DEF TextInv
  <2>6. CASE Len(lines) # 1
    <3>1. phase' = "tokenise" /\ TokenOK(pos', lines', token', commands')
      BY <2>2, <2>4, <2>6
    <3>2. TokenOK(pos, lines, token, commands)'
      BY <1>2, <3>1, SameTokens
    <3>3. QED
      BY <1>3, <3>1, <3>2 DEF TextInv
  <2>7. QED
    BY <2>5, <2>6
<1>8. CASE UNCHANGED textVars
  <2>1. /\ pos' = pos /\ lines' = lines /\ inQuotes' = inQuotes /\ inBlock' = inBlock /\ token' = token
        /\ commands' = commands /\ phase' = phase
    BY <1>8 DEF textVars
  <2>2. phase = "split" => SplitOK(pos, inQuotes, inBlock, lines)' /\ token' = NoToken' /\ commands' = <<>>
    BY <1>2, <2>1, SameSplit DEF TextInv, NoToken
  <2>3. phase = "tokenise" => TokenOK(pos, lines, token, commands)'
    BY <1>2, <2>1, SameTokens DEF TextInv
  <2>4. phase = "done" => Grammatical(commands)'
    BY <1>2, <2>1, SameTokens DEF TextInv
  <2>5. QED
    BY <1>3, <2>1, <2>2, <2>3, <2>4 DEF TextInv
<1>9. QED
  BY <1>4, <1>5, <1>6, <1>7, <1>8 DEF TextNext, SplitTurn

LEMMA GrammaticalReads == TextInv => ReadsTheGrammar
BY DEF TextInv, Grammatical, ReadsTheGrammar

\* The commands of a modfile are those of the grammar, whatever the text.
THEOREM ReadsAsWritten == TextSpec => []ReadsTheGrammar
<1>1. TextInit => TextInv
  BY TextStarts
<1>2. TextInv /\ [TextNext]_textVars => TextInv'
  BY TextSteps
<1>3. QED
  BY <1>1, <1>2, GrammaticalReads, PTL DEF TextSpec
================================================================================
