-------------------------- MODULE SchemaDiffProofs --------------------------
(***************************************************************************)
(* Proofs about module SchemaDiff: what Diff returns, for any two schemas. *)
(***************************************************************************)
EXTENDS SchemaDiff, Induction, FiniteSetTheorems, FunctionTheorems

-----------------------------------------------------------------------------
(* Selecting and joining sequences.                                        *)

LEMMA SeqOfPart == \A A, B, s : A \subseteq B /\ s \in Seq(A) => s \in Seq(B)
OBVIOUS

\* What the recursion of Those goes through: the entries of s in S so far.
LEMMA ThoseSteps ==
  ASSUME NEW A, NEW s \in Seq(A), NEW S
  PROVE  \E h : /\ Those(s, S) = h[Len(s)]
                /\ h[0] = <<>>
                /\ \A i \in 1..Len(s) : h[i] = IF s[i] \in S THEN Append(h[i - 1], s[i]) ELSE h[i - 1]
                /\ \A i \in 0..Len(s) : h[i] \in Seq(A \cap S)
<1>0. Len(s) \in Nat /\ DOMAIN s = 1..Len(s) /\ \A i \in 1..Len(s) : s[i] \in A
  OBVIOUS
<1> DEFINE X == Seq(A \cap S)
           step == [i \in 1..Len(s) |-> [v \in X |-> IF s[i] \in S THEN Append(v, s[i]) ELSE v]]
           Rec(f) == f = [i \in 0..Len(s) |->
                            IF i = 0 THEN <<>>
                            ELSE IF s[i] \in S THEN Append(f[i - 1], s[i]) ELSE f[i - 1]]
<1>1. <<>> \in X
  OBVIOUS
<1>2. ASSUME NEW i \in 1..Len(s), NEW v \in X
      PROVE  (IF s[i] \in S THEN Append(v, s[i]) ELSE v) \in X
  BY <1>0
<1>3. step \in [1..Len(s) -> [X -> X]]
  BY <1>2
<1>4. PICK g \in [0..Len(s) -> X] : g[0] = <<>> /\ \A i \in 1..Len(s) : g[i] = step[i][g[i - 1]]
  <2>1. step \in Steps(Len(s), X)
    BY <1>3 DEF Steps
  <2>2. Follows(Len(s), X, <<>>, step) # {}
    <3> HIDE DEF X, step
    <3> QED
      BY <1>0, <1>1, <2>1, RecursionExists
  <2> HIDE DEF X, step
  <2> QED
    BY <2>2 DEF Follows
<1>5. \A i \in 1..Len(s) : g[i] = IF s[i] \in S THEN Append(g[i - 1], s[i]) ELSE g[i - 1]
  <2> SUFFICES ASSUME NEW i \in 1..Len(s)
               PROVE  g[i] = IF s[i] \in S THEN Append(g[i - 1], s[i]) ELSE g[i - 1]
    OBVIOUS
  <2>1. g[i - 1] \in X
    BY <1>0, <1>4
  <2>2. step[i][g[i - 1]] = IF s[i] \in S THEN Append(g[i - 1], s[i]) ELSE g[i - 1]
    BY <2>1
  <2> QED
    BY <1>4, <2>2
<1>6. Rec(g)
  <2>1. g = [i \in 0..Len(s) |-> g[i]]
    BY <1>4
  <2>2. \A i \in 0..Len(s) : g[i] = IF i = 0 THEN <<>>
                                   ELSE IF s[i] \in S THEN Append(g[i - 1], s[i]) ELSE g[i - 1]
    <3>1. \A i \in 0..Len(s) : i = 0 \/ i \in 1..Len(s)
      BY <1>0
    <3> HIDE DEF step, X
    <3> QED
      BY <1>4, <1>5, <3>1
  <2> HIDE DEF step, X
  <2> QED
    BY <2>1, <2>2
<1> DEFINE f == CHOOSE f : Rec(f)
<1>7. Rec(f)
  <2> HIDE DEF Rec
  <2> QED
    BY <1>6
<1>8. Those(s, S) = f[Len(s)]
  BY DEF Those
<1>9. PICK h : h = f
  OBVIOUS
<1>10. /\ h[0] = <<>>
       /\ \A i \in 1..Len(s) : h[i] = IF s[i] \in S THEN Append(h[i - 1], s[i]) ELSE h[i - 1]
  <2>1. Rec(h)
    BY <1>7, <1>9
  <2>2. \A i \in 1..Len(s) : i \in 0..Len(s) /\ i # 0
    BY <1>0
  <2>3. 0 \in 0..Len(s)
    BY <1>0
  <2> HIDE DEF f
  <2>4. h[0] = <<>>
    BY <2>1, <2>3
  <2>5. \A i \in 1..Len(s) : h[i] = IF s[i] \in S THEN Append(h[i - 1], s[i]) ELSE h[i - 1]
    BY <2>1, <2>2
  <2> QED
    BY <2>4, <2>5
<1>11. \A i \in 0..Len(s) : h[i] \in X
  <2>1. h[0] \in X
    BY <1>1, <1>10
  <2>2. ASSUME NEW i \in 1..Len(s), h[i - 1] \in X PROVE h[i] \in X
    BY <1>2, <1>10, <2>2
  <2> HIDE DEF X, f
  <2> QED
    BY <1>0, <2>1, <2>2, RecursionKeeps
<1> HIDE DEF f
<1> QED
  BY ONLY <1>8, <1>9, <1>10, <1>11

LEMMA ThoseType ==
  ASSUME NEW A, NEW s \in Seq(A), NEW S
  PROVE  Those(s, S) \in Seq(A \cap S) /\ Those(s, S) \in Seq(A)
<1>1. Len(s) \in 0..Len(s)
  OBVIOUS
<1>2. Those(s, S) \in Seq(A \cap S)
  BY <1>1, ThoseSteps
<1>3. A \cap S \subseteq A
  OBVIOUS
<1> QED
  BY ONLY <1>2, <1>3, SeqOfPart

\* What the recursion of FlattenSeq goes through.
LEMMA FlattenSteps ==
  ASSUME NEW A, NEW ss \in Seq(Seq(A))
  PROVE  \E h : /\ FlattenSeq(ss) = h[Len(ss)]
                /\ h[0] = <<>>
                /\ \A i \in 1..Len(ss) : h[i] = h[i - 1] \o ss[i]
                /\ \A i \in 0..Len(ss) : h[i] \in Seq(A)
<1>0. Len(ss) \in Nat /\ DOMAIN ss = 1..Len(ss) /\ \A i \in 1..Len(ss) : ss[i] \in Seq(A)
  OBVIOUS
<1>1. CASE Len(ss) = 0
  <2>1. ss = <<>>
    BY <1>1
  <2>2. FlattenSeq(ss) = ss
    BY <1>1 DEF FlattenSeq
  <2>3. <<>> \in Seq(A)
    OBVIOUS
  <2> DEFINE h == [i \in 0..0 |-> <<>>]
  <2>4. h[0] = <<>> /\ 0..Len(ss) = {0} /\ 1..Len(ss) = {}
    BY <1>1
  <2>5. FlattenSeq(ss) = h[Len(ss)]
    BY <1>1, <2>1, <2>2, <2>4
  <2> HIDE DEF h
  <2> QED
    BY <2>3, <2>4, <2>5
<1>2. CASE Len(ss) # 0
  <2> DEFINE X == Seq(A)
             step == [i \in 1..Len(ss) |-> [v \in X |-> IF i = 1 THEN ss[i] ELSE v \o ss[i]]]
             Rec(f) == f = [i \in 1..Len(ss) |-> IF i = 1 THEN ss[i] ELSE f[i - 1] \o ss[i]]
  <2>1. <<>> \in X
    OBVIOUS
  <2>2. ASSUME NEW i \in 1..Len(ss), NEW v \in X PROVE (IF i = 1 THEN ss[i] ELSE v \o ss[i]) \in X
    BY <1>0
  <2>3. step \in [1..Len(ss) -> [X -> X]]
    BY <2>2
  <2>4. PICK g \in [0..Len(ss) -> X] : g[0] = <<>> /\ \A i \in 1..Len(ss) : g[i] = step[i][g[i - 1]]
    <3>1. step \in Steps(Len(ss), X)
      BY <2>3 DEF Steps
    <3>2. Follows(Len(ss), X, <<>>, step) # {}
      <4> HIDE DEF X, step
      <4> QED
        BY <1>0, <2>1, <3>1, RecursionExists
    <3> HIDE DEF X, step
    <3> QED
      BY <3>2 DEF Follows
  <2> DEFINE k == [i \in 1..Len(ss) |-> g[i]]
  <2>5. \A i \in 1..Len(ss) : g[i] = IF i = 1 THEN ss[i] ELSE g[i - 1] \o ss[i]
    <3> SUFFICES ASSUME NEW i \in 1..Len(ss)
                 PROVE  g[i] = IF i = 1 THEN ss[i] ELSE g[i - 1] \o ss[i]
      OBVIOUS
    <3>1. g[i - 1] \in X
      <4>1. i - 1 \in 0..Len(ss)
        BY <1>0
      <4> HIDE DEF X, step
      <4> QED
        BY <2>4, <4>1
    <3>2. step[i][g[i - 1]] = IF i = 1 THEN ss[i] ELSE g[i - 1] \o ss[i]
      BY <3>1
    <3> QED
      BY <2>4, <3>2
  <2>6. \A i \in 1..Len(ss) : i # 1 => k[i - 1] = g[i - 1]
    BY <1>0
  <2>7. Rec(k)
    BY <1>0, <2>5, <2>6
  <2> DEFINE f == CHOOSE f : Rec(f)
  <2>8. Rec(f)
    <3> HIDE DEF Rec, k
    <3> QED
      BY <2>7
  <2>9. FlattenSeq(ss) = f[Len(ss)]
    BY <1>2 DEF FlattenSeq
  <2>10. PICK h : h = f
    OBVIOUS
  <2>11. \A i \in 1..Len(ss) : h[i] = IF i = 1 THEN ss[i] ELSE h[i - 1] \o ss[i]
    <3>1. Rec(h)
      BY <2>8, <2>10
    <3> QED
      BY <1>0, <3>1
  <2> DEFINE e == [i \in 0..Len(ss) |-> IF i = 0 THEN <<>> ELSE h[i]]
  <2>12. e[0] \in X /\ \A i \in 1..Len(ss) : e[i - 1] \in X => e[i] \in X
    <3>1. ASSUME NEW i \in 1..Len(ss), e[i - 1] \in X PROVE e[i] \in X
      <4>1. i = 1 \/ i - 1 \in 1..Len(ss)
        BY <1>0
      <4>2. h[i] = IF i = 1 THEN ss[i] ELSE h[i - 1] \o ss[i]
        BY <2>11
      <4>3. i # 1 => h[i - 1] \in X
        BY <3>1, <4>1
      <4>4. h[i] \in X
        BY <1>0, <4>2, <4>3
      <4> QED
        BY <4>4
    <3>2. e[0] = <<>>
      BY <1>0
    <3> HIDE DEF e
    <3> QED
      BY <2>1, <3>1, <3>2
  <2>13. \A i \in 0..Len(ss) : e[i] \in X
    <3> HIDE DEF X, e
    <3> QED
      BY <1>0, <2>12, RecursionKeeps
  <2>14. e[Len(ss)] = h[Len(ss)] /\ e[0] = <<>>
    BY <1>0, <1>2
  <2>15. \A i \in 1..Len(ss) : e[i] = e[i - 1] \o ss[i]
    <3> SUFFICES ASSUME NEW i \in 1..Len(ss) PROVE e[i] = e[i - 1] \o ss[i]
      OBVIOUS
    <3>1. PICK x : x = ss[i]
      OBVIOUS
    <3>2. x \in Seq(A)
      BY <1>0, <3>1
    <3>3. <<>> \o x = x
      BY <3>2
    <3>4. i = 1 \/ i - 1 \in 1..Len(ss)
      BY <1>0
    <3>5. e[i] = h[i]
      BY <1>0
    <3>6. i # 1 => e[i - 1] = h[i - 1]
      BY <1>0, <3>4
    <3>7. i = 1 => i - 1 = 0
      BY <1>0
    <3>8. h[i] = IF i = 1 THEN x ELSE h[i - 1] \o x
      BY <2>11, <3>1
    <3> HIDE DEF e, f
    <3>9. CASE i = 1
      BY <2>14, <3>1, <3>3, <3>5, <3>7, <3>8, <3>9
    <3>10. CASE i # 1
      BY <3>1, <3>5, <3>6, <3>8, <3>10
    <3> QED
      BY <3>9, <3>10
  <2>16. FlattenSeq(ss) = e[Len(ss)]
    BY <2>9, <2>10, <2>14
  <2> HIDE DEF e, f
  <2> QED
    BY <2>13, <2>14, <2>15, <2>16
<1> QED
  BY <1>1, <1>2

\* Joining sequences over a set gives a sequence over that set.
LEMMA FlattenType ==
  ASSUME NEW A, NEW ss \in Seq(Seq(A))
  PROVE  FlattenSeq(ss) \in Seq(A)
<1>1. Len(ss) \in 0..Len(ss)
  OBVIOUS
<1> QED
  BY <1>1, FlattenSteps

LEMMA JoinedType ==
  ASSUME NEW B, NEW s \in Seq(B), NEW t \in Seq(B)
  PROVE  s \o t \in Seq(B)
OBVIOUS

LEMMA UnnamedType ==
  ASSUME NEW A, NEW s \in Seq(A), NEW N
  PROVE  Unnamed(s, N) \in Seq({x \in A : x.name \notin N}) /\ Unnamed(s, N) \in Seq(A)
<1>1. Unnamed(s, N) \in Seq(A \cap {x \in ToSet(s) : x.name \notin N})
  BY ThoseType DEF Unnamed
<1>2. A \cap {x \in ToSet(s) : x.name \notin N} \subseteq {x \in A : x.name \notin N}
  OBVIOUS
<1>3. Unnamed(s, N) \in Seq(A)
  BY ThoseType DEF Unnamed
<1> QED
  BY ONLY <1>1, <1>2, <1>3, SeqOfPart

\* The entry tableMap, columnMap and indexMap hold for a name.
LEMMA ByNameType ==
  ASSUME NEW A, NEW s \in Seq(A), NEW n \in Names(s)
  PROVE  ByName(s, n) \in A /\ ByName(s, n).name = n
<1>0. Len(s) \in Nat /\ DOMAIN s = 1..Len(s)
  OBVIOUS
<1> DEFINE L(i) == s[i].name = n /\ \A j \in DOMAIN s : s[j].name = n => j <= i
           T == {k \in Nat : k <= Len(s) /\ \E i \in DOMAIN s : s[i].name = n /\ k = Len(s) - i}
<1>1. PICK i \in DOMAIN s : s[i].name = n
  BY DEF Names
<1>2. T \subseteq Nat /\ Len(s) - i \in T
  BY <1>0, <1>1
<1>3. PICK k \in T : \A m \in T : k <= m
  <2> HIDE DEF T
  <2> QED
    BY <1>2, LeastNat
<1>4. PICK g \in DOMAIN s : s[g].name = n /\ k = Len(s) - g
  BY <1>3
<1>5. \A j \in DOMAIN s : s[j].name = n => j <= g
  <2> SUFFICES ASSUME NEW j \in DOMAIN s, s[j].name = n PROVE j <= g
    OBVIOUS
  <2>1. Len(s) - j \in T
    BY <1>0
  <2>2. k <= Len(s) - j
    BY <1>3, <2>1
  <2> QED
    BY <1>0, <1>4, <2>2
<1>6. L(g)
  BY <1>4, <1>5
<1> DEFINE c == CHOOSE i_1 \in DOMAIN s : L(i_1)
<1>7. c \in DOMAIN s /\ L(c)
  <2> HIDE DEF L
  <2> QED
    BY <1>6
<1>8. ByName(s, n) = s[c]
  BY DEF ByName
<1> QED
  BY <1>0, <1>7, <1>8

-----------------------------------------------------------------------------
(* What selecting and joining keep: the set of the entries, and a relation *)
(* R that every entry has to every later one.                              *)

Paired(R, s) == \A i, j \in DOMAIN s : i < j => <<s[i], s[j]>> \in R

\* Every entry of s has it to every entry of t.
Across(R, s, t) == \A x \in ToSet(s), y \in ToSet(t) : <<x, y>> \in R

LEMMA JoinedSet ==
  ASSUME NEW B, NEW s \in Seq(B), NEW t \in Seq(B)
  PROVE  ToSet(s \o t) = ToSet(s) \cup ToSet(t)
<1>1. /\ Len(s) \in Nat /\ Len(t) \in Nat
      /\ DOMAIN s = 1..Len(s) /\ DOMAIN t = 1..Len(t) /\ DOMAIN (s \o t) = 1..Len(s) + Len(t)
      /\ \A i \in 1..Len(s) + Len(t) : (s \o t)[i] = IF i <= Len(s) THEN s[i] ELSE t[i - Len(s)]
  OBVIOUS
<1>2. PICK u : u = s \o t
  OBVIOUS
<1>3. PICK m \in Nat, n \in Nat : m = Len(s) /\ n = Len(t)
  BY <1>1
<1>4. /\ DOMAIN s = 1..m /\ DOMAIN t = 1..n /\ DOMAIN u = 1..m + n
      /\ \A i \in 1..m : u[i] = s[i]
      /\ \A i \in 1..n : u[m + i] = t[i]
      /\ \A i \in 1..m + n : i \in 1..m \/ (i - m \in 1..n /\ i = m + (i - m))
  BY <1>1, <1>2, <1>3
<1>5. \A i \in DOMAIN u : u[i] \in ToSet(s) \cup ToSet(t)
  BY <1>4 DEF ToSet
<1>6. \A i \in DOMAIN s : s[i] \in ToSet(u)
  BY <1>4 DEF ToSet
<1>7. \A i \in DOMAIN t : t[i] \in ToSet(u)
  <2> SUFFICES ASSUME NEW i \in DOMAIN t PROVE t[i] \in ToSet(u)
    OBVIOUS
  <2>1. m + i \in DOMAIN u /\ u[m + i] = t[i]
    BY <1>4
  <2> QED
    BY <2>1 DEF ToSet
<1>8. ToSet(u) = ToSet(s) \cup ToSet(t)
  BY <1>5, <1>6, <1>7 DEF ToSet
<1> QED
  BY <1>2, <1>8

LEMMA JoinedPaired ==
  ASSUME NEW B, NEW s \in Seq(B), NEW t \in Seq(B), NEW R,
         Paired(R, s), Paired(R, t), Across(R, s, t)
  PROVE  Paired(R, s \o t)
<1>1. /\ Len(s) \in Nat /\ Len(t) \in Nat
      /\ DOMAIN s = 1..Len(s) /\ DOMAIN t = 1..Len(t) /\ DOMAIN (s \o t) = 1..Len(s) + Len(t)
      /\ \A i \in 1..Len(s) + Len(t) : (s \o t)[i] = IF i <= Len(s) THEN s[i] ELSE t[i - Len(s)]
  OBVIOUS
<1>2. PICK u : u = s \o t
  OBVIOUS
<1>3. PICK m \in Nat, n \in Nat : m = Len(s) /\ n = Len(t)
  BY <1>1
<1>4. /\ DOMAIN s = 1..m /\ DOMAIN t = 1..n /\ DOMAIN u = 1..m + n
      /\ \A i \in 1..m : u[i] = s[i]
      /\ \A i \in 1..m + n : i \in 1..m \/ (i - m \in 1..n /\ i > m /\ u[i] = t[i - m])
  BY <1>1, <1>2, <1>3
<1>5. SUFFICES ASSUME NEW i \in DOMAIN u, NEW j \in DOMAIN u, i < j PROVE <<u[i], u[j]>> \in R
  BY <1>2 DEF Paired
<1>6. CASE i \in 1..m /\ j \in 1..m
  BY <1>4, <1>5, <1>6 DEF Paired
<1>7. CASE i \in 1..m /\ j \notin 1..m
  BY <1>4, <1>5, <1>7 DEF Across, ToSet
<1>8. CASE i \notin 1..m
  <2>0. i \in 1..m + n /\ j \in 1..m + n
    BY <1>4
  <2>1. j \notin 1..m
    BY <1>3, <1>5, <1>8, <2>0
  <2>2. i - m \in 1..n /\ j - m \in 1..n /\ u[i] = t[i - m] /\ u[j] = t[j - m]
    BY <1>4, <1>8, <2>0, <2>1
  <2>3. i - m < j - m
    BY <1>3, <1>5, <2>0
  <2> QED
    BY <1>4, <2>2, <2>3 DEF Paired
<1> QED
  BY <1>6, <1>7, <1>8

LEMMA EmptyPaired == \A R : Paired(R, <<>>) /\ ToSet(<<>>) = {}
BY DEF Paired, ToSet

LEMMA AppendIsJoin ==
  ASSUME NEW B, NEW s \in Seq(B), NEW x \in B
  PROVE  /\ Append(s, x) = s \o <<x>>
         /\ <<x>> \in Seq(B)
         /\ ToSet(<<x>>) = {x}
         /\ \A R : Paired(R, <<x>>)
<1>1. Append(s, x) = s \o <<x>> /\ <<x>> \in Seq(B)
  OBVIOUS
<1>2. DOMAIN <<x>> = {1} /\ <<x>>[1] = x
  OBVIOUS
<1>3. ToSet(<<x>>) = {x}
  BY <1>2 DEF ToSet
<1>4. \A R : Paired(R, <<x>>)
  BY <1>2 DEF Paired
<1> QED
  BY <1>1, <1>3, <1>4

\* The first k entries of s.
Upto(s, k) == {s[j] : j \in 1..k}

LEMMA UptoNext ==
  ASSUME NEW s, NEW k \in Nat
  PROVE  Upto(s, k + 1) = Upto(s, k) \cup {s[k + 1]} /\ Upto(s, 0) = {}
<1>1. 1..k + 1 = (1..k) \cup {k + 1}
  OBVIOUS
<1>2. \A x : x \in Upto(s, k + 1) <=> \E j \in 1..k + 1 : x = s[j]
  BY DEF Upto
<1>3. \A x : x \in Upto(s, k) <=> \E j \in 1..k : x = s[j]
  BY DEF Upto
<1>4. Upto(s, k + 1) = Upto(s, k) \cup {s[k + 1]}
  BY <1>1, <1>2, <1>3
<1>5. Upto(s, 0) = {}
  BY DEF Upto
<1> QED
  BY <1>4, <1>5

LEMMA UptoEnd ==
  ASSUME NEW B, NEW s \in Seq(B)
  PROVE  Upto(s, Len(s)) = ToSet(s)
BY DEF Upto, ToSet

\* Those keeps the order, and the entries in S.
LEMMA ThoseKeeps ==
  ASSUME NEW A, NEW s \in Seq(A), NEW S, NEW R, Paired(R, s)
  PROVE  ToSet(Those(s, S)) = ToSet(s) \cap S /\ Paired(R, Those(s, S))
<1>1. PICK h : /\ Those(s, S) = h[Len(s)]
               /\ h[0] = <<>>
               /\ \A i \in 1..Len(s) : h[i] = IF s[i] \in S THEN Append(h[i - 1], s[i]) ELSE h[i - 1]
               /\ \A i \in 0..Len(s) : h[i] \in Seq(A \cap S)
  BY ThoseSteps
<1>2. PICK n \in Nat : n = Len(s) /\ DOMAIN s = 1..n
  OBVIOUS
<1> DEFINE Good(i) == ToSet(h[i]) = Upto(s, i) \cap S /\ Paired(R, h[i])
           T == {i \in Nat : i <= n => Good(i)}
<1>3. 0 \in T
  BY <1>1, EmptyPaired, UptoNext
<1>4. ASSUME NEW i \in Nat, i \in T PROVE i + 1 \in T
  <2> SUFFICES ASSUME i + 1 <= n PROVE Good(i + 1)
    OBVIOUS
  <2>1. Good(i) /\ i + 1 \in 1..n /\ (i + 1) - 1 = i /\ i \in 0..n
    BY <1>4
  <2> HIDE DEF T
  <2>2. PICK v \in Seq(A \cap S) : v = h[i]
    BY <1>1, <1>2, <2>1
  <2>3. PICK x : x = s[i + 1]
    OBVIOUS
  <2>4. x \in A
    BY <1>2, <2>1, <2>3
  <2>5. h[i + 1] = IF x \in S THEN Append(v, x) ELSE v
    BY <1>1, <1>2, <2>1, <2>2, <2>3
  <2>6. Upto(s, i + 1) = Upto(s, i) \cup {x}
    BY <2>3, UptoNext
  <2>7. CASE x \notin S
    BY <2>1, <2>2, <2>5, <2>6, <2>7
  <2>8. CASE x \in S
    <3>1. x \in A \cap S
      BY <2>4, <2>8
    <3>2. /\ Append(v, x) = v \o <<x>> /\ <<x>> \in Seq(A \cap S)
          /\ ToSet(<<x>>) = {x} /\ Paired(R, <<x>>)
      BY <2>2, <3>1, AppendIsJoin
    <3>3. PICK w \in Seq(A \cap S) : w = <<x>>
      BY <3>2
    <3>4. Across(R, v, w)
      <4>1. \A y \in ToSet(v) : \E j \in 1..i : y = s[j]
        BY <2>1, <2>2 DEF Upto
      <4>2. \A j \in 1..i : <<s[j], s[i + 1]>> \in R
        <5>1. \A j \in 1..i : j \in DOMAIN s /\ i + 1 \in DOMAIN s /\ j < i + 1
          BY <1>2, <2>1
        <5> QED
          BY <5>1 DEF Paired
      <4> QED
        BY <2>3, <3>2, <3>3, <4>1, <4>2 DEF Across
    <3>5. Paired(R, v \o w) /\ ToSet(v \o w) = ToSet(v) \cup ToSet(w)
      <4>1. Paired(R, v) /\ Paired(R, w)
        BY <2>1, <2>2, <3>2, <3>3
      <4>2. Paired(R, v \o w)
        BY <3>4, <4>1, JoinedPaired
      <4> QED
        BY <4>2, JoinedSet
    <3>6. h[i + 1] = v \o w
      BY <2>5, <2>8, <3>2, <3>3
    <3> QED
      BY <2>1, <2>2, <2>6, <2>8, <3>2, <3>3, <3>5, <3>6
  <2> QED
    BY <2>7, <2>8
<1>5. n \in T
  <2> HIDE DEF T
  <2> QED
    BY <1>3, <1>4, NatInductionOnSets
<1>6. Good(n)
  BY <1>5
<1> HIDE DEF T
<1> QED
  BY <1>1, <1>2, <1>6, UptoEnd

\* FlattenSeq keeps the order between and within the parts.
LEMMA FlattenKeeps ==
  ASSUME NEW A, NEW ss \in Seq(Seq(A)), NEW R,
         \A i \in DOMAIN ss : Paired(R, ss[i]),
         \A i, j \in DOMAIN ss : i < j => Across(R, ss[i], ss[j])
  PROVE  /\ ToSet(FlattenSeq(ss)) = UNION {ToSet(ss[i]) : i \in DOMAIN ss}
         /\ Paired(R, FlattenSeq(ss))
<1>1. PICK h : /\ FlattenSeq(ss) = h[Len(ss)]
               /\ h[0] = <<>>
               /\ \A i \in 1..Len(ss) : h[i] = h[i - 1] \o ss[i]
               /\ \A i \in 0..Len(ss) : h[i] \in Seq(A)
  BY FlattenSteps
<1>2. PICK n \in Nat : n = Len(ss) /\ DOMAIN ss = 1..n
  OBVIOUS
<1> DEFINE Good(i) == /\ \A x : x \in ToSet(h[i]) <=> \E j \in 1..i : x \in ToSet(ss[j])
                      /\ Paired(R, h[i])
           T == {i \in Nat : i <= n => Good(i)}
<1>3. 0 \in T
  <2>1. Good(0)
    BY <1>1, EmptyPaired
  <2> QED
    BY <2>1
<1>4. ASSUME NEW i \in Nat, i \in T PROVE i + 1 \in T
  <2> SUFFICES ASSUME i + 1 <= n PROVE Good(i + 1)
    OBVIOUS
  <2>1. Good(i) /\ i + 1 \in 1..n /\ (i + 1) - 1 = i /\ i \in 0..n /\ 1..i + 1 = (1..i) \cup {i + 1}
    BY <1>4
  <2> HIDE DEF T
  <2>2. PICK v \in Seq(A) : v = h[i]
    BY <1>1, <1>2, <2>1
  <2>3. ss[i + 1] \in Seq(A)
    BY <1>2, <2>1
  <2>4. PICK w \in Seq(A) : w = ss[i + 1]
    BY <2>3
  <2>5. h[i + 1] = v \o w
    BY <1>1, <1>2, <2>1, <2>2, <2>4
  <2>6. Across(R, v, w)
    <3>1. \A x \in ToSet(v) : \E j \in 1..i : x \in ToSet(ss[j])
      BY <2>1, <2>2
    <3>2. \A j \in 1..i : Across(R, ss[j], w)
      <4>1. \A j \in 1..i : j \in DOMAIN ss /\ i + 1 \in DOMAIN ss /\ j < i + 1
        BY <1>2, <2>1
      <4> QED
        BY <2>4, <4>1
    <3> QED
      BY <3>1, <3>2 DEF Across
  <2>7. Paired(R, w)
    BY <1>2, <2>1, <2>4
  <2>8. Paired(R, v \o w) /\ ToSet(v \o w) = ToSet(v) \cup ToSet(w)
    BY <2>1, <2>2, <2>6, <2>7, JoinedPaired, JoinedSet
  <2>9. \A x : x \in ToSet(h[i + 1]) <=> x \in ToSet(h[i]) \/ x \in ToSet(ss[i + 1])
    BY <2>2, <2>4, <2>5, <2>8
  <2> QED
    BY <2>1, <2>5, <2>8, <2>9
<1>5. n \in T
  <2> HIDE DEF T
  <2> QED
    BY <1>3, <1>4, NatInductionOnSets
<1>6. Good(n)
  BY <1>5
<1> HIDE DEF T
<1>7. \A x : x \in ToSet(FlattenSeq(ss)) <=> \E j \in DOMAIN ss : x \in ToSet(ss[j])
  BY <1>1, <1>2, <1>6
<1> QED
  BY <1>1, <1>2, <1>6, <1>7

-----------------------------------------------------------------------------
(* Diff.                                                                   *)

LEMMA ColumnDefType ==
  ASSUME NEW c \in Column
  PROVE  ColumnDef(c) \in Column
BY DEF ColumnDef, Column, NoDefault, Default

LEMMA CreateTableType ==
  ASSUME NEW t \in Table
  PROVE  CreateTable(t) \in Statement
<1>1. [i \in DOMAIN t.columns |-> ColumnDef(t.columns[i])] \in Seq(Column)
  <2>1. t.columns \in Seq(Column) /\ Len(t.columns) \in Nat /\ DOMAIN t.columns = 1..Len(t.columns)
    BY DEF Table
  <2> QED
    BY <2>1, ColumnDefType
<1>2. [t EXCEPT !.columns = [i \in DOMAIN @ |-> ColumnDef(@[i])]] \in Table
  BY <1>1 DEF Table
<1>3. t.name \in STRING
  BY DEF Table
<1> QED
  BY <1>2, <1>3 DEF CreateTable, Statement

\* The statements that drop a table Diff is to drop, and those that drop none.
Allowed(current, desired) ==
  {stmt \in Statement : stmt.op = "DropTable" => stmt.name \in Names(current) \ Names(desired)}

LEMMA StatementsType ==
  ASSUME NEW current, NEW desired
  PROVE  /\ \A n \in STRING, a \in {"-", "+/-"} : DropIndex(n, a) \in Allowed(current, desired)
         /\ \A n \in Names(current) \ Names(desired) :
              n \in STRING => DropTable(n) \in Allowed(current, desired)
         /\ \A t \in Table : CreateTable(t) \in Allowed(current, desired)
         /\ \A n \in STRING, c \in Column : AddColumn(n, c) \in Allowed(current, desired)
         /\ \A n \in STRING, i \in Index, a \in {"+", "+/-"} :
              CreateIndex(n, i, a) \in Allowed(current, desired)
<1>1. ASSUME NEW n \in STRING, NEW a \in {"-", "+/-"} PROVE DropIndex(n, a) \in Allowed(current, desired)
  BY DEF DropIndex, Statement, Allowed
<1>2. ASSUME NEW n \in Names(current) \ Names(desired), n \in STRING
      PROVE  DropTable(n) \in Allowed(current, desired)
  BY <1>2 DEF DropTable, Statement, Allowed
<1>3. ASSUME NEW t \in Table PROVE CreateTable(t) \in Allowed(current, desired)
  <2>1. CreateTable(t).op = "CreateTable"
    BY DEF CreateTable
  <2> QED
    BY <2>1, CreateTableType DEF Allowed
<1>4. ASSUME NEW n \in STRING, NEW c \in Column PROVE AddColumn(n, c) \in Allowed(current, desired)
  BY ColumnDefType DEF AddColumn, Statement, Allowed
<1>5. ASSUME NEW n \in STRING, NEW i \in Index, NEW a \in {"+", "+/-"}
      PROVE  CreateIndex(n, i, a) \in Allowed(current, desired)
  <2>1. i.name \in STRING
    BY DEF Index
  <2> QED
    BY <2>1 DEF CreateIndex, Statement, Allowed
<1> QED
  BY <1>1, <1>2, <1>3, <1>4, <1>5

\* What diffTable says of one table.
LEMMA diffTableType ==
  ASSUME NEW current, NEW desired, NEW ct \in Table, NEW dt \in Table
  PROVE  /\ AddedColumns(ct, dt) \in Seq(Allowed(current, desired))
         /\ DroppedIndexes(ct, dt) \in Seq(Allowed(current, desired))
         /\ CreatedIndexes(ct, dt) \in Seq(Allowed(current, desired))
         /\ NewTableIndexes(dt) \in Seq(Allowed(current, desired))
<1> DEFINE A == Allowed(current, desired)
<1>0. /\ dt.name \in STRING /\ dt.columns \in Seq(Column)
      /\ ct.indexes \in Seq(Index) /\ dt.indexes \in Seq(Index)
  BY DEF Table
<1>1. AddedColumns(ct, dt) \in Seq(A)
  <2> DEFINE f(new) == [i \in DOMAIN new |-> AddColumn(dt.name, new[i])]
  <2>1. Unnamed(dt.columns, Names(ct.columns)) \in Seq(Column)
    BY <1>0, UnnamedType
  <2>2. ASSUME NEW new \in Seq(Column) PROVE f(new) \in Seq(A)
    <3>1. Len(new) \in Nat /\ DOMAIN new = 1..Len(new) /\ \A i \in 1..Len(new) : new[i] \in Column
      OBVIOUS
    <3>2. \A i \in 1..Len(new) : AddColumn(dt.name, new[i]) \in A
      BY <1>0, <3>1, StatementsType
    <3> HIDE DEF A
    <3> QED
      BY <3>1, <3>2
  <2> QED
    BY <2>1, <2>2 DEF AddedColumns
<1>a. \A ci \in Index : Rebuilt(dt, ci) => ByName(dt.indexes, ci.name) \in Index
  BY <1>0, ByNameType DEF Rebuilt
<1>b. \A i \in Index : i.name \in STRING
  BY DEF Index
<1>2. DroppedIndexes(ct, dt) \in Seq(A)
  <2> DEFINE f(gone) == [i \in DOMAIN gone |->
                           DropIndex(gone[i].name, IF Rebuilt(dt, gone[i]) THEN "+/-" ELSE "-")]
             S == {ci \in ToSet(ct.indexes) : ci.name \notin Names(dt.indexes) \/ Rebuilt(dt, ci)}
  <2>1. Those(ct.indexes, S) \in Seq(Index)
    <3> HIDE DEF S
    <3> QED
      BY <1>0, ThoseType
  <2>2. ASSUME NEW gone \in Seq(Index) PROVE f(gone) \in Seq(A)
    <3>1. Len(gone) \in Nat /\ DOMAIN gone = 1..Len(gone) /\ \A i \in 1..Len(gone) : gone[i] \in Index
      OBVIOUS
    <3>2. \A i \in 1..Len(gone) :
            DropIndex(gone[i].name, IF Rebuilt(dt, gone[i]) THEN "+/-" ELSE "-") \in A
      BY <1>b, <3>1, StatementsType
    <3> HIDE DEF A
    <3> QED
      BY <3>1, <3>2
  <2> QED
    BY <2>1, <2>2 DEF DroppedIndexes
<1>3. ASSUME NEW new \in Seq(Index), NEW a \in {"+", "+/-"}
      PROVE  [i \in DOMAIN new |-> CreateIndex(dt.name, new[i], a)] \in Seq(A)
  <2>1. Len(new) \in Nat /\ DOMAIN new = 1..Len(new) /\ \A i \in 1..Len(new) : new[i] \in Index
    OBVIOUS
  <2>2. \A i \in 1..Len(new) : CreateIndex(dt.name, new[i], a) \in A
    BY <1>0, <2>1, StatementsType
  <2> HIDE DEF A
  <2> QED
    BY <2>1, <2>2
<1>4. CreatedIndexes(ct, dt) \in Seq(A)
  <2> DEFINE f(rebuilt) == [i \in DOMAIN rebuilt |->
                              CreateIndex(dt.name, ByName(dt.indexes, rebuilt[i].name), "+/-")]
             g(new) == [i \in DOMAIN new |-> CreateIndex(dt.name, new[i], "+")]
             S == {ci \in ToSet(ct.indexes) : Rebuilt(dt, ci)}
  <2>1. Those(ct.indexes, S) \in Seq({ci \in Index : Rebuilt(dt, ci)})
    <3>1. Those(ct.indexes, S) \in Seq(Index \cap S)
      <4> HIDE DEF S
      <4> QED
        BY <1>0, ThoseType
    <3>2. Index \cap S \subseteq {ci \in Index : Rebuilt(dt, ci)}
      OBVIOUS
    <3> HIDE DEF S
    <3> QED
      BY <3>1, <3>2, SeqOfPart
  <2>2. Unnamed(dt.indexes, Names(ct.indexes)) \in Seq(Index)
    BY <1>0, UnnamedType
  <2>3. ASSUME NEW rebuilt \in Seq({ci \in Index : Rebuilt(dt, ci)}) PROVE f(rebuilt) \in Seq(A)
    <3>1. /\ Len(rebuilt) \in Nat /\ DOMAIN rebuilt = 1..Len(rebuilt)
          /\ \A i \in 1..Len(rebuilt) : rebuilt[i] \in Index /\ Rebuilt(dt, rebuilt[i])
      OBVIOUS
    <3>2. \A i \in 1..Len(rebuilt) :
            CreateIndex(dt.name, ByName(dt.indexes, rebuilt[i].name), "+/-") \in A
      BY <1>0, <1>a, <3>1, StatementsType
    <3> HIDE DEF A
    <3> QED
      BY <3>1, <3>2
  <2>4. f(Those(ct.indexes, S)) \in Seq(A) /\ g(Unnamed(dt.indexes, Names(ct.indexes))) \in Seq(A)
    <3> HIDE DEF S, f
    <3>1. f(Those(ct.indexes, S)) \in Seq(A)
      BY <2>1, <2>3
    <3>2. g(Unnamed(dt.indexes, Names(ct.indexes))) \in Seq(A)
      BY <2>2, <1>3
    <3> QED
      BY <3>1, <3>2
  <2>5. CreatedIndexes(ct, dt) = f(Those(ct.indexes, S)) \o g(Unnamed(dt.indexes, Names(ct.indexes)))
    BY DEF CreatedIndexes
  <2> HIDE DEF f, g, S, A
  <2> QED
    BY <2>4, <2>5, JoinedType
<1>5. NewTableIndexes(dt) \in Seq(A)
  BY <1>0, <1>3 DEF NewTableIndexes
<1> QED
  BY <1>1, <1>2, <1>4, <1>5

\* The statements of every table of a sequence, one table after the other.
LEMMA PerTableType ==
  ASSUME NEW B, NEW ts \in Seq(Table), NEW f, f = [i \in DOMAIN ts |-> f[i]],
         \A i \in DOMAIN ts : f[i] \in Seq(B)
  PROVE  FlattenSeq(f) \in Seq(B)
<1>1. Len(ts) \in Nat /\ DOMAIN ts = 1..Len(ts)
  OBVIOUS
<1>2. f \in Seq(Seq(B))
  BY <1>1
<1> QED
  BY <1>2, FlattenType

\* A plan is a sequence of statements, and the tables it drops are those of
\* the live schema that the schema files do not define.
LEMMA AssembleType ==
  ASSUME NEW current \in Seq(Table), NEW desired \in Seq(Table),
         NEW drops \in DropOrders(current, desired)
  PROVE  Assemble(current, desired, drops) \in Seq(Allowed(current, desired))
<1> DEFINE A == Allowed(current, desired)
           fresh == Unnamed(desired, Names(current))
           altered == Those(desired, {dt \in ToSet(desired) : dt.name \in Names(current)})
           Old(i) == ByName(current, altered[i].name)
           dropped == [i \in DOMAIN altered |-> DroppedIndexes(Old(i), altered[i])]
           added == [i \in DOMAIN altered |-> AddedColumns(Old(i), altered[i])]
           created == [i \in DOMAIN altered |-> CreatedIndexes(Old(i), altered[i])]
           new == [i \in DOMAIN fresh |-> NewTableIndexes(fresh[i])]
           goners == [i \in DOMAIN drops |-> DropTable(drops[i])]
           tables == [i \in DOMAIN fresh |-> CreateTable(fresh[i])]
<1>1. fresh \in Seq(Table)
  BY UnnamedType
<1>2. altered \in Seq(Table) /\ \A i \in DOMAIN altered : altered[i].name \in Names(current)
  <2> DEFINE S == {dt \in ToSet(desired) : dt.name \in Names(current)}
  <2>1. Those(desired, S) \in Seq(Table) /\ Those(desired, S) \in Seq(Table \cap S)
    <3> HIDE DEF S
    <3> QED
      BY ThoseType
  <2>2. \A s \in Seq(Table \cap S) : \A i \in DOMAIN s : s[i].name \in Names(current)
    OBVIOUS
  <2> QED
    BY <2>1, <2>2
<1> HIDE DEF fresh, altered, A
<1>3. \A i \in DOMAIN altered : altered[i] \in Table /\ Old(i) \in Table
  BY <1>2, ByNameType
<1>4. \A i \in DOMAIN fresh : fresh[i] \in Table
  BY <1>1
<1>5. /\ \A i \in DOMAIN altered : /\ DroppedIndexes(Old(i), altered[i]) \in Seq(A)
                                   /\ AddedColumns(Old(i), altered[i]) \in Seq(A)
                                   /\ CreatedIndexes(Old(i), altered[i]) \in Seq(A)
      /\ \A i \in DOMAIN fresh : NewTableIndexes(fresh[i]) \in Seq(A)
  <2> HIDE DEF Old
  <2> QED
    BY <1>3, <1>4, diffTableType DEF A
<1>6. FlattenSeq(dropped) \in Seq(A)
  BY <1>2, <1>5, PerTableType
<1>7. FlattenSeq(added) \in Seq(A)
  BY <1>2, <1>5, PerTableType
<1>8. FlattenSeq(created) \in Seq(A)
  BY <1>2, <1>5, PerTableType
<1>9. FlattenSeq(new) \in Seq(A)
  BY <1>1, <1>5, PerTableType
<1>10. goners \in Seq(A)
  <2>1. Names(current) \subseteq STRING
    <3>1. \A i \in DOMAIN current : current[i] \in Table
      OBVIOUS
    <3>2. \A t \in Table : t.name \in STRING
      BY DEF Table
    <3> QED
      BY <3>1, <3>2 DEF Names
  <2>2. drops \in [1..Cardinality(Names(current) \ Names(desired)) -> Names(current) \ Names(desired)]
    BY DEF DropOrders, SetToSeqs
  <2>3. Cardinality(Names(current) \ Names(desired)) \in Nat
    <3>1. IsFiniteSet(Names(current))
      <4>1. Len(current) \in Nat /\ DOMAIN current = 1..Len(current)
        OBVIOUS
      <4> DEFINE f == [i \in 1..Len(current) |-> current[i].name]
      <4>2. f \in Seq(Names(current)) /\ Len(f) = Len(current)
        BY <4>1 DEF Names
      <4>3. \A n \in Names(current) : \E i \in 1..Len(f) : f[i] = n
        BY <4>1, <4>2 DEF Names
      <4> HIDE DEF f
      <4> QED
        BY <4>2, <4>3 DEF IsFiniteSet
    <3> QED
      BY <3>1, FS_Difference, FS_CardinalityType
  <2>4. \A i \in DOMAIN drops : DropTable(drops[i]) \in A
    BY <2>1, <2>2, StatementsType DEF A
  <2>5. PICK n \in Nat : n = Cardinality(Names(current) \ Names(desired))
    BY <2>3
  <2>6. DOMAIN drops = 1..n
    BY <2>2, <2>5
  <2> QED
    BY <2>4, <2>6
<1>11. tables \in Seq(A)
  <2>1. Len(fresh) \in Nat /\ DOMAIN fresh = 1..Len(fresh)
    BY <1>1
  <2>2. \A i \in DOMAIN fresh : CreateTable(fresh[i]) \in A
    BY <1>4, StatementsType DEF A
  <2> QED
    BY <2>1, <2>2
<1>12. Assemble(current, desired, drops) =
         FlattenSeq(dropped) \o goners \o tables \o FlattenSeq(added) \o FlattenSeq(new)
           \o FlattenSeq(created)
  BY DEF Assemble, fresh, altered
<1> HIDE DEF dropped, added, created, new, goners, tables
<1> QED
  BY <1>6, <1>7, <1>8, <1>9, <1>10, <1>11, <1>12, JoinedType DEF A

\* For any two schemas, a plan is a sequence of statements, and each table it
\* drops is in the live schema and not in the schema files (diff.go).
THEOREM DiffDropsOnlyUndesired ==
  ASSUME NEW current \in Seq(Table), NEW desired \in Seq(Table),
         NEW stmts \in Diff(current, desired)
  PROVE  /\ stmts \in Seq(Statement)
         /\ \A i \in DOMAIN stmts :
              stmts[i].op = "DropTable" => stmts[i].name \in Names(current) \ Names(desired)
<1>1. stmts \in Seq(Allowed(current, desired))
  BY AssembleType DEF Diff
<1>2. Allowed(current, desired) \subseteq Statement
  BY DEF Allowed
<1>3. \A i \in DOMAIN stmts : stmts[i] \in Allowed(current, desired)
  BY <1>1
<1> QED
  BY <1>1, <1>2, <1>3, SeqOfPart DEF Allowed

-----------------------------------------------------------------------------
(* What a plan consists of, and in which order.                            *)

LEMMA DistinctKept ==
  ASSUME NEW A, NEW s \in Seq(A), NEW S, Distinct(s)
  PROVE  ToSet(Those(s, S)) = ToSet(s) \cap S /\ Distinct(Those(s, S))
<1> DEFINE R == {r \in A \X A : r[1].name # r[2].name}
<1>1. Len(s) \in Nat /\ DOMAIN s = 1..Len(s) /\ \A i \in DOMAIN s : s[i] \in A
  OBVIOUS
<1>2. Paired(R, s)
  BY <1>1 DEF Paired, Distinct
<1>3. PICK u \in Seq(A) : u = Those(s, S)
  BY ThoseType
<1>4. ToSet(u) = ToSet(s) \cap S /\ Paired(R, u)
  <2> HIDE DEF R
  <2> QED
    BY <1>2, <1>3, ThoseKeeps
<1>5. Len(u) \in Nat /\ DOMAIN u = 1..Len(u)
  OBVIOUS
<1>6. \A i, j \in DOMAIN u : i < j => u[i].name # u[j].name
  BY <1>4 DEF Paired
<1>7. \A i, j \in DOMAIN u : i < j \/ j < i \/ i = j
  BY <1>5
<1>8. Distinct(u)
  BY <1>6, <1>7 DEF Distinct
<1> QED
  BY <1>3, <1>4, <1>8

LEMMA UnnamedKept ==
  ASSUME NEW A, NEW s \in Seq(A), NEW N, Distinct(s)
  PROVE  /\ ToSet(Unnamed(s, N)) = {x \in ToSet(s) : x.name \notin N}
         /\ Distinct(Unnamed(s, N))
<1>1. PICK S : S = {x \in ToSet(s) : x.name \notin N}
  OBVIOUS
<1>2. ToSet(Those(s, S)) = ToSet(s) \cap S /\ Distinct(Those(s, S))
  BY DistinctKept
<1> QED
  BY <1>1, <1>2 DEF Unnamed

\* The entry that ByName finds, when there is no other of its name.
LEMMA ByNameIs ==
  ASSUME NEW A, NEW s \in Seq(A), NEW n \in Names(s)
  PROVE  /\ ByName(s, n) \in ToSet(s)
         /\ ByName(s, n).name = n
         /\ Distinct(s) => \A x \in ToSet(s) : x.name = n => x = ByName(s, n)
<1>1. s \in Seq(ToSet(s))
  BY DEF ToSet
<1>2. PICK b : b = ByName(s, n)
  OBVIOUS
<1>3. b \in ToSet(s) /\ b.name = n
  BY <1>1, <1>2, ByNameType
<1>4. Distinct(s) => \A x \in ToSet(s) : x.name = n => x = b
  BY <1>3 DEF Distinct, ToSet
<1> QED
  BY <1>2, <1>3, <1>4

\* The place of a statement in a plan, and what it is about.
Rank(stmt) ==
  CASE stmt.op = "DropIndex"   -> 1
    [] stmt.op = "DropTable"   -> 2
    [] stmt.op = "CreateTable" -> 3
    [] stmt.op = "AddColumn"   -> 4
    [] stmt.op = "CreateIndex" -> 5

SameTarget(s, t) ==
  /\ s.op = t.op
  /\ s.name = t.name
  /\ s.op = "AddColumn" => s.column.name = t.column.name

\* Of two statements of a plan the first may come before the second.
Before == {r \in Statement \X Statement : Rank(r[1]) <= Rank(r[2]) /\ ~SameTarget(r[1], r[2])}

LEMMA StatementsAre ==
  /\ \A n, a : /\ DropIndex(n, a).op = "DropIndex" /\ DropIndex(n, a).name = n
               /\ Rank(DropIndex(n, a)) = 1
  /\ \A n : /\ DropTable(n).op = "DropTable" /\ DropTable(n).name = n
            /\ Rank(DropTable(n)) = 2
  /\ \A t : /\ CreateTable(t).op = "CreateTable" /\ CreateTable(t).name = t.name
            /\ Rank(CreateTable(t)) = 3
  /\ \A t : \A c \in Column : /\ AddColumn(t, c).op = "AddColumn" /\ AddColumn(t, c).name = t
                              /\ AddColumn(t, c).column.name = c.name
                              /\ Rank(AddColumn(t, c)) = 4
  /\ \A t, i, a : /\ CreateIndex(t, i, a).op = "CreateIndex" /\ CreateIndex(t, i, a).name = i.name
                  /\ CreateIndex(t, i, a).on = t /\ CreateIndex(t, i, a).index = i
                  /\ Rank(CreateIndex(t, i, a)) = 5
<1>1. \A c \in Column : ColumnDef(c).name = c.name
  BY DEF ColumnDef, Column
<1> QED
  BY <1>1 DEF DropIndex, DropTable, CreateTable, AddColumn, CreateIndex, Rank

LEMMA BeforeIs ==
  \A x, y \in Statement : <<x, y>> \in Before <=> Rank(x) <= Rank(y) /\ ~SameTarget(x, y)
BY DEF Before

\* A sequence of statements of one kind, each about something else.
LEMMA KindInOrder ==
  ASSUME NEW s \in Seq(Statement), NEW k \in Nat,
         \A i \in DOMAIN s : Rank(s[i]) = k,
         \A i, j \in DOMAIN s : SameTarget(s[i], s[j]) => i = j
  PROVE  Paired(Before, s)
<1>1. Len(s) \in Nat /\ DOMAIN s = 1..Len(s) /\ \A i \in DOMAIN s : s[i] \in Statement
  OBVIOUS
<1>2. SUFFICES ASSUME NEW i \in DOMAIN s, NEW j \in DOMAIN s, i < j PROVE <<s[i], s[j]>> \in Before
  BY DEF Paired
<1>3. Rank(s[i]) <= Rank(s[j]) /\ ~SameTarget(s[i], s[j])
  BY <1>1, <1>2
<1> QED
  BY <1>1, <1>3, BeforeIs

LEMMA AddedColumnsAre ==
  ASSUME NEW ct \in Table, NEW dt \in Table, Distinct(dt.columns)
  PROVE  /\ ToSet(AddedColumns(ct, dt)) =
              {AddColumn(dt.name, c) : c \in {x \in ToSet(dt.columns) : x.name \notin Names(ct.columns)}}
         /\ AddedColumns(ct, dt) \in Seq(Statement)
         /\ Paired(Before, AddedColumns(ct, dt))
<1>0. dt.columns \in Seq(Column) /\ dt.name \in STRING
  BY DEF Table
<1>1. PICK new \in Seq(Column) : new = Unnamed(dt.columns, Names(ct.columns))
  BY <1>0, UnnamedType
<1>2. /\ ToSet(new) = {x \in ToSet(dt.columns) : x.name \notin Names(ct.columns)}
      /\ Distinct(new)
  BY <1>0, <1>1, UnnamedKept
<1>3. PICK s : s = AddedColumns(ct, dt)
  OBVIOUS
<1>4. s = [i \in DOMAIN new |-> AddColumn(dt.name, new[i])]
  BY <1>1, <1>3 DEF AddedColumns
<1>5. s \in Seq(Statement)
  <2>1. AddedColumns(ct, dt) \in Seq(Allowed(<<>>, <<>>))
    BY diffTableType
  <2> QED
    BY <1>3, <2>1, SeqOfPart DEF Allowed
<1>6. DOMAIN s = DOMAIN new /\ \A i \in DOMAIN new : new[i] \in Column /\ s[i] = AddColumn(dt.name, new[i])
  BY <1>4
<1>7. \A i \in DOMAIN s : Rank(s[i]) = 4
  BY <1>6, StatementsAre
<1>8. \A i, j \in DOMAIN s : SameTarget(s[i], s[j]) => i = j
  BY <1>2, <1>6, StatementsAre DEF SameTarget, Distinct
<1>9. Paired(Before, s)
  BY <1>5, <1>7, <1>8, KindInOrder
<1>10. ToSet(s) = {AddColumn(dt.name, c) : c \in ToSet(new)}
  BY <1>6 DEF ToSet
<1> QED
  BY <1>2, <1>3, <1>5, <1>9, <1>10

LEMMA DroppedIndexesAre ==
  ASSUME NEW ct \in Table, NEW dt \in Table, Distinct(ct.indexes)
  PROVE  /\ ToSet(DroppedIndexes(ct, dt)) =
              {DropIndex(ci.name, IF Rebuilt(dt, ci) THEN "+/-" ELSE "-") :
                 ci \in {x \in ToSet(ct.indexes) : x.name \notin Names(dt.indexes) \/ Rebuilt(dt, x)}}
         /\ DroppedIndexes(ct, dt) \in Seq(Statement)
         /\ Paired(Before, DroppedIndexes(ct, dt))
<1>0. ct.indexes \in Seq(Index)
  BY DEF Table
<1>1. PICK S : S = {ci \in ToSet(ct.indexes) : ci.name \notin Names(dt.indexes) \/ Rebuilt(dt, ci)}
  OBVIOUS
<1>2. PICK gone \in Seq(Index) : gone = Those(ct.indexes, S)
  BY <1>0, ThoseType
<1>3. ToSet(gone) = S /\ Distinct(gone)
  BY <1>0, <1>1, <1>2, DistinctKept
<1>4. PICK s : s = DroppedIndexes(ct, dt)
  OBVIOUS
<1>5. s = [i \in DOMAIN gone |-> DropIndex(gone[i].name, IF Rebuilt(dt, gone[i]) THEN "+/-" ELSE "-")]
  BY <1>1, <1>2, <1>4 DEF DroppedIndexes
<1>6. s \in Seq(Statement)
  <2>1. DroppedIndexes(ct, dt) \in Seq(Allowed(<<>>, <<>>))
    BY diffTableType
  <2> QED
    BY <1>4, <2>1, SeqOfPart DEF Allowed
<1>7. /\ DOMAIN s = DOMAIN gone
      /\ \A i \in DOMAIN gone : s[i] = DropIndex(gone[i].name, IF Rebuilt(dt, gone[i]) THEN "+/-" ELSE "-")
  BY <1>5
<1>8. \A i \in DOMAIN s : Rank(s[i]) = 1
  BY <1>7, StatementsAre
<1>9. \A i, j \in DOMAIN s : SameTarget(s[i], s[j]) => i = j
  BY <1>3, <1>7, StatementsAre DEF SameTarget, Distinct
<1>10. Paired(Before, s)
  BY <1>6, <1>8, <1>9, KindInOrder
<1>11. ToSet(s) = {DropIndex(ci.name, IF Rebuilt(dt, ci) THEN "+/-" ELSE "-") : ci \in ToSet(gone)}
  BY <1>7 DEF ToSet
<1> QED
  BY <1>1, <1>3, <1>4, <1>6, <1>10, <1>11

LEMMA NewTableIndexesAre ==
  ASSUME NEW dt \in Table, Distinct(dt.indexes)
  PROVE  /\ ToSet(NewTableIndexes(dt)) = {CreateIndex(dt.name, di, "+") : di \in ToSet(dt.indexes)}
         /\ NewTableIndexes(dt) \in Seq(Statement)
         /\ Paired(Before, NewTableIndexes(dt))
<1>1. PICK s : s = NewTableIndexes(dt)
  OBVIOUS
<1>2. s \in Seq(Statement)
  <2>1. NewTableIndexes(dt) \in Seq(Allowed(<<>>, <<>>))
    BY diffTableType
  <2> QED
    BY <1>1, <2>1, SeqOfPart DEF Allowed
<1>3. /\ DOMAIN s = DOMAIN dt.indexes
      /\ \A i \in DOMAIN s : s[i] = CreateIndex(dt.name, dt.indexes[i], "+")
  BY <1>1 DEF NewTableIndexes
<1>4. \A i \in DOMAIN s : Rank(s[i]) = 5
  BY <1>3, StatementsAre
<1>5. \A i, j \in DOMAIN s : SameTarget(s[i], s[j]) => i = j
  BY <1>3, StatementsAre DEF SameTarget, Distinct
<1>6. Paired(Before, s)
  BY <1>2, <1>4, <1>5, KindInOrder
<1>7. ToSet(s) = {CreateIndex(dt.name, di, "+") : di \in ToSet(dt.indexes)}
  BY <1>3 DEF ToSet
<1> QED
  BY <1>1, <1>2, <1>6, <1>7

LEMMA CreatedIndexesAre ==
  ASSUME NEW ct \in Table, NEW dt \in Table, Distinct(ct.indexes), Distinct(dt.indexes)
  PROVE  /\ ToSet(CreatedIndexes(ct, dt)) =
              {CreateIndex(dt.name, ByName(dt.indexes, ci.name), "+/-") :
                 ci \in {x \in ToSet(ct.indexes) : Rebuilt(dt, x)}}
              \cup {CreateIndex(dt.name, di, "+") :
                      di \in {x \in ToSet(dt.indexes) : x.name \notin Names(ct.indexes)}}
         /\ CreatedIndexes(ct, dt) \in Seq(Statement)
         /\ Paired(Before, CreatedIndexes(ct, dt))
<1>0. ct.indexes \in Seq(Index) /\ dt.indexes \in Seq(Index) /\ dt.name \in STRING
  BY DEF Table
<1>1. PICK S : S = {ci \in ToSet(ct.indexes) : Rebuilt(dt, ci)}
  OBVIOUS
<1>2. PICK old \in Seq(Index) : old = Those(ct.indexes, S)
  BY <1>0, ThoseType
<1>3. PICK new \in Seq(Index) : new = Unnamed(dt.indexes, Names(ct.indexes))
  BY <1>0, UnnamedType
<1>4. ToSet(old) = S /\ Distinct(old)
  BY <1>0, <1>1, <1>2, DistinctKept
<1>5. ToSet(new) = {x \in ToSet(dt.indexes) : x.name \notin Names(ct.indexes)} /\ Distinct(new)
  BY <1>0, <1>3, UnnamedKept
<1>6. PICK s : s = [i \in DOMAIN old |-> CreateIndex(dt.name, ByName(dt.indexes, old[i].name), "+/-")]
  OBVIOUS
<1>7. PICK t : t = [i \in DOMAIN new |-> CreateIndex(dt.name, new[i], "+")]
  OBVIOUS
<1>8. CreatedIndexes(ct, dt) = s \o t
  BY <1>1, <1>2, <1>3, <1>6, <1>7 DEF CreatedIndexes
<1>9. \A i \in DOMAIN old : /\ old[i] \in ToSet(ct.indexes)
                            /\ Rebuilt(dt, old[i]) /\ old[i].name \in Names(dt.indexes)
                            /\ ByName(dt.indexes, old[i].name).name = old[i].name
                            /\ ByName(dt.indexes, old[i].name) \in Index
  <2> SUFFICES ASSUME NEW i \in DOMAIN old
               PROVE  /\ old[i] \in ToSet(ct.indexes)
                      /\ Rebuilt(dt, old[i]) /\ old[i].name \in Names(dt.indexes)
                      /\ ByName(dt.indexes, old[i].name).name = old[i].name
                      /\ ByName(dt.indexes, old[i].name) \in Index
    OBVIOUS
  <2>1. old[i] \in S
    BY <1>4 DEF ToSet
  <2>2. Rebuilt(dt, old[i]) /\ old[i] \in ToSet(ct.indexes)
    BY <1>1, <2>1
  <2>3. old[i].name \in Names(dt.indexes)
    BY <2>2 DEF Rebuilt
  <2> QED
    BY <1>0, <2>2, <2>3, ByNameType
<1>10. \A i \in DOMAIN new : new[i] \in Index /\ new[i].name \notin Names(ct.indexes)
  BY <1>5 DEF ToSet
<1>11. \A i \in Index, a \in {"+", "+/-"} : CreateIndex(dt.name, i, a) \in Statement
  BY <1>0, StatementsType DEF Allowed
<1>12. /\ DOMAIN s = DOMAIN old
       /\ \A i \in DOMAIN s : s[i] = CreateIndex(dt.name, ByName(dt.indexes, old[i].name), "+/-")
       /\ s \in Seq(Statement)
  <2>1. Len(old) \in Nat /\ DOMAIN old = 1..Len(old)
    OBVIOUS
  <2>2. \A i \in DOMAIN old : CreateIndex(dt.name, ByName(dt.indexes, old[i].name), "+/-") \in Statement
    BY <1>9, <1>11
  <2> QED
    BY <1>6, <2>1, <2>2
<1>13. /\ DOMAIN t = DOMAIN new
       /\ \A i \in DOMAIN t : t[i] = CreateIndex(dt.name, new[i], "+")
       /\ t \in Seq(Statement)
  <2>1. Len(new) \in Nat /\ DOMAIN new = 1..Len(new)
    OBVIOUS
  <2>2. \A i \in DOMAIN new : CreateIndex(dt.name, new[i], "+") \in Statement
    BY <1>10, <1>11
  <2> QED
    BY <1>7, <2>1, <2>2
<1>14. Paired(Before, s)
  <2>1. \A i \in DOMAIN s : Rank(s[i]) = 5 /\ s[i].name = old[i].name
    BY <1>9, <1>12, StatementsAre
  <2>2. \A i, j \in DOMAIN s : SameTarget(s[i], s[j]) => i = j
    BY <1>4, <1>12, <2>1 DEF SameTarget, Distinct
  <2> QED
    BY <1>12, <2>1, <2>2, KindInOrder
<1>15. Paired(Before, t)
  <2>1. \A i \in DOMAIN t : Rank(t[i]) = 5 /\ t[i].name = new[i].name
    BY <1>13, StatementsAre
  <2>2. \A i, j \in DOMAIN t : SameTarget(t[i], t[j]) => i = j
    BY <1>5, <1>13, <2>1 DEF SameTarget, Distinct
  <2> QED
    BY <1>13, <2>1, <2>2, KindInOrder
<1>16. Across(Before, s, t)
  <2> SUFFICES ASSUME NEW i \in DOMAIN s, NEW j \in DOMAIN t PROVE <<s[i], t[j]>> \in Before
    BY DEF Across, ToSet
  <2>1. s[i] \in Statement /\ t[j] \in Statement
    BY <1>12, <1>13
  <2>2. Rank(s[i]) = 5 /\ Rank(t[j]) = 5 /\ s[i].name = old[i].name /\ t[j].name = new[j].name
    BY <1>9, <1>12, <1>13, StatementsAre
  <2>3. old[i].name \in Names(ct.indexes) /\ new[j].name \notin Names(ct.indexes)
    BY <1>9, <1>10, <1>12, <1>13 DEF Names, ToSet
  <2>4. Rank(s[i]) <= Rank(t[j]) /\ ~SameTarget(s[i], t[j])
    BY <2>2, <2>3 DEF SameTarget
  <2> QED
    BY <2>1, <2>4, BeforeIs
<1>17. ToSet(s) = {CreateIndex(dt.name, ByName(dt.indexes, ci.name), "+/-") : ci \in S}
  <2>1. ToSet(s) = {CreateIndex(dt.name, ByName(dt.indexes, ci.name), "+/-") : ci \in ToSet(old)}
    BY <1>12 DEF ToSet
  <2> QED
    BY <1>4, <2>1
<1>18. ToSet(t) = {CreateIndex(dt.name, di, "+") :
                      di \in {x \in ToSet(dt.indexes) : x.name \notin Names(ct.indexes)}}
  <2>1. ToSet(t) = {CreateIndex(dt.name, di, "+") : di \in ToSet(new)}
    BY <1>13 DEF ToSet
  <2> QED
    BY <1>5, <2>1
<1>19. /\ s \o t \in Seq(Statement)
       /\ ToSet(s \o t) = ToSet(s) \cup ToSet(t)
       /\ Paired(Before, s \o t)
  BY <1>12, <1>13, <1>14, <1>15, <1>16, JoinedType, JoinedSet, JoinedPaired
<1> QED
  BY <1>1, <1>8, <1>17, <1>18, <1>19

\* The statements of several tables, one table after the other.
LEMMA PerTableKeeps ==
  ASSUME NEW ts \in Seq(Table), NEW f, f = [i \in DOMAIN ts |-> f[i]],
         \A i \in DOMAIN ts : f[i] \in Seq(Statement) /\ Paired(Before, f[i]),
         \A i, j \in DOMAIN ts : i # j => Across(Before, f[i], f[j])
  PROVE  /\ FlattenSeq(f) \in Seq(Statement)
         /\ ToSet(FlattenSeq(f)) = UNION {ToSet(f[i]) : i \in DOMAIN ts}
         /\ Paired(Before, FlattenSeq(f))
<1>1. Len(ts) \in Nat /\ DOMAIN ts = 1..Len(ts) /\ DOMAIN f = DOMAIN ts
  OBVIOUS
<1>2. f \in Seq(Seq(Statement))
  BY <1>1
<1>3. \A i, j \in DOMAIN f : i < j => Across(Before, f[i], f[j])
  BY <1>1
<1> QED
  BY <1>1, <1>2, <1>3, FlattenKeeps, FlattenType

\* Statements of two kinds are in order when the kinds are.
LEMMA KindsInOrder ==
  ASSUME NEW s \in Seq(Statement), NEW t \in Seq(Statement), NEW k \in Nat, NEW m \in Nat, k < m,
         \A x \in ToSet(s) : Rank(x) <= k, \A y \in ToSet(t) : Rank(y) = m
  PROVE  Across(Before, s, t)
<1>1. SUFFICES ASSUME NEW x \in ToSet(s), NEW y \in ToSet(t) PROVE <<x, y>> \in Before
  BY DEF Across
<1>2. x \in Statement /\ y \in Statement
  BY <1>1 DEF ToSet
<1>3. Rank(x) \in Nat /\ Rank(x) <= k /\ Rank(y) = m
  BY <1>1, <1>2 DEF Rank, Statement
<1>4. x.op = y.op => Rank(x) = Rank(y)
  BY DEF Rank
<1>5. Rank(x) <= Rank(y) /\ Rank(x) # Rank(y)
  BY <1>3
<1>6. ~SameTarget(x, y)
  BY <1>4, <1>5 DEF SameTarget
<1> QED
  BY <1>2, <1>5, <1>6, BeforeIs

\* Every statement of a table's part is about that table or its indexes.
LEMMA TablesInOrder ==
  ASSUME NEW ct \in Table, NEW cu \in Table, NEW dt \in Table, NEW du \in Table,
         Distinct(ct.indexes), Distinct(cu.indexes), Distinct(dt.indexes), Distinct(du.indexes),
         Distinct(dt.columns), Distinct(du.columns), dt.name # du.name
  PROVE  /\ Across(Before, AddedColumns(ct, dt), AddedColumns(cu, du))
         /\ Names(ct.indexes) \cap Names(cu.indexes) = {} =>
              Across(Before, DroppedIndexes(ct, dt), DroppedIndexes(cu, du))
         /\ Names(dt.indexes) \cap Names(du.indexes) = {} =>
              /\ Across(Before, NewTableIndexes(dt), NewTableIndexes(du))
              /\ Across(Before, CreatedIndexes(ct, dt), CreatedIndexes(cu, du))
              /\ Across(Before, NewTableIndexes(dt), CreatedIndexes(cu, du))
<1>0. /\ dt.columns \in Seq(Column) /\ du.columns \in Seq(Column)
      /\ dt.indexes \in Seq(Index) /\ du.indexes \in Seq(Index)
  BY DEF Table
<1>a. \A s \in Seq(Statement) : \A x \in ToSet(s) : x \in Statement
  BY DEF ToSet
<1>b. \A s \in Seq(Index) : \A x \in ToSet(s) : x \in Index /\ x.name \in Names(s)
  BY DEF ToSet, Names
<1>c. \A s \in Seq(Column) : \A x \in ToSet(s) : x \in Column
  BY DEF ToSet
<1>1. Across(Before, AddedColumns(ct, dt), AddedColumns(cu, du))
  <2> SUFFICES ASSUME NEW x \in ToSet(AddedColumns(ct, dt)), NEW y \in ToSet(AddedColumns(cu, du))
               PROVE  <<x, y>> \in Before
    BY DEF Across
  <2>1. x \in Statement /\ y \in Statement
    BY <1>a, AddedColumnsAre
  <2>2. /\ \E c \in ToSet(dt.columns) : x = AddColumn(dt.name, c)
        /\ \E c \in ToSet(du.columns) : y = AddColumn(du.name, c)
    BY AddedColumnsAre
  <2>3. x.name = dt.name /\ y.name = du.name /\ Rank(x) = 4 /\ Rank(y) = 4
    BY <1>0, <1>c, <2>2, StatementsAre
  <2> QED
    BY <2>1, <2>3, BeforeIs DEF SameTarget
<1>2. ASSUME Names(ct.indexes) \cap Names(cu.indexes) = {}
      PROVE  Across(Before, DroppedIndexes(ct, dt), DroppedIndexes(cu, du))
  <2> SUFFICES ASSUME NEW x \in ToSet(DroppedIndexes(ct, dt)), NEW y \in ToSet(DroppedIndexes(cu, du))
               PROVE  <<x, y>> \in Before
    BY DEF Across
  <2>1. x \in Statement /\ y \in Statement
    BY <1>a, DroppedIndexesAre
  <2>2. /\ \E ci \in ToSet(ct.indexes) : x = DropIndex(ci.name, IF Rebuilt(dt, ci) THEN "+/-" ELSE "-")
        /\ \E ci \in ToSet(cu.indexes) : y = DropIndex(ci.name, IF Rebuilt(du, ci) THEN "+/-" ELSE "-")
    <3>1. PICK X : X = ToSet(DroppedIndexes(ct, dt))
      OBVIOUS
    <3>2. PICK Y : Y = ToSet(DroppedIndexes(cu, du))
      OBVIOUS
    <3>3. X = {DropIndex(ci.name, IF Rebuilt(dt, ci) THEN "+/-" ELSE "-") :
                 ci \in {x_1 \in ToSet(ct.indexes) : x_1.name \notin Names(dt.indexes) \/ Rebuilt(dt, x_1)}}
      BY <3>1, DroppedIndexesAre
    <3>4. Y = {DropIndex(ci.name, IF Rebuilt(du, ci) THEN "+/-" ELSE "-") :
                 ci \in {x_1 \in ToSet(cu.indexes) : x_1.name \notin Names(du.indexes) \/ Rebuilt(du, x_1)}}
      BY <3>2, DroppedIndexesAre
    <3> QED
      BY <3>1, <3>2, <3>3, <3>4
  <2>3. ct.indexes \in Seq(Index) /\ cu.indexes \in Seq(Index)
    BY DEF Table
  <2>4. x.name \in Names(ct.indexes) /\ y.name \in Names(cu.indexes) /\ Rank(x) = 1 /\ Rank(y) = 1
    BY <1>b, <2>2, <2>3, StatementsAre
  <2> QED
    BY <1>2, <2>1, <2>4, BeforeIs DEF SameTarget
<1>3. ASSUME NEW c, NEW t, c \in Table, t \in Table, Distinct(c.indexes), Distinct(t.indexes)
      PROVE  /\ \A x \in ToSet(CreatedIndexes(c, t)) :
                  x \in Statement /\ x.name \in Names(t.indexes) /\ Rank(x) = 5
             /\ \A x \in ToSet(NewTableIndexes(t)) :
                  x \in Statement /\ x.name \in Names(t.indexes) /\ Rank(x) = 5
  <2>0. t.indexes \in Seq(Index) /\ c.indexes \in Seq(Index)
    BY <1>3 DEF Table
  <2>1. ASSUME NEW x \in ToSet(CreatedIndexes(c, t))
        PROVE  x \in Statement /\ x.name \in Names(t.indexes) /\ Rank(x) = 5
    <3>1. x \in Statement
      BY <1>3, <1>a, CreatedIndexesAre
    <3>2. \/ \E ci \in ToSet(c.indexes) : /\ Rebuilt(t, ci)
                                          /\ x = CreateIndex(t.name, ByName(t.indexes, ci.name), "+/-")
          \/ \E di \in ToSet(t.indexes) : x = CreateIndex(t.name, di, "+")
      <4>1. PICK X : X = ToSet(CreatedIndexes(c, t))
        OBVIOUS
      <4>2. X = {CreateIndex(t.name, ByName(t.indexes, ci.name), "+/-") :
                   ci \in {x_1 \in ToSet(c.indexes) : Rebuilt(t, x_1)}}
                \cup {CreateIndex(t.name, di, "+") :
                        di \in {x_1 \in ToSet(t.indexes) : x_1.name \notin Names(c.indexes)}}
        BY <1>3, <4>1, CreatedIndexesAre
      <4> QED
        BY <4>1, <4>2
    <3>3. \A ci \in ToSet(c.indexes) : Rebuilt(t, ci) => ByName(t.indexes, ci.name).name \in Names(t.indexes)
      BY <2>0, ByNameType DEF Rebuilt
    <3> QED
      BY <1>b, <2>0, <3>1, <3>2, <3>3, StatementsAre
  <2>2. ASSUME NEW x \in ToSet(NewTableIndexes(t))
        PROVE  x \in Statement /\ x.name \in Names(t.indexes) /\ Rank(x) = 5
    <3>1. x \in Statement
      BY <1>3, <1>a, NewTableIndexesAre
    <3>2. \E di \in ToSet(t.indexes) : x = CreateIndex(t.name, di, "+")
      BY <1>3, NewTableIndexesAre
    <3> QED
      BY <1>b, <2>0, <3>1, <3>2, StatementsAre
  <2> QED
    BY <2>1, <2>2
<1>4. ASSUME Names(dt.indexes) \cap Names(du.indexes) = {}, NEW x, NEW y,
             x \in Statement, y \in Statement, Rank(x) = 5, Rank(y) = 5,
             x.name \in Names(dt.indexes), y.name \in Names(du.indexes)
      PROVE  <<x, y>> \in Before
  BY <1>4, BeforeIs DEF SameTarget
<1>5. ASSUME Names(dt.indexes) \cap Names(du.indexes) = {}
      PROVE  /\ Across(Before, NewTableIndexes(dt), NewTableIndexes(du))
             /\ Across(Before, CreatedIndexes(ct, dt), CreatedIndexes(cu, du))
             /\ Across(Before, NewTableIndexes(dt), CreatedIndexes(cu, du))
  BY <1>3, <1>4, <1>5 DEF Across
<1> QED
  BY <1>1, <1>2, <1>5

\* An order of a finite set is all of it, each element once.
LEMMA OrderIsAll ==
  ASSUME NEW S, IsFiniteSet(S), NEW s \in SetToSeqs(S)
  PROVE  /\ s \in Seq(S)
         /\ ToSet(s) = S
         /\ \A i, j \in DOMAIN s : s[i] = s[j] => i = j
<1>1. PICK n \in Nat : n = Cardinality(S)
  BY FS_CardinalityType
<1>2. s \in [1..n -> S] /\ \A i, j \in 1..n : i # j => s[i] # s[j]
  BY <1>1 DEF SetToSeqs
<1>3. s \in Seq(S)
  BY <1>2
<1>4. ASSUME NEW x \in S, \A i \in 1..n : s[i] # x PROVE FALSE
  <2>1. IsFiniteSet(S \ {x}) /\ Cardinality(S \ {x}) = n - 1
    BY <1>1, FS_RemoveElement
  <2>2. IsFiniteSet(1..n) /\ Cardinality(1..n) = n
    BY FS_Interval
  <2>3. s \in [1..n -> S \ {x}]
    BY <1>2, <1>4
  <2>4. n - 1 < n
    OBVIOUS
  <2>5. \E i, j \in 1..n : i # j /\ s[i] = s[j]
    BY <2>1, <2>2, <2>3, <2>4, FS_PigeonHole
  <2> QED
    BY <1>2, <2>5
<1> QED
  BY <1>2, <1>3, <1>4 DEF ToSet

LEMMA NamesFinite ==
  ASSUME NEW A, NEW s \in Seq(A)
  PROVE  IsFiniteSet(Names(s))
<1>1. Len(s) \in Nat /\ DOMAIN s = 1..Len(s)
  OBVIOUS
<1> DEFINE f == [i \in 1..Len(s) |-> s[i].name]
<1>2. f \in Seq(Names(s)) /\ Len(f) = Len(s)
  BY <1>1 DEF Names
<1>3. \A n \in Names(s) : \E i \in 1..Len(f) : f[i] = n
  BY <1>1, <1>2 DEF Names
<1> HIDE DEF f
<1> QED
  BY <1>2, <1>3 DEF IsFiniteSet

\* A live schema in which no index is met twice.
Readable(current) == (\A t \in ToSet(current) : Distinct(t.indexes)) /\ IndexesApart(current)

Old(current, dt) == ByName(current, dt.name)
Fresh(current, desired)   == {dt \in ToSet(desired) : dt.name \notin Names(current)}
Altered(current, desired) == {dt \in ToSet(desired) : dt.name \in Names(current)}

\* What a plan does to the tables that stay, and to those that are new.
DropsOf(current, desired) ==
  UNION {ToSet(DroppedIndexes(Old(current, dt), dt)) : dt \in Altered(current, desired)}
AddsOf(current, desired) ==
  UNION {ToSet(AddedColumns(Old(current, dt), dt)) : dt \in Altered(current, desired)}
BuildsOf(current, desired) ==
  UNION {ToSet(NewTableIndexes(dt)) : dt \in Fresh(current, desired)}
RebuildsOf(current, desired) ==
  UNION {ToSet(CreatedIndexes(Old(current, dt), dt)) : dt \in Altered(current, desired)}

PlanOf(current, desired) ==
  DropsOf(current, desired)
  \cup {DropTable(n) : n \in Names(current) \ Names(desired)}
  \cup {CreateTable(dt) : dt \in Fresh(current, desired)}
  \cup AddsOf(current, desired)
  \cup BuildsOf(current, desired)
  \cup RebuildsOf(current, desired)

LEMMA RanksOf ==
  ASSUME NEW ct \in Table, NEW dt \in Table,
         Distinct(ct.indexes), Distinct(dt.indexes), Distinct(dt.columns)
  PROVE  /\ \A x \in ToSet(DroppedIndexes(ct, dt)) : Rank(x) = 1
         /\ \A x \in ToSet(AddedColumns(ct, dt)) : Rank(x) = 4
         /\ \A x \in ToSet(NewTableIndexes(dt)) : Rank(x) = 5
         /\ \A x \in ToSet(CreatedIndexes(ct, dt)) : Rank(x) = 5
<1>1. \A x \in ToSet(DroppedIndexes(ct, dt)) : \E n, a : x = DropIndex(n, a)
  BY DroppedIndexesAre
<1>2. \A x \in ToSet(AddedColumns(ct, dt)) : \E c \in Column : x = AddColumn(dt.name, c)
  <2>1. \A c \in ToSet(dt.columns) : c \in Column
    BY DEF Table, ToSet
  <2> QED
    BY <2>1, AddedColumnsAre
<1>3. \A x \in ToSet(NewTableIndexes(dt)) : \E i, a : x = CreateIndex(dt.name, i, a)
  BY NewTableIndexesAre
<1>4. \A x \in ToSet(CreatedIndexes(ct, dt)) : \E i, a : x = CreateIndex(dt.name, i, a)
  BY CreatedIndexesAre
<1> QED
  BY <1>1, <1>2, <1>3, <1>4, StatementsAre

\* Joined to statements of earlier kinds, those of one kind keep the order.
Upwards(s, k) ==
  /\ s \in Seq(Statement)
  /\ Paired(Before, s)
  /\ \A x \in ToSet(s) : Rank(x) \in Nat /\ Rank(x) <= k

OfKind(s, k) == s \in Seq(Statement) /\ Paired(Before, s) /\ \A x \in ToSet(s) : Rank(x) = k

LEMMA KindsJoined ==
  ASSUME NEW s \in Seq(Statement), NEW t \in Seq(Statement), NEW k \in Nat, NEW m \in Nat, k < m,
         Paired(Before, s), Paired(Before, t),
         \A x \in ToSet(s) : Rank(x) \in Nat /\ Rank(x) <= k, \A y \in ToSet(t) : Rank(y) = m
  PROVE  /\ s \o t \in Seq(Statement)
         /\ Paired(Before, s \o t)
         /\ ToSet(s \o t) = ToSet(s) \cup ToSet(t)
         /\ \A x \in ToSet(s \o t) : Rank(x) \in Nat /\ Rank(x) <= m
<1>1. Across(Before, s, t)
  BY KindsInOrder
<1>2. ToSet(s \o t) = ToSet(s) \cup ToSet(t) /\ s \o t \in Seq(Statement)
  BY JoinedSet, JoinedType
<1>3. Paired(Before, s \o t)
  BY <1>1, JoinedPaired
<1>4. \A x \in ToSet(s) : Rank(x) <= m
  OBVIOUS
<1> QED
  BY <1>2, <1>3, <1>4

\* One more kind.
Extends(s, t, m) ==
  /\ Upwards(s \o t, m)
  /\ ToSet(s \o t) = ToSet(s) \cup ToSet(t)
  /\ Across(Before, s, t)

LEMMA KindsAt ==
  ASSUME NEW k \in Nat, NEW m \in Nat, k < m
  PROVE  \A s, t : Upwards(s, k) /\ OfKind(t, m) => Extends(s, t, m)
<1> SUFFICES ASSUME NEW s, NEW t, Upwards(s, k), OfKind(t, m)
             PROVE  Extends(s, t, m)
  OBVIOUS
<1>2. /\ s \in Seq(Statement) /\ t \in Seq(Statement) /\ Paired(Before, s) /\ Paired(Before, t)
      /\ \A x \in ToSet(s) : Rank(x) \in Nat /\ Rank(x) <= k
      /\ \A y \in ToSet(t) : Rank(y) = m
  BY DEF Upwards, OfKind
<1>3. Across(Before, s, t)
  BY <1>2, KindsInOrder
<1>4. /\ s \o t \in Seq(Statement) /\ Paired(Before, s \o t)
      /\ ToSet(s \o t) = ToSet(s) \cup ToSet(t)
      /\ \A x \in ToSet(s \o t) : Rank(x) \in Nat /\ Rank(x) <= m
  BY <1>2, KindsJoined
<1> QED
  BY <1>3, <1>4 DEF Upwards, Extends

LEMMA KindsUp ==
  /\ \A s : OfKind(s, 1) => Upwards(s, 1)
  /\ \A s, t : Upwards(s, 1) /\ OfKind(t, 2) => Extends(s, t, 2)
  /\ \A s, t : Upwards(s, 2) /\ OfKind(t, 3) => Extends(s, t, 3)
  /\ \A s, t : Upwards(s, 3) /\ OfKind(t, 4) => Extends(s, t, 4)
  /\ \A s, t : Upwards(s, 4) /\ OfKind(t, 5) => Extends(s, t, 5)
<1>1. \A s : OfKind(s, 1) => Upwards(s, 1)
  BY DEF OfKind, Upwards
<1>2. \A s, t : Upwards(s, 1) /\ OfKind(t, 2) => Extends(s, t, 2)
  <2>1. 1 \in Nat /\ 2 \in Nat /\ 1 < 2
    OBVIOUS
  <2> QED
    BY ONLY <2>1, KindsAt
<1>3. \A s, t : Upwards(s, 2) /\ OfKind(t, 3) => Extends(s, t, 3)
  <2>1. 2 \in Nat /\ 3 \in Nat /\ 2 < 3
    OBVIOUS
  <2> QED
    BY ONLY <2>1, KindsAt
<1>4. \A s, t : Upwards(s, 3) /\ OfKind(t, 4) => Extends(s, t, 4)
  <2>1. 3 \in Nat /\ 4 \in Nat /\ 3 < 4
    OBVIOUS
  <2> QED
    BY ONLY <2>1, KindsAt
<1>5. \A s, t : Upwards(s, 4) /\ OfKind(t, 5) => Extends(s, t, 5)
  <2>1. 4 \in Nat /\ 5 \in Nat /\ 4 < 5
    OBVIOUS
  <2> QED
    BY ONLY <2>1, KindsAt
<1> QED
  BY <1>1, <1>2, <1>3, <1>4, <1>5

LEMMA AssembleIs ==
  ASSUME NEW current \in Seq(Table), NEW desired \in Seq(Table),
         NEW drops \in DropOrders(current, desired),
         WellFormed(desired), Readable(current)
  PROVE  /\ ToSet(Assemble(current, desired, drops)) = PlanOf(current, desired)
         /\ Paired(Before, Assemble(current, desired, drops))
<1>1. PICK fresh \in Seq(Table) : fresh = Unnamed(desired, Names(current))
  BY UnnamedType
<1>2. PICK altered \in Seq(Table) :
        altered = Those(desired, {dt \in ToSet(desired) : dt.name \in Names(current)})
  <2>1. PICK S : S = {dt \in ToSet(desired) : dt.name \in Names(current)}
    OBVIOUS
  <2>2. Those(desired, S) \in Seq(Table)
    BY ThoseType
  <2> QED
    BY <2>1, <2>2
<1>3. Distinct(fresh) /\ ToSet(fresh) = Fresh(current, desired)
  BY <1>1, UnnamedKept DEF WellFormed, Fresh
<1>4. Distinct(altered) /\ ToSet(altered) = Altered(current, desired)
  <2>1. PICK S : S = {dt \in ToSet(desired) : dt.name \in Names(current)}
    OBVIOUS
  <2>2. ToSet(Those(desired, S)) = ToSet(desired) \cap S /\ Distinct(Those(desired, S))
    BY DistinctKept DEF WellFormed
  <2> QED
    BY <1>2, <2>1, <2>2 DEF Altered
<1>c. \A t \in Table : t.columns \in Seq(Column) /\ t.indexes \in Seq(Index)
  BY DEF Table
<1>d. \A s \in Seq(Table) : \A i \in DOMAIN s : s[i] \in Table /\ s[i] \in ToSet(s)
  BY DEF ToSet
<1>5. \A i \in DOMAIN fresh : /\ fresh[i] \in Table /\ fresh[i] \in ToSet(desired)
                              /\ fresh[i].name \notin Names(current)
                              /\ Distinct(fresh[i].indexes) /\ Distinct(fresh[i].columns)
  <2>1. \A i \in DOMAIN fresh : fresh[i] \in Table /\ fresh[i] \in Fresh(current, desired)
    BY <1>3, <1>d
  <2>2. \A t \in Fresh(current, desired) : t \in ToSet(desired) /\ t.name \notin Names(current)
    BY DEF Fresh
  <2> QED
    BY <2>1, <2>2 DEF WellFormed, WellFormedTable
<1>6. \A i \in DOMAIN altered : /\ altered[i] \in Table /\ altered[i] \in ToSet(desired)
                                /\ altered[i].name \in Names(current)
                                /\ Distinct(altered[i].indexes) /\ Distinct(altered[i].columns)
  <2>1. \A i \in DOMAIN altered : altered[i] \in Table /\ altered[i] \in Altered(current, desired)
    BY <1>4, <1>d
  <2>2. \A t \in Altered(current, desired) : t \in ToSet(desired) /\ t.name \in Names(current)
    BY DEF Altered
  <2> QED
    BY <2>1, <2>2 DEF WellFormed, WellFormedTable
<1>7. \A i \in DOMAIN altered :
        /\ Old(current, altered[i]) \in Table
        /\ Old(current, altered[i]) \in ToSet(current)
        /\ Old(current, altered[i]).name = altered[i].name
        /\ Distinct(Old(current, altered[i]).indexes)
  BY <1>6, ByNameType, ByNameIs DEF Old, Readable
<1>8. /\ \A i, j \in DOMAIN altered : i # j => altered[i].name # altered[j].name
      /\ \A i, j \in DOMAIN fresh : i # j => fresh[i].name # fresh[j].name
  BY <1>3, <1>4 DEF Distinct
<1>9. /\ \A i, j \in DOMAIN altered : i # j =>
           /\ Names(altered[i].indexes) \cap Names(altered[j].indexes) = {}
           /\ Names(Old(current, altered[i]).indexes) \cap Names(Old(current, altered[j]).indexes) = {}
      /\ \A i, j \in DOMAIN fresh : i # j => Names(fresh[i].indexes) \cap Names(fresh[j].indexes) = {}
      /\ \A i \in DOMAIN fresh, j \in DOMAIN altered :
           /\ fresh[i].name # altered[j].name
           /\ Names(fresh[i].indexes) \cap Names(altered[j].indexes) = {}
  BY <1>5, <1>6, <1>7, <1>8 DEF WellFormed, Readable, IndexesApart
<1>10. PICK f1, s1 : /\ f1 = [i \in DOMAIN altered |-> DroppedIndexes(Old(current, altered[i]), altered[i])]
                         /\ s1 = FlattenSeq(f1)
  OBVIOUS
<1>11. PICK f4, s4 : /\ f4 = [i \in DOMAIN altered |-> AddedColumns(Old(current, altered[i]), altered[i])]
                         /\ s4 = FlattenSeq(f4)
  OBVIOUS
<1>12. PICK f5, s5 : /\ f5 = [i \in DOMAIN fresh |-> NewTableIndexes(fresh[i])]
                         /\ s5 = FlattenSeq(f5)
  OBVIOUS
<1>13. PICK f6, s6 : /\ f6 = [i \in DOMAIN altered |-> CreatedIndexes(Old(current, altered[i]), altered[i])]
                         /\ s6 = FlattenSeq(f6)
  OBVIOUS
<1>14. PICK s2 : s2 = [i \in DOMAIN drops |-> DropTable(drops[i])]
  OBVIOUS
<1>15. PICK s3 : s3 = [i \in DOMAIN fresh |-> CreateTable(fresh[i])]
  OBVIOUS
<1>16. Assemble(current, desired, drops) = s1 \o s2 \o s3 \o s4 \o s5 \o s6
  BY <1>1, <1>2, <1>10, <1>11, <1>12, <1>13, <1>14, <1>15 DEF Assemble, Old
<1>17. /\ s1 \in Seq(Statement)
       /\ ToSet(s1) = DropsOf(current, desired)
       /\ Paired(Before, s1)
       /\ \A x \in ToSet(s1) : Rank(x) = 1
  <2>1. \A i \in DOMAIN altered : f1[i] = DroppedIndexes(Old(current, altered[i]), altered[i])
    BY <1>10
  <2>2. \A i \in DOMAIN altered : f1[i] \in Seq(Statement) /\ Paired(Before, f1[i])
    BY <1>6, <1>7, <2>1, DroppedIndexesAre
  <2>3. \A i, j \in DOMAIN altered : i # j => Across(Before, f1[i], f1[j])
    <3> SUFFICES ASSUME NEW i \in DOMAIN altered, NEW j \in DOMAIN altered, i # j
                 PROVE  Across(Before, f1[i], f1[j])
      OBVIOUS
    <3>1. PICK ct, cu, dt, du : /\ ct = Old(current, altered[i]) /\ cu = Old(current, altered[j])
                                /\ dt = altered[i] /\ du = altered[j]
      OBVIOUS
    <3>2. /\ ct \in Table /\ cu \in Table /\ dt \in Table /\ du \in Table
          /\ Distinct(ct.indexes) /\ Distinct(cu.indexes) /\ Distinct(dt.indexes)
          /\ Distinct(du.indexes) /\ Distinct(dt.columns) /\ Distinct(du.columns)
      BY <1>6, <1>7, <3>1
    <3>3. /\ dt.name # du.name /\ Names(ct.indexes) \cap Names(cu.indexes) = {}
          /\ Names(dt.indexes) \cap Names(du.indexes) = {}
      BY <1>8, <1>9, <3>1
    <3>4. Across(Before, DroppedIndexes(ct, dt), DroppedIndexes(cu, du))
      BY <3>2, <3>3, TablesInOrder
    <3> QED
      BY <2>1, <3>1, <3>4
  <2>4. f1 = [i \in DOMAIN altered |-> f1[i]]
    BY <1>10
  <2>6. /\ FlattenSeq(f1) \in Seq(Statement)
        /\ ToSet(FlattenSeq(f1)) = UNION {ToSet(f1[i]) : i \in DOMAIN altered}
        /\ Paired(Before, FlattenSeq(f1))
    BY <2>2, <2>3, <2>4, PerTableKeeps
  <2>7. UNION {ToSet(f1[i]) : i \in DOMAIN altered} = DropsOf(current, desired)
    <3>1. \A dt : dt \in Altered(current, desired) <=> \E i \in DOMAIN altered : dt = altered[i]
      BY <1>4 DEF ToSet
    <3> QED
      BY <2>1, <3>1 DEF DropsOf
  <2>8. \A x \in ToSet(s1) : Rank(x) = 1
    <3>1. \A i \in DOMAIN altered : \A x \in ToSet(f1[i]) : Rank(x) = 1
      BY <1>6, <1>7, <2>1, RanksOf
    <3> QED
      BY <1>10, <2>6, <3>1
  <2> QED
    BY <1>10, <2>6, <2>7, <2>8
<1>18. /\ s4 \in Seq(Statement)
       /\ ToSet(s4) = AddsOf(current, desired)
       /\ Paired(Before, s4)
       /\ \A x \in ToSet(s4) : Rank(x) = 4
  <2>1. \A i \in DOMAIN altered : f4[i] = AddedColumns(Old(current, altered[i]), altered[i])
    BY <1>11
  <2>2. \A i \in DOMAIN altered : f4[i] \in Seq(Statement) /\ Paired(Before, f4[i])
    BY <1>6, <1>7, <2>1, AddedColumnsAre
  <2>3. \A i, j \in DOMAIN altered : i # j => Across(Before, f4[i], f4[j])
    <3> SUFFICES ASSUME NEW i \in DOMAIN altered, NEW j \in DOMAIN altered, i # j
                 PROVE  Across(Before, f4[i], f4[j])
      OBVIOUS
    <3> QED
      BY <1>6, <1>7, <1>8, <2>1, TablesInOrder
  <2>4. f4 = [i \in DOMAIN altered |-> f4[i]]
    BY <1>11
  <2>6. /\ FlattenSeq(f4) \in Seq(Statement)
        /\ ToSet(FlattenSeq(f4)) = UNION {ToSet(f4[i]) : i \in DOMAIN altered}
        /\ Paired(Before, FlattenSeq(f4))
    BY <2>2, <2>3, <2>4, PerTableKeeps
  <2>7. UNION {ToSet(f4[i]) : i \in DOMAIN altered} = AddsOf(current, desired)
    <3>1. \A dt : dt \in Altered(current, desired) <=> \E i \in DOMAIN altered : dt = altered[i]
      BY <1>4 DEF ToSet
    <3> QED
      BY <2>1, <3>1 DEF AddsOf
  <2>8. \A x \in ToSet(s4) : Rank(x) = 4
    <3>1. \A i \in DOMAIN altered : \A x \in ToSet(f4[i]) : Rank(x) = 4
      BY <1>6, <1>7, <2>1, RanksOf
    <3> QED
      BY <1>11, <2>6, <3>1
  <2> QED
    BY <1>11, <2>6, <2>7, <2>8
<1>19. /\ s6 \in Seq(Statement)
       /\ ToSet(s6) = RebuildsOf(current, desired)
       /\ Paired(Before, s6)
       /\ \A x \in ToSet(s6) : \E j \in DOMAIN altered : x \in ToSet(CreatedIndexes(Old(current, altered[j]), altered[j]))
  <2>1. \A i \in DOMAIN altered : f6[i] = CreatedIndexes(Old(current, altered[i]), altered[i])
    BY <1>13
  <2>2. \A i \in DOMAIN altered : f6[i] \in Seq(Statement) /\ Paired(Before, f6[i])
    BY <1>6, <1>7, <2>1, CreatedIndexesAre
  <2>3. \A i, j \in DOMAIN altered : i # j => Across(Before, f6[i], f6[j])
    <3> SUFFICES ASSUME NEW i \in DOMAIN altered, NEW j \in DOMAIN altered, i # j
                 PROVE  Across(Before, f6[i], f6[j])
      OBVIOUS
    <3>1. PICK ct, cu, dt, du : /\ ct = Old(current, altered[i]) /\ cu = Old(current, altered[j])
                                /\ dt = altered[i] /\ du = altered[j]
      OBVIOUS
    <3>2. /\ ct \in Table /\ cu \in Table /\ dt \in Table /\ du \in Table
          /\ Distinct(ct.indexes) /\ Distinct(cu.indexes) /\ Distinct(dt.indexes)
          /\ Distinct(du.indexes) /\ Distinct(dt.columns) /\ Distinct(du.columns)
      BY <1>6, <1>7, <3>1
    <3>3. /\ dt.name # du.name /\ Names(ct.indexes) \cap Names(cu.indexes) = {}
          /\ Names(dt.indexes) \cap Names(du.indexes) = {}
      BY <1>8, <1>9, <3>1
    <3>4. Across(Before, CreatedIndexes(ct, dt), CreatedIndexes(cu, du))
      BY <3>2, <3>3, TablesInOrder
    <3> QED
      BY <2>1, <3>1, <3>4
  <2>4. f6 = [i \in DOMAIN altered |-> f6[i]]
    BY <1>13
  <2>6. /\ FlattenSeq(f6) \in Seq(Statement)
        /\ ToSet(FlattenSeq(f6)) = UNION {ToSet(f6[i]) : i \in DOMAIN altered}
        /\ Paired(Before, FlattenSeq(f6))
    BY <2>2, <2>3, <2>4, PerTableKeeps
  <2>7. UNION {ToSet(f6[i]) : i \in DOMAIN altered} = RebuildsOf(current, desired)
    <3>1. \A dt : dt \in Altered(current, desired) <=> \E i \in DOMAIN altered : dt = altered[i]
      BY <1>4 DEF ToSet
    <3> QED
      BY <2>1, <3>1 DEF RebuildsOf
  <2> QED
    BY <1>13, <2>1, <2>6, <2>7
<1>20. /\ s5 \in Seq(Statement)
       /\ ToSet(s5) = BuildsOf(current, desired)
       /\ Paired(Before, s5)
       /\ \A x \in ToSet(s5) : \E j \in DOMAIN fresh : x \in ToSet(NewTableIndexes(fresh[j]))
  <2>1. \A i \in DOMAIN fresh : f5[i] = NewTableIndexes(fresh[i])
    BY <1>12
  <2>2. \A i \in DOMAIN fresh : f5[i] \in Seq(Statement) /\ Paired(Before, f5[i])
    BY <1>5, <2>1, NewTableIndexesAre
  <2>3. \A i, j \in DOMAIN fresh : i # j => Across(Before, f5[i], f5[j])
    <3> SUFFICES ASSUME NEW i \in DOMAIN fresh, NEW j \in DOMAIN fresh, i # j
                 PROVE  Across(Before, f5[i], f5[j])
      OBVIOUS
    <3>1. PICK dt, du : dt = fresh[i] /\ du = fresh[j]
      OBVIOUS
    <3>2. /\ dt \in Table /\ du \in Table
          /\ Distinct(dt.indexes) /\ Distinct(du.indexes)
          /\ Distinct(dt.columns) /\ Distinct(du.columns)
      BY <1>5, <3>1
    <3>3. /\ dt.name # du.name
          /\ Names(dt.indexes) \cap Names(du.indexes) = {}
      BY <1>8, <1>9, <3>1
    <3> QED
      BY <2>1, <3>1, <3>2, <3>3, TablesInOrder
  <2>4. f5 = [i \in DOMAIN fresh |-> f5[i]]
    BY <1>12
  <2>6. /\ FlattenSeq(f5) \in Seq(Statement)
        /\ ToSet(FlattenSeq(f5)) = UNION {ToSet(f5[i]) : i \in DOMAIN fresh}
        /\ Paired(Before, FlattenSeq(f5))
    BY <2>2, <2>3, <2>4, PerTableKeeps
  <2>7. UNION {ToSet(f5[i]) : i \in DOMAIN fresh} = BuildsOf(current, desired)
    <3>1. \A dt : dt \in Fresh(current, desired) <=> \E i \in DOMAIN fresh : dt = fresh[i]
      BY <1>3 DEF ToSet
    <3> QED
      BY <2>1, <3>1 DEF BuildsOf
  <2> QED
    BY <1>12, <2>1, <2>6, <2>7
<1>21. /\ s2 \in Seq(Statement)
       /\ ToSet(s2) = {DropTable(n) : n \in Names(current) \ Names(desired)}
       /\ Paired(Before, s2)
       /\ \A x \in ToSet(s2) : Rank(x) = 2
  <2>1. PICK S : S = Names(current) \ Names(desired)
    OBVIOUS
  <2>2. IsFiniteSet(S)
    BY <2>1, NamesFinite, FS_Difference
  <2>3. drops \in Seq(S) /\ ToSet(drops) = S /\ \A i, j \in DOMAIN drops : drops[i] = drops[j] => i = j
    BY <2>1, <2>2, OrderIsAll DEF DropOrders
  <2>4. S \subseteq STRING
    <3>1. \A t \in Table : t.name \in STRING
      BY DEF Table
    <3>2. \A i \in DOMAIN current : current[i] \in Table
      OBVIOUS
    <3> QED
      BY <2>1, <3>1, <3>2 DEF Names
  <2>5. Len(drops) \in Nat /\ DOMAIN drops = 1..Len(drops) /\ \A i \in DOMAIN drops : drops[i] \in S
    BY <2>3
  <2>6. \A n \in S : DropTable(n) \in Statement
    BY <2>1, <2>4, StatementsType DEF Allowed
  <2>7. s2 \in Seq(Statement)
    BY <1>14, <2>5, <2>6
  <2>8. DOMAIN s2 = DOMAIN drops /\ \A i \in DOMAIN s2 : s2[i] = DropTable(drops[i])
    BY <1>14
  <2>9. \A i \in DOMAIN s2 : Rank(s2[i]) = 2 /\ s2[i].name = drops[i]
    BY <2>8, StatementsAre
  <2>10. \A i, j \in DOMAIN s2 : SameTarget(s2[i], s2[j]) => i = j
    BY <2>3, <2>8, <2>9 DEF SameTarget
  <2>11. Paired(Before, s2)
    BY <2>7, <2>9, <2>10, KindInOrder
  <2>12. ToSet(s2) = {DropTable(n) : n \in ToSet(drops)}
    BY <2>8 DEF ToSet
  <2>13. \A x \in ToSet(s2) : Rank(x) = 2
    BY <2>9 DEF ToSet
  <2> QED
    BY <2>1, <2>3, <2>7, <2>11, <2>12, <2>13
<1>22. /\ s3 \in Seq(Statement)
       /\ ToSet(s3) = {CreateTable(dt) : dt \in Fresh(current, desired)}
       /\ Paired(Before, s3)
       /\ \A x \in ToSet(s3) : Rank(x) = 3
  <2>1. Len(fresh) \in Nat /\ DOMAIN fresh = 1..Len(fresh)
    OBVIOUS
  <2>2. \A i \in DOMAIN fresh : CreateTable(fresh[i]) \in Statement
    BY <1>5, CreateTableType
  <2>3. s3 \in Seq(Statement)
    BY <1>15, <2>1, <2>2
  <2>4. DOMAIN s3 = DOMAIN fresh /\ \A i \in DOMAIN s3 : s3[i] = CreateTable(fresh[i])
    BY <1>15
  <2>5. \A i \in DOMAIN s3 : Rank(s3[i]) = 3 /\ s3[i].name = fresh[i].name
    BY <2>4, StatementsAre
  <2>6. \A i, j \in DOMAIN s3 : SameTarget(s3[i], s3[j]) => i = j
    BY <1>8, <2>4, <2>5 DEF SameTarget
  <2>7. Paired(Before, s3)
    BY <2>3, <2>5, <2>6, KindInOrder
  <2>8. ToSet(s3) = {CreateTable(dt) : dt \in ToSet(fresh)}
    BY <2>4 DEF ToSet
  <2>9. \A x \in ToSet(s3) : Rank(x) = 3
    BY <2>5 DEF ToSet
  <2> QED
    BY <1>3, <2>3, <2>7, <2>8, <2>9
<1>23. Across(Before, s5, s6)
  <2> SUFFICES ASSUME NEW x \in ToSet(s5), NEW y \in ToSet(s6) PROVE <<x, y>> \in Before
    BY DEF Across
  <2>1. PICK i \in DOMAIN fresh : x \in ToSet(NewTableIndexes(fresh[i]))
    BY <1>20
  <2>2. PICK j \in DOMAIN altered : y \in ToSet(CreatedIndexes(Old(current, altered[j]), altered[j]))
    BY <1>19
  <2>4. Across(Before, NewTableIndexes(fresh[i]), CreatedIndexes(Old(current, altered[j]), altered[j]))
    BY <1>5, <1>6, <1>7, <1>9, TablesInOrder
  <2> QED
    BY <2>1, <2>2, <2>4 DEF Across
<1>24. /\ \A x \in ToSet(s5) : Rank(x) = 5
       /\ \A x \in ToSet(s6) : Rank(x) = 5
  <2>1. ASSUME NEW x \in ToSet(s5) PROVE Rank(x) = 5
    <3>1. PICK i \in DOMAIN fresh : x \in ToSet(NewTableIndexes(fresh[i]))
      BY <1>20
    <3> QED
      BY <1>5, <3>1, RanksOf
  <2>2. ASSUME NEW x \in ToSet(s6) PROVE Rank(x) = 5
    <3>1. PICK j \in DOMAIN altered : x \in ToSet(CreatedIndexes(Old(current, altered[j]), altered[j]))
      BY <1>19
    <3> QED
      BY <1>6, <1>7, <3>1, RanksOf
  <2> QED
    BY <2>1, <2>2
<1>25. PICK t2, t3, t4, t5 : /\ t2 = s1 \o s2 /\ t3 = t2 \o s3
                             /\ t4 = t3 \o s4 /\ t5 = t4 \o s5
  OBVIOUS
<1>26. /\ OfKind(s1, 1) /\ OfKind(s2, 2) /\ OfKind(s3, 3) /\ OfKind(s4, 4)
       /\ OfKind(s5, 5) /\ OfKind(s6, 5)
  BY <1>17, <1>18, <1>19, <1>20, <1>21, <1>22, <1>24 DEF OfKind
<1>27. Extends(s1, s2, 2)
  BY <1>26, KindsUp
<1>28. Extends(t2, s3, 3)
  BY <1>25, <1>26, <1>27, KindsUp DEF Extends
<1>30. Extends(t3, s4, 4)
  BY <1>25, <1>26, <1>28, KindsUp DEF Extends
<1>32. Extends(t4, s5, 5) /\ Extends(t4, s6, 5)
  BY <1>25, <1>26, <1>30, KindsUp DEF Extends
<1>33. Across(Before, t5, s6)
  BY <1>23, <1>25, <1>32 DEF Across, Extends
<1>34. PICK t6 : t6 = t5 \o s6
  OBVIOUS
<1>35. /\ Paired(Before, t6) /\ ToSet(t6) = ToSet(t5) \cup ToSet(s6)
  <2>1. t5 \in Seq(Statement) /\ s6 \in Seq(Statement) /\ Paired(Before, t5) /\ Paired(Before, s6)
    BY <1>19, <1>25, <1>32 DEF Upwards, Extends
  <2> QED
    BY <1>33, <1>34, <2>1, JoinedSet, JoinedPaired
<1>36. Assemble(current, desired, drops) = t6
  BY <1>16, <1>25, <1>34
<1>37. ToSet(t6) = PlanOf(current, desired)
  <2>1. ToSet(t6) = ToSet(s1) \cup ToSet(s2) \cup ToSet(s3) \cup ToSet(s4) \cup ToSet(s5) \cup ToSet(s6)
    BY <1>25, <1>27, <1>28, <1>30, <1>32, <1>35 DEF Extends
  <2> QED
    BY <1>17, <1>18, <1>19, <1>20, <1>21, <1>22, <2>1 DEF PlanOf
<1> QED
  BY <1>35, <1>36, <1>37

\* For two schemas in which nothing is defined twice, a plan has the
\* statements that diffTable finds for each table, those of the tables to drop
\* and to create, and no others; they come in the order of the categories of
\* diff.go, and no two of one kind are about the same index, table or column.
THEOREM DiffInOrder ==
  ASSUME NEW current \in Seq(Table), NEW desired \in Seq(Table),
         NEW stmts \in Diff(current, desired),
         WellFormed(desired), Readable(current)
  PROVE  /\ ToSet(stmts) = PlanOf(current, desired)
         /\ Paired(Before, stmts)
<1>1. PICK drops \in DropOrders(current, desired) : stmts = Assemble(current, desired, drops)
  BY DEF Diff
<1> QED
  BY <1>1, AssembleIs

=============================================================================
