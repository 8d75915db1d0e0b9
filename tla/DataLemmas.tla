------------------------------ MODULE DataLemmas ------------------------------
(***************************************************************************)
(* What the other proofs need of numbers, functions and sequences:         *)
(* induction over the naturals, in a form the provers can instantiate (a   *)
(* set instead of an operator, from the well-founded order of the library),*)
(* functions defined by recursion, the items of a stream and their sums.   *)
(***************************************************************************)
EXTENDS Integers, Sequences, SequenceTheorems, WellFoundedInduction, TLAPS

-----------------------------------------------------------------------------
(* Induction.                                                              *)

LEMMA LeastNatural ==
    ASSUME NEW T \in SUBSET Nat, T # {}
    PROVE  \E n \in T : \A m \in T : n <= m
  <1> DEFINE R == OpToRel(<, Nat)
  <1>1. IsWellFoundedOn(R, Nat)
    BY NatLessThanWellFounded, Zenon
  <1>2. \A m, n \in Nat : <<m, n>> \in R <=> m < n
    BY DEF OpToRel
  <1> HIDE DEF R
  <1>3. PICK n \in T : \A m \in T : ~(<<m, n>> \in R)
    BY <1>1, WFMin
  <1>4. ASSUME NEW m \in T PROVE n <= m
    <2>1. m \in Nat /\ n \in Nat
      OBVIOUS
    <2>2. ~(m < n)
      BY <1>2, <1>3, <2>1
    <2> QED BY <2>1, <2>2
  <1> QED BY <1>4

LEMMA Induction ==
    ASSUME NEW T, 0 \in T, \A n \in Nat : n \in T => n + 1 \in T
    PROVE  Nat \subseteq T
  <1> SUFFICES ASSUME Nat \ T # {} PROVE FALSE
    OBVIOUS
  <1>1. PICK n \in Nat \ T : \A m \in Nat \ T : n <= m
    BY LeastNatural
  <1>2. n - 1 \in Nat /\ n - 1 \in T
    BY <1>1
  <1> QED BY <1>1, <1>2

LEMMA Greatest ==
    ASSUME NEW n \in Nat, NEW p \in SUBSET (1..n), p # {}
    PROVE  \E x \in p : \A y \in p : x >= y
  <1> DEFINE bounds == {u \in Nat : \A y \in p : u >= y}
  <1>1. n \in bounds
    OBVIOUS
  <1>2. PICK u \in bounds : \A v \in bounds : u <= v
    <2>1. bounds \in SUBSET Nat /\ bounds # {}
      BY <1>1
    <2> HIDE DEF bounds
    <2> QED BY <2>1, LeastNatural
  <1>3. u \in p
    <2> SUFFICES ASSUME u \notin p PROVE FALSE
      OBVIOUS
    <2>1. PICK y \in p : TRUE
      OBVIOUS
    <2>2. u - 1 \in bounds
      BY <1>2, <2>1
    <2> QED BY <1>2, <2>2
  <1> QED BY <1>2, <1>3

\* The first n steps of a recursion.
Steps(n, S, base, step) ==
    {g \in [0..n -> S] : g[0] = base /\ \A i \in 0..(n - 1) : g[i + 1] = step[i][g[i]]}

LEMMA StepsExist ==
    ASSUME NEW S, NEW base \in S, NEW step \in [Nat -> [S -> S]], NEW n \in Nat
    PROVE  Steps(n, S, base, step) # {}
  <1> DEFINE T == {m \in Nat : Steps(m, S, base, step) # {}}
  <1>1. 0 \in T
    <2> DEFINE g == [i \in 0..0 |-> base]
    <2>1. g \in Steps(0, S, base, step)
      BY DEF Steps
    <2> QED BY <2>1
  <1>2. ASSUME NEW m \in Nat, m \in T PROVE m + 1 \in T
    <2>1. PICK g : g \in Steps(m, S, base, step)
      BY <1>2
    <2>2. /\ g \in [0..m -> S] /\ g[0] = base
          /\ \A i \in 0..(m - 1) : g[i + 1] = step[i][g[i]]
      BY <2>1 DEF Steps
    <2> DEFINE h == [i \in 0..(m + 1) |-> IF i = m + 1 THEN step[m][g[m]] ELSE g[i]]
    <2>3. step[m][g[m]] \in S
      BY <2>2
    <2>4. h \in [0..(m + 1) -> S]
      BY <2>2, <2>3
    <2>5. h[0] = base /\ \A i \in 0..m : h[i] = g[i]
      BY <2>2
    <2>6. h[m + 1] = step[m][g[m]]
      OBVIOUS
    <2> HIDE DEF h
    <2>7. ASSUME NEW i \in 0..m PROVE h[i + 1] = step[i][h[i]]
      <3>1. CASE i = m
        BY <2>5, <2>6, <3>1
      <3>2. CASE i # m
        <4>1. i \in 0..(m - 1) /\ i + 1 \in 0..m
          BY <3>2
        <4> QED BY <2>2, <2>5, <4>1
      <3> QED BY <3>1, <3>2
    <2>8. h \in Steps(m + 1, S, base, step)
      BY <2>4, <2>5, <2>7 DEF Steps
    <2> QED BY <2>8
  <1> HIDE DEF T
  <1>3. Nat \subseteq T
    BY <1>1, <1>2, Induction
  <1> QED BY <1>3 DEF T

LEMMA StepsAgree ==
    ASSUME NEW S, NEW base \in S, NEW step \in [Nat -> [S -> S]],
           NEW m \in Nat, NEW n \in Nat, m <= n,
           NEW g \in Steps(m, S, base, step), NEW h \in Steps(n, S, base, step)
    PROVE  g[m] = h[m]
  <1> DEFINE T == {i \in Nat : i <= m => g[i] = h[i]}
  <1>1. /\ g[0] = base /\ \A i \in 0..(m - 1) : g[i + 1] = step[i][g[i]]
        /\ h[0] = base /\ \A i \in 0..(n - 1) : h[i + 1] = step[i][h[i]]
    BY DEF Steps
  <1>2. 0 \in T
    BY <1>1
  <1>3. ASSUME NEW i \in Nat, i \in T PROVE i + 1 \in T
    <2>1. CASE i + 1 <= m
      <3>1. i \in 0..(m - 1) /\ i \in 0..(n - 1) /\ g[i] = h[i]
        BY <1>3, <2>1
      <3> QED BY <1>1, <3>1
    <2>2. CASE ~(i + 1 <= m)
      BY <2>2
    <2> QED BY <2>1, <2>2
  <1> HIDE DEF T
  <1>4. m \in T
    BY <1>2, <1>3, Induction
  <1> QED BY <1>4 DEF T

Recursion(f, base, step) == f[0] = base /\ \A n \in Nat : f[n + 1] = step[n][f[n]]

LEMMA RecursionExists ==
    ASSUME NEW S, NEW base \in S, NEW step \in [Nat -> [S -> S]]
    PROVE  \E f \in [Nat -> S] : Recursion(f, base, step)
  <1> DEFINE g(n) == CHOOSE h : h \in Steps(n, S, base, step)
             f == [n \in Nat |-> g(n)[n]]
  <1>1. \A n \in Nat : g(n) \in Steps(n, S, base, step)
    BY StepsExist
  <1> HIDE DEF g
  <1>2. \A n \in Nat : g(n)[n] \in S
    BY <1>1 DEF Steps
  <1>3. f \in [Nat -> S]
    BY <1>2
  <1>4. f[0] = base
    BY <1>1 DEF Steps
  <1>5. ASSUME NEW n \in Nat PROVE f[n + 1] = step[n][f[n]]
    <2>1. g(n + 1) \in Steps(n + 1, S, base, step) /\ g(n) \in Steps(n, S, base, step)
      BY <1>1
    <2>2. g(n)[n] = g(n + 1)[n]
      BY <2>1, StepsAgree
    <2>3. g(n + 1)[n + 1] = step[n][g(n + 1)[n]]
      BY <2>1 DEF Steps
    <2> QED BY <2>2, <2>3
  <1> QED BY <1>3, <1>4, <1>5 DEF Recursion

-----------------------------------------------------------------------------
(* The items of a stream.                                                  *)

Items(s) == {s[i] : i \in 1..Len(s)}

\* No item of wrong is the last word on its subject: one of right follows.
Superseded(wrong, right, s) ==
    \A i \in 1..Len(s) : s[i] \in wrong => \E j \in (i + 1)..Len(s) : s[j] \in right

LEMMA ItemsEmpty == Items(<<>>) = {}
  BY DEF Items

LEMMA ItemsOne == ASSUME NEW x PROVE Items(<<x>>) = {x}
  BY DEF Items

LEMMA ItemsConcat ==
    ASSUME NEW S, NEW s \in Seq(S), NEW t \in Seq(S)
    PROVE  Items(s \o t) = Items(s) \cup Items(t)
  <1>1. Items(s \o t) \subseteq Items(s) \cup Items(t)
    <2> SUFFICES ASSUME NEW i \in 1..Len(s \o t)
                 PROVE  (s \o t)[i] \in Items(s) \cup Items(t)
      BY DEF Items
    <2>1. CASE i <= Len(s)
      BY <2>1 DEF Items
    <2>2. CASE i > Len(s)
      <3>1. i - Len(s) \in 1..Len(t) /\ (s \o t)[i] = t[i - Len(s)]
        BY <2>2
      <3> QED BY <3>1 DEF Items
    <2> QED BY <2>1, <2>2
  <1>2. Items(s) \subseteq Items(s \o t)
    <2> SUFFICES ASSUME NEW i \in 1..Len(s) PROVE s[i] \in Items(s \o t)
      BY DEF Items
    <2>1. i \in 1..Len(s \o t) /\ (s \o t)[i] = s[i]
      OBVIOUS
    <2> QED BY <2>1 DEF Items
  <1>3. Items(t) \subseteq Items(s \o t)
    <2> SUFFICES ASSUME NEW i \in 1..Len(t) PROVE t[i] \in Items(s \o t)
      BY DEF Items
    <2>1. i + Len(s) \in 1..Len(s \o t) /\ (s \o t)[i + Len(s)] = t[i]
      OBVIOUS
    <2> QED BY <2>1 DEF Items
  <1> QED BY <1>1, <1>2, <1>3

LEMMA ItemsAppend ==
    ASSUME NEW S, NEW s \in Seq(S), NEW x \in S
    PROVE  Items(Append(s, x)) = Items(s) \cup {x}
  <1>1. Append(s, x) = s \o <<x>> /\ <<x>> \in Seq(S)
    OBVIOUS
  <1>2. Items(s \o <<x>>) = Items(s) \cup Items(<<x>>)
    BY <1>1, ItemsConcat
  <1> QED BY <1>1, <1>2, ItemsOne, Zenon

LEMMA ItemsHeadTail ==
    ASSUME NEW S, NEW s \in Seq(S), s # <<>>
    PROVE  /\ Items(s) = {Head(s)} \cup Items(Tail(s))
           /\ Head(s) \in S /\ Tail(s) \in Seq(S)
           /\ Head(s) = s[1] /\ Len(Tail(s)) = Len(s) - 1 /\ Len(s) >= 1
           /\ \A i \in 1..Len(Tail(s)) : Tail(s)[i] = s[i + 1]
  <1>1. /\ Head(s) \in S /\ Tail(s) \in Seq(S) /\ Len(s) \in Nat
        /\ Head(s) = s[1] /\ Len(Tail(s)) = Len(s) - 1 /\ Len(s) >= 1
        /\ \A i \in 1..Len(Tail(s)) : Tail(s)[i] = s[i + 1]
    OBVIOUS
  <1>2. Items(s) \subseteq {Head(s)} \cup Items(Tail(s))
    <2> SUFFICES ASSUME NEW i \in 1..Len(s), i # 1 PROVE s[i] \in Items(Tail(s))
      BY <1>1 DEF Items
    <2>1. i - 1 \in 1..Len(Tail(s)) /\ s[i] = Tail(s)[i - 1]
      BY <1>1
    <2> QED BY <2>1 DEF Items
  <1>3. {Head(s)} \cup Items(Tail(s)) \subseteq Items(s)
    <2>1. ASSUME NEW i \in 1..Len(Tail(s)) PROVE Tail(s)[i] \in Items(s)
      <3>1. i + 1 \in 1..Len(s)
        BY <1>1
      <3> QED BY <1>1, <3>1 DEF Items
    <2>2. Head(s) \in Items(s)
      BY <1>1 DEF Items
    <2> QED BY <2>1, <2>2 DEF Items
  <1> QED BY <1>1, <1>2, <1>3

LEMMA TailAppend ==
    ASSUME NEW S, NEW s \in Seq(S), s # <<>>, NEW x \in S
    PROVE  /\ Append(s, x) # <<>> /\ Head(Append(s, x)) = Head(s)
           /\ Tail(Append(s, x)) = Append(Tail(s), x)
  <1> DEFINE t == Append(s, x)
             a == Tail(t)
             b == Append(Tail(s), x)
  <1>1. /\ t \in Seq(S) /\ t # <<>> /\ Len(t) = Len(s) + 1
        /\ Len(s) \in Nat /\ Len(s) >= 1
        /\ t[Len(s) + 1] = x /\ \A i \in 1..Len(s) : t[i] = s[i]
    OBVIOUS
  <1>2. /\ Tail(s) \in Seq(S) /\ Len(Tail(s)) = Len(s) - 1
        /\ \A i \in 1..Len(Tail(s)) : Tail(s)[i] = s[i + 1]
    BY ItemsHeadTail
  <1>3. b \in Seq(S) /\ Len(b) = Len(s) /\ b[Len(s)] = x
        /\ \A i \in 1..(Len(s) - 1) : b[i] = s[i + 1]
    BY <1>1, <1>2
  <1> HIDE DEF t, b
  <1>4. Head(t) = t[1] /\ Head(s) = s[1]
    BY <1>1
  <1>5. /\ a \in Seq(S) /\ Len(a) = Len(s)
        /\ \A i \in 1..Len(a) : a[i] = t[i + 1]
    BY <1>1
  <1> HIDE DEF a
  <1>6. \A i \in 1..Len(a) : a[i] = b[i]
    <2> SUFFICES ASSUME NEW i \in 1..Len(s) PROVE a[i] = b[i]
      BY <1>5
    <2>1. CASE i = Len(s)
      BY <1>1, <1>3, <1>5, <2>1
    <2>2. CASE i # Len(s)
      <3>1. i \in 1..(Len(s) - 1) /\ i + 1 \in 1..Len(s)
        BY <1>1, <2>2
      <3> QED BY <1>1, <1>3, <1>5, <3>1
    <2> QED BY <2>1, <2>2
  <1>7. a = b
    BY <1>3, <1>5, <1>6, SeqEqual
  <1> QED BY <1>1, <1>4, <1>7 DEF t, a, b

LEMMA SupersededTail ==
    ASSUME NEW S, NEW s \in Seq(S), s # <<>>, NEW wrong, NEW right,
           Superseded(wrong, right, s)
    PROVE  Superseded(wrong, right, Tail(s))
  <1>1. /\ Len(Tail(s)) = Len(s) - 1 /\ Len(s) \in Nat
        /\ \A i \in 1..Len(Tail(s)) : Tail(s)[i] = s[i + 1]
    BY ItemsHeadTail
  <1> SUFFICES ASSUME NEW i \in 1..Len(Tail(s)), Tail(s)[i] \in wrong
               PROVE  \E j \in (i + 1)..Len(Tail(s)) : Tail(s)[j] \in right
    BY DEF Superseded
  <1>2. i + 1 \in 1..Len(s) /\ s[i + 1] \in wrong
    BY <1>1
  <1>3. PICK j \in (i + 2)..Len(s) : s[j] \in right
    BY <1>2 DEF Superseded
  <1>4. j - 1 \in (i + 1)..Len(Tail(s)) /\ Tail(s)[j - 1] = s[j]
    BY <1>1, <1>3
  <1> QED BY <1>3, <1>4

LEMMA SupersededItem ==
    ASSUME NEW S, NEW s \in Seq(S), NEW wrong, NEW right, Superseded(wrong, right, s),
           NEW item \in Items(s), item \in wrong
    PROVE  \E other \in Items(s) : other \in right
  <1>1. PICK i \in 1..Len(s) : s[i] = item
    BY DEF Items
  <1>2. PICK j \in (i + 1)..Len(s) : s[j] \in right
    BY <1>1 DEF Superseded
  <1>3. j \in 1..Len(s)
    BY <1>1, <1>2
  <1> QED BY <1>2, <1>3 DEF Items

LEMMA SupersededHead ==
    ASSUME NEW S, NEW s \in Seq(S), s # <<>>, NEW wrong, NEW right,
           Superseded(wrong, right, s), Head(s) \in wrong
    PROVE  \E item \in Items(Tail(s)) : item \in right
  <1>1. /\ Head(s) = s[1] /\ Len(Tail(s)) = Len(s) - 1 /\ Len(s) \in Nat /\ Len(s) >= 1
        /\ \A i \in 1..Len(Tail(s)) : Tail(s)[i] = s[i + 1]
    BY ItemsHeadTail
  <1>2. PICK j \in 2..Len(s) : s[j] \in right
    BY <1>1 DEF Superseded
  <1>3. j - 1 \in 1..Len(Tail(s)) /\ Tail(s)[j - 1] = s[j]
    BY <1>1, <1>2
  <1> QED BY <1>2, <1>3 DEF Items

LEMMA SupersededReplaced ==
    ASSUME NEW S, NEW s \in Seq(S), s # <<>>, NEW wrong, NEW right,
           Superseded(wrong, right, s), NEW x \in S, x \in wrong => Head(s) \in wrong
    PROVE  Superseded(wrong, right, <<x>> \o Tail(s))
  <1> DEFINE t == <<x>> \o Tail(s)
  <1>1. /\ Head(s) = s[1] /\ Len(Tail(s)) = Len(s) - 1 /\ Len(s) \in Nat /\ Len(s) >= 1
        /\ \A i \in 1..Len(Tail(s)) : Tail(s)[i] = s[i + 1]
        /\ Tail(s) \in Seq(S)
    BY ItemsHeadTail
  <1>2. /\ Len(t) = Len(s) /\ t[1] = x
        /\ \A i \in 2..Len(s) : t[i] = s[i]
    BY <1>1
  <1> HIDE DEF t
  <1>3. ASSUME NEW i \in 1..Len(t), t[i] \in wrong
        PROVE  \E j \in (i + 1)..Len(t) : t[j] \in right
    <2>1. s[i] \in wrong
      BY <1>1, <1>2, <1>3
    <2>2. PICK j \in (i + 1)..Len(s) : s[j] \in right
      BY <1>2, <2>1 DEF Superseded
    <2>3. j \in (i + 1)..Len(t) /\ t[j] = s[j]
      BY <1>1, <1>2, <1>3, <2>2
    <2> QED BY <2>2, <2>3
  <1>4. Superseded(wrong, right, t)
    BY <1>3 DEF Superseded
  <1> QED BY <1>4 DEF t

LEMMA SupersededAppend ==
    ASSUME NEW S, NEW s \in Seq(S), NEW wrong, NEW right, NEW x \in S, x \notin wrong,
           Superseded(wrong, right, s) \/ x \in right
    PROVE  Superseded(wrong, right, Append(s, x))
  <1> DEFINE t == Append(s, x)
  <1>1. /\ Len(t) = Len(s) + 1 /\ Len(s) \in Nat /\ t[Len(t)] = x
        /\ \A i \in 1..Len(s) : t[i] = s[i]
    OBVIOUS
  <1> HIDE DEF t
  <1>2. ASSUME NEW i \in 1..Len(t), t[i] \in wrong
        PROVE  \E j \in (i + 1)..Len(t) : t[j] \in right
    <2>1. i \in 1..Len(s) /\ s[i] \in wrong
      BY <1>1, <1>2
    <2>2. CASE x \in right
      BY <1>1, <2>1, <2>2
    <2>3. CASE Superseded(wrong, right, s)
      <3>1. PICK j \in (i + 1)..Len(s) : s[j] \in right
        BY <2>1, <2>3 DEF Superseded
      <3>2. j \in (i + 1)..Len(t) /\ t[j] = s[j]
        BY <1>1, <2>1, <3>1
      <3> QED BY <3>1, <3>2
    <2> QED BY <2>2, <2>3
  <1>3. Superseded(wrong, right, t)
    BY <1>2 DEF Superseded
  <1> QED BY <1>3 DEF t

-----------------------------------------------------------------------------
(* Sums.                                                                   *)

\* sum[i] is the work of the first i items of s.
IsSum(sum, work, s) ==
    sum = [i \in 0..Len(s) |-> IF i = 0 THEN 0 ELSE sum[i - 1] + work[s[i]]]

SumsUp(sum, work, s) ==
    /\ sum[0] = 0 /\ \A i \in 0..Len(s) : sum[i] \in Nat
    /\ \A i \in 1..Len(s) : sum[i] = sum[i - 1] + work[s[i]]

LEMMA SumExists ==
    ASSUME NEW S, NEW work, \A x \in S : work[x] \in Nat, NEW s \in Seq(S)
    PROVE  \E sum : IsSum(sum, work, s)
  <1> DEFINE n == Len(s)
             step == [i \in Nat |-> [x \in Nat |-> IF i < n THEN x + work[s[i + 1]] ELSE x]]
  <1>1. n \in Nat /\ \A i \in Nat : i < n => work[s[i + 1]] \in Nat
    OBVIOUS
  <1> HIDE DEF n
  <1>2. step \in [Nat -> [Nat -> Nat]]
    <2>1. \A i \in Nat, x \in Nat : (IF i < n THEN x + work[s[i + 1]] ELSE x) \in Nat
      BY <1>1
    <2> QED BY <2>1
  <1>3. \A i \in Nat, x \in Nat : i < n => step[i][x] = x + work[s[i + 1]]
    OBVIOUS
  <1> HIDE DEF step
  <1>4. PICK f \in [Nat -> Nat] : Recursion(f, 0, step)
    BY <1>2, RecursionExists
  <1> DEFINE sum == [i \in 0..n |-> f[i]]
  <1>5. ASSUME NEW i \in 0..n
        PROVE  sum[i] = IF i = 0 THEN 0 ELSE sum[i - 1] + work[s[i]]
    <2>1. CASE i = 0
      BY <1>1, <1>4, <2>1 DEF Recursion
    <2>2. CASE i # 0
      <3> DEFINE j == i - 1
      <3>1. j \in Nat /\ j < n /\ i = j + 1 /\ j \in 0..n
        BY <1>1, <2>2
      <3> HIDE DEF j
      <3>2. f[i] = f[j] + work[s[i]]
        BY <1>3, <1>4, <3>1 DEF Recursion
      <3>3. sum[i] = sum[j] + work[s[i]]
        BY <3>1, <3>2
      <3> HIDE DEF sum
      <3> QED BY <2>2, <3>3 DEF j
    <2> QED BY <2>1, <2>2
  <1>6. sum = [i \in 0..n |-> sum[i]]
    OBVIOUS
  <1> HIDE DEF sum
  <1>7. sum = [i \in 0..n |-> IF i = 0 THEN 0 ELSE sum[i - 1] + work[s[i]]]
    BY <1>5, <1>6
  <1> QED BY <1>7 DEF IsSum, n

LEMMA SumFacts ==
    ASSUME NEW S, NEW work, \A x \in S : work[x] \in Nat,
           NEW s \in Seq(S), NEW sum, IsSum(sum, work, s)
    PROVE  SumsUp(sum, work, s)
  <1> DEFINE n == Len(s)
             T == {i \in Nat : i <= n => sum[i] \in Nat}
  <1>1. n \in Nat /\ \A i \in 1..n : work[s[i]] \in Nat
    OBVIOUS
  <1>2. \A i \in 0..n : sum[i] = IF i = 0 THEN 0 ELSE sum[i - 1] + work[s[i]]
    BY DEF IsSum
  <1> HIDE DEF n
  <1>3. sum[0] = 0 /\ \A i \in 1..n : sum[i] = sum[i - 1] + work[s[i]]
    BY <1>1, <1>2
  <1>4. 0 \in T
    BY <1>3
  <1>5. ASSUME NEW i \in Nat, i \in T PROVE i + 1 \in T
    <2> SUFFICES ASSUME i + 1 <= n PROVE sum[i + 1] \in Nat
      OBVIOUS
    <2>1. i + 1 \in 1..n /\ sum[i] \in Nat /\ (i + 1) - 1 = i
      BY <1>1, <1>5
    <2> QED BY <1>1, <1>3, <2>1
  <1> HIDE DEF T
  <1>6. Nat \subseteq T
    BY <1>4, <1>5, Induction
  <1>7. \A i \in 0..n : sum[i] \in Nat
    BY <1>1, <1>6 DEF T
  <1> QED BY <1>3, <1>7 DEF n, SumsUp

LEMMA SumConcat ==
    ASSUME NEW S, NEW work, \A x \in S : work[x] \in Nat,
           NEW s \in Seq(S), NEW t \in Seq(S), NEW f, NEW g, NEW h,
           IsSum(f, work, s), IsSum(g, work, t), IsSum(h, work, s \o t)
    PROVE  h[Len(s \o t)] = f[Len(s)] + g[Len(t)]
  <1>0. s \o t \in Seq(S)
    OBVIOUS
  <1>10. SumsUp(f, work, s) /\ SumsUp(g, work, t) /\ SumsUp(h, work, s \o t)
    BY <1>0, SumFacts
  <1> DEFINE m == Len(s)
             n == Len(t)
             T == {i \in Nat : i <= m => h[i] = f[i]}
             U == {i \in Nat : i <= n => h[m + i] = f[m] + g[i]}
  <1>1. /\ m \in Nat /\ n \in Nat /\ Len(s \o t) = m + n
        /\ \A i \in 1..m : (s \o t)[i] = s[i]
        /\ \A i \in 1..n : (s \o t)[m + i] = t[i]
    OBVIOUS
  <1>2. /\ f[0] = 0 /\ \A i \in 0..m : f[i] \in Nat
        /\ \A i \in 1..m : f[i] = f[i - 1] + work[s[i]]
    BY <1>10 DEF SumsUp
  <1>3. /\ g[0] = 0 /\ \A i \in 0..n : g[i] \in Nat
        /\ \A i \in 1..n : g[i] = g[i - 1] + work[t[i]]
    BY <1>10 DEF SumsUp
  <1>4. /\ h[0] = 0 /\ \A i \in 0..(m + n) : h[i] \in Nat
        /\ \A i \in 1..(m + n) : h[i] = h[i - 1] + work[(s \o t)[i]]
    BY <1>10, <1>1 DEF SumsUp
  <1>5. \A i \in 1..n : work[t[i]] \in Nat
    OBVIOUS
  <1> HIDE DEF m, n
  <1>6. m \in T
    <2>1. 0 \in T
      BY <1>2, <1>4
    <2>2. ASSUME NEW i \in Nat, i \in T PROVE i + 1 \in T
      <3> SUFFICES ASSUME i + 1 <= m PROVE h[i + 1] = f[i + 1]
        OBVIOUS
      <3>1. /\ i + 1 \in 1..m /\ i + 1 \in 1..(m + n) /\ (i + 1) - 1 = i
            /\ h[i] = f[i]
        BY <1>1, <2>2
      <3>2. (s \o t)[i + 1] = s[i + 1]
        BY <1>1, <3>1
      <3> QED BY <1>2, <1>4, <3>1, <3>2
    <2> HIDE DEF T
    <2> QED BY <1>1, <2>1, <2>2, Induction
  <1>7. h[m] = f[m]
    BY <1>1, <1>6
  <1>8. n \in U
    <2>1. 0 \in U
      BY <1>1, <1>2, <1>3, <1>7
    <2>2. ASSUME NEW i \in Nat, i \in U PROVE i + 1 \in U
      <3> SUFFICES ASSUME i + 1 <= n PROVE h[m + (i + 1)] = f[m] + g[i + 1]
        OBVIOUS
      <3> DEFINE k == m + (i + 1)
      <3>1. /\ i + 1 \in 1..n /\ k \in 1..(m + n) /\ k - 1 = m + i
            /\ (i + 1) - 1 = i /\ m \in 0..m /\ i \in 0..n
        BY <1>1
      <3>2. h[m + i] = f[m] + g[i] /\ (s \o t)[k] = t[i + 1]
        BY <1>1, <2>2, <3>1
      <3> HIDE DEF k
      <3>3. h[k] = h[m + i] + work[t[i + 1]]
        BY <1>4, <3>1, <3>2
      <3>4. g[i + 1] = g[i] + work[t[i + 1]]
        BY <1>3, <3>1
      <3>5. f[m] \in Nat /\ g[i] \in Nat /\ work[t[i + 1]] \in Nat
        BY <1>2, <1>3, <1>5, <3>1
      <3> QED BY <3>2, <3>3, <3>4, <3>5 DEF k
    <2> HIDE DEF U
    <2> QED BY <1>1, <2>1, <2>2, Induction
  <1> QED BY <1>1, <1>8 DEF m, n

=============================================================================
