---------------------------- MODULE ToolTextProofs ----------------------------
(***************************************************************************)
(* Theorems about ToolText, for any set of texts and texts of any length.  *)
(* A text is followed as the set of its marks: every mark has its place,   *)
(* so that a removal is a smaller set of marks in the same order (PickIs), *)
(* what a regular expression takes out is what its spans cover (SpansIs),  *)
(* and "an opening tag before a closing one" speaks of places only.        *)
(***************************************************************************)
EXTENDS ToolText, WellFoundedInduction, TLAPS

-----------------------------------------------------------------------------
(* Induction and recursion over 0..N, for sets and functions *)

LEMMA Smallest ==
  ASSUME NEW T, T \subseteq Nat, T # {}
  PROVE  \E m \in T : \A n \in T : m <= n
<1> DEFINE R == OpToRel(<, Nat)
<1>1. \E x \in T : \A y \in T : ~ (<<y, x>> \in R)
  BY NatLessThanWellFounded, WFMin
<1>2. \A x, y \in Nat : <<y, x>> \in R <=> y < x
  BY DEF OpToRel
<1> HIDE DEF R
<1>3. PICK x \in T : \A y \in T : ~ (<<y, x>> \in R)
  BY <1>1
<1>4. ASSUME NEW y \in T PROVE x <= y
  <2>1. x \in Nat /\ y \in Nat OBVIOUS
  <2>2. ~(<<y, x>> \in R) BY <1>3
  <2>3. ~(y < x) BY <1>2, <2>1, <2>2
  <2>4. QED BY <2>1, <2>3
<1>5. QED BY <1>3, <1>4

LEMMA Induction ==
  ASSUME NEW S, 0 \in S, \A n \in Nat : n \in S => n + 1 \in S
  PROVE  Nat \subseteq S
<1> SUFFICES ASSUME Nat \ S # {} PROVE FALSE
  OBVIOUS
<1>1. PICK m \in Nat \ S : \A n \in Nat \ S : m <= n
  BY Smallest
<1>2. m - 1 \in Nat /\ m - 1 \in S
  BY <1>1
<1>3. QED BY <1>1, <1>2

LEMMA Recursion ==
  ASSUME NEW A, NEW b \in A, NEW N \in Nat, NEW step \in [1..N -> [A -> A]]
  PROVE  \E g \in [0..N -> A] : g[0] = b /\ \A n \in 1..N : g[n] = step[n][g[n - 1]]
<1> DEFINE Goes(m, g) == g[0] = b /\ \A n \in 1..m : g[n] = step[n][g[n - 1]]
           Exists(m) == \E g \in [0..m -> A] : Goes(m, g)
           S == {m \in Nat : m <= N => Exists(m)}
<1>1. Exists(0)
  <2>1. [n \in 0..0 |-> b] \in [0..0 -> A] /\ Goes(0, [n \in 0..0 |-> b])
    OBVIOUS
  <2>2. QED BY <2>1
<1>2. ASSUME NEW m \in Nat, m + 1 <= N, Exists(m) PROVE Exists(m + 1)
  <2>1. PICK g \in [0..m -> A] : Goes(m, g)
    BY <1>2
  <2> DEFINE h == [n \in 0..(m+1) |-> IF n = m + 1 THEN step[m + 1][g[m]] ELSE g[n]]
  <2>2. step[m + 1][g[m]] \in A
    <3>1. g[m] \in A /\ m + 1 \in 1..N
      BY <1>2
    <3>2. QED BY <3>1
  <2>3. h \in [0..(m+1) -> A]
    <3> DEFINE x == step[m + 1][g[m]]
    <3> HIDE DEF x
    <3>1. x \in A BY <2>2 DEF x
    <3>2. [n \in 0..(m+1) |-> IF n = m + 1 THEN x ELSE g[n]] \in [0..(m+1) -> A]
      <4>1. ASSUME NEW n \in 0..(m+1), n # m + 1 PROVE n \in 0..m
        BY <4>1
      <4>2. QED BY <3>1, <4>1
    <3>3. QED BY <3>2 DEF x
  <2>4. Goes(m + 1, h)
    <3>1. h[0] = b
      BY <2>1
    <3>2. ASSUME NEW n \in 1..(m+1) PROVE h[n] = step[n][h[n - 1]]
      <4>1. n \in 0..(m+1) /\ n - 1 \in 0..(m+1) /\ n - 1 # m + 1 /\ n - 1 \in Nat
        BY <3>2
      <4>2. h[n - 1] = g[n - 1]
        BY <4>1
      <4>3. CASE n = m + 1
        <5>1. n - 1 = m
          BY <4>3
        <5>2. QED BY <4>1, <4>2, <4>3, <5>1
      <4>4. CASE n # m + 1
        <5>1. n \in 1..m
          BY <4>4
        <5>2. QED BY <2>1, <4>1, <4>2, <4>4, <5>1
      <4>5. QED BY <4>3, <4>4
    <3>3. QED BY <3>1, <3>2
  <2> HIDE DEF h
  <2>5. QED BY <2>3, <2>4
<1> HIDE DEF Exists
<1>3. 0 \in S /\ \A n \in Nat : n \in S => n + 1 \in S
  BY <1>1, <1>2
<1>4. N \in S
  <2> HIDE DEF S
  <2>1. QED BY <1>3, Induction
<1>5. Exists(N)
  BY <1>4
<1>6. QED BY <1>5 DEF Exists

-----------------------------------------------------------------------------
(* Matches *)

\* An expression's function on a text of n marks: 0, or an end not before its start.
Ends(end, n) ==
  /\ end \in [1..n -> 0..n]
  /\ \A i \in 1..n : end[i] # 0 => i <= end[i]

LEMMA SpansUnfold ==
  ASSUME NEW n \in Nat, NEW end \in [1..n -> 0..n]
  PROVE  \E upto \in [0..n -> 0..n] :
           /\ upto[0] = 0
           /\ \A i \in 1..n : upto[i] = IF end[i] # 0 /\ i > upto[i - 1] THEN end[i]
                                        ELSE upto[i - 1]
           /\ Spans(end) = {<<i, end[i]>> : i \in {j \in 1..n : end[j] # 0 /\ j > upto[j - 1]}}
<1> DEFINE A == 0..n
           To(u, i) == IF end[i] # 0 /\ i > u THEN end[i] ELSE u
           Body(f) == [i \in 0..n |-> IF i = 0 THEN 0
                                      ELSE LET u == f[i - 1]
                                           IN IF end[i] # 0 /\ i > u THEN end[i] ELSE u]
           last == CHOOSE f : f = Body(f)
           step == [i \in 1..n |-> [u \in A |-> To(u, i)]]
<1>1. Len(end) = n
  OBVIOUS
<1>2. Spans(end) = {<<i, end[i]>> : i \in {j \in 1..n : end[j] # 0 /\ j > last[j - 1]}}
  BY <1>1 DEF Spans
<1>3. PICK f \in [0..n -> A] : f[0] = 0 /\ \A i \in 1..n : f[i] = step[i][f[i - 1]]
  <2>1. step \in [1..n -> [A -> A]] /\ 0 \in A
    OBVIOUS
  <2> DEFINE b == 0
             N == n
  <2>2. b \in A /\ N \in Nat /\ step \in [1..N -> [A -> A]]
    BY <2>1
  <2> HIDE DEF step, A, b, N
  <2>3. \E g \in [0..N -> A] : g[0] = b /\ \A i \in 1..N : g[i] = step[i][g[i - 1]]
    BY ONLY <2>2, Recursion
  <2>4. QED BY ONLY <2>3 DEF b, N
<1>4. \A i \in 1..n : f[i] = To(f[i - 1], i)
  <2>1. \A i \in 1..n : i - 1 \in 0..n
    OBVIOUS
  <2>2. \A i \in 1..n : f[i - 1] \in A
    BY <2>1
  <2>3. QED BY <1>3, <2>2
<1>5. f = Body(f)
  <2>1. \A i \in 0..n : i # 0 => i \in 1..n
    OBVIOUS
  <2>2. \A i \in 0..n : f[i] = IF i = 0 THEN 0 ELSE To(f[i - 1], i)
    BY <1>3, <1>4, <2>1
  <2>3. f = [i \in 0..n |-> f[i]]
    OBVIOUS
  <2>4. QED BY <2>2, <2>3
<1>6. last = Body(last)
  <2> HIDE DEF Body
  <2>1. QED BY <1>5
<1> HIDE DEF last
<1>7. /\ last[0] = 0
      /\ \A i \in 1..n : last[i] = To(last[i - 1], i)
  <2>1. \A i \in 0..n : last[i] = Body(last)[i]
    BY <1>6
  <2>2. 0 \in 0..n /\ \A i \in 1..n : i \in 0..n /\ i # 0
    OBVIOUS
  <2>3. QED BY <2>1, <2>2
<1>8. last \in [0..n -> 0..n]
  <2>1. DOMAIN last = 0..n /\ last = [i \in 0..n |-> last[i]]
    BY <1>6
  <2> DEFINE S == {i \in Nat : i <= n => last[i] \in 0..n}
  <2>2. 0 \in S
    BY <1>7
  <2>3. ASSUME NEW i \in Nat, i \in S PROVE i + 1 \in S
    <3>1. CASE i + 1 <= n
      <4>1. i + 1 \in 1..n /\ last[i] \in 0..n /\ (i + 1) - 1 = i
        BY <2>3, <3>1
      <4>2. last[i + 1] = To(last[i], i + 1)
        BY <1>7, <4>1
      <4>3. last[i + 1] \in 0..n
        BY <4>1, <4>2
      <4>4. QED BY <4>3
    <3>2. QED BY <3>1
  <2> HIDE DEF S
  <2>4. Nat \subseteq S
    BY <2>2, <2>3, Induction
  <2>5. \A i \in 0..n : last[i] \in 0..n
    BY <2>4 DEF S
  <2>6. QED BY <2>1, <2>5
<1>9. QED BY <1>2, <1>7, <1>8

\* Where the expression matches, one of its spans covers the place; spans do not
\* overlap, and each is a match.
LEMMA SpansIs ==
  ASSUME NEW n \in Nat, NEW end, Ends(end, n)
  PROVE  /\ \A a \in Spans(end) : /\ a[1] \in 1..n /\ a[2] \in 1..n /\ a[1] <= a[2]
                                  /\ end[a[1]] = a[2] /\ end[a[1]] # 0 /\ a = <<a[1], a[2]>>
         /\ \A a, b \in Spans(end) : a # b => a[2] < b[1] \/ b[2] < a[1]
         /\ \A i \in 1..n : end[i] # 0 => i \in Covered(Spans(end))
         /\ Covered(Spans(end)) \subseteq 1..n
<1>1. PICK upto \in [0..n -> 0..n] :
           /\ upto[0] = 0
           /\ \A i \in 1..n : upto[i] = IF end[i] # 0 /\ i > upto[i - 1] THEN end[i]
                                        ELSE upto[i - 1]
           /\ Spans(end) = {<<i, end[i]>> : i \in {j \in 1..n : end[j] # 0 /\ j > upto[j - 1]}}
  BY SpansUnfold DEF Ends
<1> DEFINE Start(j) == end[j] # 0 /\ j > upto[j - 1]
<1>0. \A i \in 1..n : /\ Start(i) => upto[i] = end[i]
                      /\ ~Start(i) => upto[i] = upto[i - 1]
  BY <1>1
<1>2. \A j \in 1..n : j - 1 \in 0..n /\ j \in 0..n
  OBVIOUS
<1>3. \A a \in Spans(end) : \E j \in 1..n : Start(j) /\ a = <<j, end[j]>>
  BY <1>1
<1>4. \A j \in 1..n : Start(j) => <<j, end[j]>> \in Spans(end)
  BY <1>1
<1>5. \A a \in Spans(end) : /\ a[1] \in 1..n /\ a[2] \in 1..n /\ a[1] <= a[2]
                            /\ end[a[1]] = a[2] /\ end[a[1]] # 0 /\ a = <<a[1], a[2]>>
                            /\ a[1] > upto[a[1] - 1]
  <2>1. SUFFICES ASSUME NEW j \in 1..n, Start(j)
                 PROVE  LET a == <<j, end[j]>>
                        IN /\ a[1] \in 1..n /\ a[2] \in 1..n /\ a[1] <= a[2]
                           /\ end[a[1]] = a[2] /\ end[a[1]] # 0 /\ a = <<a[1], a[2]>>
                           /\ a[1] > upto[a[1] - 1]
    BY <1>3
  <2>2. end[j] \in 0..n /\ end[j] # 0 /\ j <= end[j]
    BY <2>1 DEF Ends
  <2>3. QED BY <2>1, <2>2
<1>6. \A j \in 1..n : upto[j - 1] <= upto[j] /\ (Start(j) => upto[j] = end[j])
  <2> TAKE j \in 1..n
  <2>1. end[j] \in 0..n /\ (end[j] # 0 => j <= end[j]) /\ upto[j - 1] \in 0..n
    BY <1>2 DEF Ends
  <2>2. CASE Start(j)
    BY <1>0, <2>1, <2>2
  <2>3. CASE ~Start(j)
    <3>1. upto[j] = upto[j - 1]
      BY <1>0, <2>3
    <3>2. QED BY <2>1, <2>3, <3>1
  <2>4. QED BY <2>2, <2>3
\* the last end is that of a span that has begun
<1> DEFINE Within(i) == upto[i] = 0 \/ \E a \in Spans(end) : a[1] <= i /\ a[2] = upto[i]
           Grows(i) == \A k \in 0..i : upto[k] <= upto[i]
           S == {i \in Nat : i <= n => Within(i) /\ Grows(i)}
<1>7. Within(0) /\ Grows(0)
  BY <1>1
<1>8. ASSUME NEW i \in Nat, i + 1 <= n, Within(i), Grows(i) PROVE Within(i + 1) /\ Grows(i + 1)
  <2>1. i + 1 \in 1..n /\ (i + 1) - 1 = i /\ i \in 0..n /\ upto[i] \in 0..n
        /\ upto[i + 1] \in 0..n
    BY <1>8
  <2>2. Within(i + 1)
    <3>1. CASE Start(i + 1)
      <4>1. <<i + 1, end[i + 1]>> \in Spans(end) /\ upto[i + 1] = end[i + 1]
        BY <1>4, <1>6, <2>1, <3>1
      <4>2. <<i + 1, end[i + 1]>>[1] <= i + 1 /\ <<i + 1, end[i + 1]>>[2] = upto[i + 1]
        BY <4>1
      <4>3. QED BY <4>1, <4>2
    <3>2. CASE ~Start(i + 1)
      <4>1. upto[i + 1] = upto[i]
        BY <1>0, <2>1, <3>2
      <4>2. \A a \in Spans(end) : a[1] <= i => a[1] <= i + 1
        BY <1>5
      <4>3. QED BY <1>8, <4>1, <4>2
    <3>3. QED BY <3>1, <3>2
  <2>3. Grows(i + 1)
    <3>1. upto[i] <= upto[i + 1]
      BY <1>6, <2>1
    <3>2. ASSUME NEW k \in 0..(i + 1) PROVE upto[k] <= upto[i + 1]
      <4>1. k \in 0..i \/ k = i + 1
        OBVIOUS
      <4>2. k \in 0..n /\ upto[k] \in 0..n
        BY <2>1
      <4>3. CASE k \in 0..i
        <5>1. upto[k] <= upto[i]
          BY <1>8, <4>3
        <5>2. QED BY <2>1, <3>1, <4>2, <5>1
      <4>4. CASE k = i + 1
        BY <2>1, <4>4
      <4>5. QED BY <4>1, <4>3, <4>4
    <3>3. QED BY <3>2
  <2>4. QED BY <2>2, <2>3
<1> HIDE DEF Within, Grows
<1>9. 0 \in S /\ \A i \in Nat : i \in S => i + 1 \in S
  BY <1>7, <1>8
<1>10. \A i \in 0..n : Within(i) /\ Grows(i)
  <2> HIDE DEF S
  <2>1. Nat \subseteq S
    BY <1>9, Induction
  <2>2. QED BY <2>1 DEF S
<1>11. \A i \in 1..n : end[i] # 0 => i \in Covered(Spans(end))
  <2> TAKE i \in 1..n
  <2> HAVE end[i] # 0
  <2>1. CASE Start(i)
    <3>1. <<i, end[i]>> \in Spans(end)
      BY <1>4, <2>1
    <3>2. i \in <<i, end[i]>>[1] .. <<i, end[i]>>[2]
      BY DEF Ends
    <3>3. QED BY <3>1, <3>2 DEF Covered
  <2>2. CASE ~Start(i)
    <3>1. i <= upto[i - 1] /\ i - 1 \in 0..n /\ upto[i - 1] \in 0..n
      BY <1>2, <2>2
    <3>2. PICK a \in Spans(end) : a[1] <= i - 1 /\ a[2] = upto[i - 1]
      <4>1. Within(i - 1)
        BY <1>10, <3>1
      <4>2. upto[i - 1] # 0
        BY <3>1
      <4>3. QED BY <4>1, <4>2 DEF Within
    <3>3. i \in a[1]..a[2]
      BY <1>5, <3>1, <3>2
    <3>4. QED BY <3>3 DEF Covered
  <2>3. QED BY <2>1, <2>2
<1>12. \A a, b \in Spans(end) : a[1] < b[1] => a[2] < b[1]
  <2> TAKE a \in Spans(end), b \in Spans(end)
  <2> HAVE a[1] < b[1]
  <2>1. /\ a[1] \in 1..n /\ b[1] \in 1..n /\ a[1] \in 0..(b[1] - 1) /\ b[1] - 1 \in 0..n
        /\ b[1] > upto[b[1] - 1] /\ end[a[1]] = a[2] /\ Start(a[1])
    BY <1>5
  <2>2. upto[a[1]] = a[2] /\ upto[a[1]] <= upto[b[1] - 1]
    BY <1>6, <1>10, <2>1 DEF Grows
  <2>3. QED BY <1>5, <2>1, <2>2
<1>13. \A a, b \in Spans(end) : a # b => a[2] < b[1] \/ b[2] < a[1]
  <2> TAKE a \in Spans(end), b \in Spans(end)
  <2> HAVE a # b
  <2>1. a[1] # b[1]
    BY <1>5
  <2>2. a[1] < b[1] \/ b[1] < a[1]
    BY <1>5, <2>1
  <2>3. QED BY <1>12, <2>2
<1>14. Covered(Spans(end)) \subseteq 1..n
  BY <1>5 DEF Covered
<1>15. QED BY <1>5, <1>11, <1>13, <1>14

-----------------------------------------------------------------------------
(* Picking *)

LEMMA AppendIs ==
  ASSUME NEW V, NEW s \in Seq(V), NEW x \in V
  PROVE  /\ Append(s, x) \in Seq(V) /\ Len(Append(s, x)) = Len(s) + 1 /\ Len(s) \in Nat
         /\ Append(s, x)[Len(s) + 1] = x
         /\ \A i \in 1..Len(s) : i \in 1..Len(Append(s, x)) /\ Append(s, x)[i] = s[i]
         /\ \A i \in 1..Len(Append(s, x)) : i \in 1..Len(s) \/ i = Len(s) + 1
         /\ Len(s) + 1 \in 1..Len(Append(s, x))
<1>1. Append(s, x) \in Seq(V) /\ Len(Append(s, x)) = Len(s) + 1 /\ Len(s) \in Nat
  OBVIOUS
<1>2. /\ Append(s, x)[Len(s) + 1] = x
      /\ \A i \in 1..Len(s) : i \in 1..Len(Append(s, x)) /\ Append(s, x)[i] = s[i]
  BY <1>1
<1>3. /\ \A i \in 1..Len(Append(s, x)) : i \in 1..Len(s) \/ i = Len(s) + 1
      /\ Len(s) + 1 \in 1..Len(Append(s, x))
  BY <1>1
<1>4. QED BY <1>1, <1>2, <1>3

PicksBy(taken, s, places) ==
  /\ taken[0] = <<>>
  /\ \A n \in 1..Len(s) : taken[n] = IF n \in places THEN Append(taken[n - 1], s[n])
                                     ELSE taken[n - 1]
  /\ Pick(s, places) = taken[Len(s)]

LEMMA PickUnfold ==
  ASSUME NEW V, NEW s \in Seq(V), NEW places
  PROVE  \E taken \in [0..Len(s) -> Seq(V)] : PicksBy(taken, s, places)
<1> DEFINE N == Len(s)
           A == Seq(V)
           b == <<>>
           To(r, n) == IF n \in places THEN Append(r, s[n]) ELSE r
           Body(f) == [n \in 0..N |-> IF n = 0 THEN <<>>
                                      ELSE IF n \in places THEN Append(f[n - 1], s[n])
                                      ELSE f[n - 1]]
           last == CHOOSE f : f = Body(f)
           step == [n \in 1..N |-> [r \in A |-> To(r, n)]]
<1>0. N \in Nat /\ b \in A /\ \A n \in 1..N : s[n] \in V
  OBVIOUS
<1>1. Pick(s, places) = last[N]
  BY DEF Pick
<1>2. \A n \in 1..N, r \in A : To(r, n) \in A
  BY <1>0, AppendIs
<1>3. \E f \in [0..N -> A] : f[0] = b /\ \A n \in 1..N : f[n] = step[n][f[n - 1]]
  <2>1. step \in [1..N -> [A -> A]]
    <3> HIDE DEF To
    <3>1. QED BY <1>2
  <2>2. N \in Nat /\ b \in A
    OBVIOUS
  <2> HIDE DEF step, A, b, N
  <2>3. QED BY ONLY <2>1, <2>2, Recursion
<1>4. PICK f \in [0..N -> A] : f[0] = b /\ \A n \in 1..N : f[n] = step[n][f[n - 1]]
  BY <1>3
<1>5. \A n \in 1..N : f[n - 1] \in A
  BY <1>0
<1>6. \A n \in 1..N : f[n] = To(f[n - 1], n)
  <2> HIDE DEF To
  <2>1. QED BY <1>4, <1>5
<1>7. f = Body(f)
  <2>1. \A n \in 0..N : n # 0 => n \in 1..N
    BY <1>0
  <2>2. \A n \in 0..N : f[n] = Body(f)[n]
    BY <1>4, <1>6, <2>1
  <2> HIDE DEF Body
  <2>3. f = [n \in 0..N |-> f[n]]
    OBVIOUS
  <2>4. Body(f) = [n \in 0..N |-> Body(f)[n]]
    BY DEF Body
  <2>5. QED BY <2>2, <2>3, <2>4
<1>8. last = Body(last)
  <2> HIDE DEF Body
  <2>1. QED BY <1>7
<1> HIDE DEF last
<1>9. /\ last[0] = <<>>
      /\ \A n \in 1..N : last[n] = To(last[n - 1], n)
  <2>1. \A n \in 0..N : last[n] = Body(last)[n]
    BY <1>8
  <2>2. 0 \in 0..N /\ \A n \in 1..N : n \in 0..N /\ n # 0
    BY <1>0
  <2>3. QED BY <2>1, <2>2
<1>10. last \in [0..N -> A]
  <2>1. DOMAIN last = 0..N /\ last = [n \in 0..N |-> last[n]]
    BY <1>8
  <2> DEFINE S == {n \in Nat : n <= N => last[n] \in A}
  <2>2. 0 \in S
    BY <1>0, <1>9
  <2>3. ASSUME NEW n \in Nat, n \in S PROVE n + 1 \in S
    <3> SUFFICES ASSUME n + 1 <= N PROVE last[n + 1] \in A
      OBVIOUS
    <3>1. n + 1 \in 1..N /\ last[n] \in A /\ (n + 1) - 1 = n
      BY <1>0, <2>3
    <3>2. last[n + 1] = To(last[n], n + 1)
      BY <1>9, <3>1
    <3> HIDE DEF To
    <3>3. QED BY <1>2, <3>1, <3>2
  <2> HIDE DEF S
  <2>4. Nat \subseteq S
    BY <2>2, <2>3, Induction
  <2>5. \A n \in 0..N : last[n] \in A
    BY <2>4 DEF S
  <2>6. QED BY <2>1, <2>5
<1>11. QED BY <1>1, <1>9, <1>10 DEF PicksBy

\* r is what s has at the places, all of it, in its order.
Keeps(r, s, places) ==
  /\ \A k \in 1..Len(r) : \E i \in 1..Len(s) : i \in places /\ r[k] = s[i]
  /\ \A i \in 1..Len(s) : i \in places => \E k \in 1..Len(r) : r[k] = s[i]
  /\ \A j, k \in 1..Len(r) : j < k =>
       \E h, i \in 1..Len(s) : h < i /\ r[j] = s[h] /\ r[k] = s[i]

LEMMA PickIs ==
  ASSUME NEW V, NEW s \in Seq(V), NEW places
  PROVE  /\ Pick(s, places) \in Seq(V)
         /\ Keeps(Pick(s, places), s, places)
<1>0. PICK taken \in [0..Len(s) -> Seq(V)] : PicksBy(taken, s, places)
  BY PickUnfold
<1>1. /\ taken[0] = <<>>
      /\ \A n \in 1..Len(s) : taken[n] = IF n \in places THEN Append(taken[n - 1], s[n])
                                         ELSE taken[n - 1]
      /\ Pick(s, places) = taken[Len(s)]
  BY <1>0 DEF PicksBy
<1> DEFINE N == Len(s)
           From(r, n) == \A k \in 1..Len(r) : \E i \in 1..n : i \in places /\ r[k] = s[i]
           Has(r, n) == \A i \in 1..n : i \in places => \E k \in 1..Len(r) : r[k] = s[i]
           Order(r, n) == \A j, k \in 1..Len(r) : j < k =>
                            \E h, i \in 1..n : h < i /\ r[j] = s[h] /\ r[k] = s[i]
           Holds(n) == From(taken[n], n) /\ Has(taken[n], n) /\ Order(taken[n], n)
           S == {n \in Nat : n <= N => Holds(n)}
<1>2. N \in Nat /\ \A n \in 1..N : s[n] \in V
  OBVIOUS
<1>3. Holds(0)
  BY <1>1
<1>4. ASSUME NEW n \in Nat, n + 1 <= N, Holds(n) PROVE Holds(n + 1)
  <2> DEFINE x == s[n + 1]
  <2>1. /\ n + 1 \in 1..N /\ (n + 1) - 1 = n /\ n \in 0..N /\ x \in V
        /\ taken[n] \in Seq(V)
    BY <1>2, <1>4
  <2>2. \A i \in 1..n : i \in 1..(n + 1) /\ i < n + 1
    OBVIOUS
  <2>3. n + 1 \in 1..(n + 1) /\ \A i \in 1..(n + 1) : i \in 1..n \/ i = n + 1
    OBVIOUS
  <2>4. CASE n + 1 \notin places
    <3>1. taken[n + 1] = taken[n]
      BY <1>1, <2>1, <2>4
    <3>2. From(taken[n], n + 1) /\ Has(taken[n], n + 1)
      BY <1>4, <2>2, <2>3, <2>4
    <3>3. Order(taken[n], n + 1)
      BY <1>4, <2>2
    <3>4. QED BY <3>1, <3>2, <3>3
  <2>5. CASE n + 1 \in places
    <3> DEFINE r == taken[n]
               t == Append(r, x)
    <3>1. taken[n + 1] = t
      BY <1>1, <2>1, <2>5
    <3>2. /\ Len(t) = Len(r) + 1 /\ Len(r) \in Nat /\ t[Len(r) + 1] = x
          /\ \A i \in 1..Len(r) : i \in 1..Len(t) /\ t[i] = r[i]
          /\ \A i \in 1..Len(t) : i \in 1..Len(r) \/ i = Len(r) + 1
          /\ Len(r) + 1 \in 1..Len(t)
      BY <2>1, AppendIs
    <3>3. From(r, n) /\ Has(r, n) /\ Order(r, n)
      BY <1>4
    <3> HIDE DEF r, t
    <3>4. From(t, n + 1)
      <4>1. ASSUME NEW k \in 1..Len(t) PROVE \E i \in 1..(n + 1) : i \in places /\ t[k] = s[i]
        <5>1. CASE k \in 1..Len(r)
          BY <2>2, <3>2, <3>3, <5>1
        <5>2. CASE k = Len(r) + 1
          BY <2>3, <2>5, <3>2, <5>2
        <5>3. QED BY <3>2, <5>1, <5>2
      <4>2. QED BY <4>1
    <3>5. Has(t, n + 1)
      <4>1. ASSUME NEW i \in 1..(n + 1), i \in places PROVE \E k \in 1..Len(t) : t[k] = s[i]
        <5>1. CASE i \in 1..n
          BY <3>2, <3>3, <4>1, <5>1
        <5>2. CASE i = n + 1
          BY <3>2, <5>2
        <5>3. QED BY <2>3, <5>1, <5>2
      <4>2. QED BY <4>1
    <3>6. Order(t, n + 1)
      <4>1. ASSUME NEW j \in 1..Len(t), NEW k \in 1..Len(t), j < k
            PROVE  \E h, i \in 1..(n + 1) : h < i /\ t[j] = s[h] /\ t[k] = s[i]
        <5>1. j \in 1..Len(r)
          BY <3>2, <4>1
        <5>2. CASE k \in 1..Len(r)
          <6>1. PICK h \in 1..n, i \in 1..n : h < i /\ r[j] = s[h] /\ r[k] = s[i]
            BY <3>3, <4>1, <5>1, <5>2
          <6>2. QED BY <2>2, <3>2, <5>1, <5>2, <6>1
        <5>3. CASE k = Len(r) + 1
          <6>1. PICK h \in 1..n : r[j] = s[h]
            BY <3>3, <5>1
          <6>2. h < n + 1 /\ h \in 1..(n + 1) /\ t[j] = s[h] /\ t[k] = s[n + 1]
            BY <2>2, <3>2, <5>1, <5>3, <6>1
          <6>3. QED BY <2>3, <6>2
        <5>4. QED BY <3>2, <5>2, <5>3
      <4>2. QED BY <4>1
    <3>7. QED BY <3>1, <3>4, <3>5, <3>6
  <2>6. QED BY <2>4, <2>5
<1> HIDE DEF Holds
<1>5. 0 \in S /\ \A n \in Nat : n \in S => n + 1 \in S
  BY <1>3, <1>4
<1>6. Holds(N)
  <2>1. N \in S
    <3> HIDE DEF S
    <3>1. QED BY <1>2, <1>5, Induction
  <2>2. QED BY <1>2, <2>1
<1>7. QED BY <1>1, <1>2, <1>6 DEF Holds, Keeps

LEMMA PickAll ==
  ASSUME NEW V, NEW s \in Seq(V), NEW places, \A i \in 1..Len(s) : i \in places
  PROVE  Pick(s, places) = s
<1>0. PICK taken \in [0..Len(s) -> Seq(V)] : PicksBy(taken, s, places)
  BY PickUnfold
<1>1. /\ taken[0] = <<>>
      /\ \A n \in 1..Len(s) : taken[n] = IF n \in places THEN Append(taken[n - 1], s[n])
                                         ELSE taken[n - 1]
      /\ Pick(s, places) = taken[Len(s)]
  BY <1>0 DEF PicksBy
<1> DEFINE N == Len(s)
           Holds(n) == Len(taken[n]) = n /\ \A i \in 1..n : taken[n][i] = s[i]
           S == {n \in Nat : n <= N => Holds(n)}
<1>2. N \in Nat /\ \A n \in 1..N : s[n] \in V
  OBVIOUS
<1>3. Holds(0)
  BY <1>1
<1>4. ASSUME NEW n \in Nat, n + 1 <= N, Holds(n) PROVE Holds(n + 1)
  <2>1. /\ n + 1 \in 1..N /\ (n + 1) - 1 = n /\ n \in 0..N /\ s[n + 1] \in V
        /\ taken[n] \in Seq(V)
    BY <1>2, <1>4
  <2>2. taken[n + 1] = Append(taken[n], s[n + 1])
    BY <1>1, <1>4, <2>1
  <2>3. \A i \in 1..(n + 1) : i \in 1..n \/ i = n + 1
    OBVIOUS
  <2>4. Len(taken[n + 1]) = n + 1
    BY <1>4, <2>1, <2>2
  <2>5. ASSUME NEW i \in 1..(n + 1) PROVE taken[n + 1][i] = s[i]
    BY <1>4, <2>1, <2>2, <2>3, AppendIs
  <2>6. QED BY <2>4, <2>5
<1> HIDE DEF Holds
<1>5. 0 \in S /\ \A n \in Nat : n \in S => n + 1 \in S
  BY <1>3, <1>4
<1>6. Holds(N)
  <2>1. N \in S
    <3> HIDE DEF S
    <3>1. QED BY <1>2, <1>5, Induction
  <2>2. QED BY <1>2, <2>1
<1>7. Pick(s, places) \in Seq(V) /\ Len(Pick(s, places)) = Len(s)
      /\ \A i \in 1..Len(s) : Pick(s, places)[i] = s[i]
  BY <1>1, <1>2, <1>6 DEF Holds
<1>8. QED BY <1>7

-----------------------------------------------------------------------------
(* Texts as marks in their order *)

Ms(s) == {s[i] : i \in 1..Len(s)}

Rising(s) == \A i, j \in 1..Len(s) : i < j => s[i].at < s[j].at

Text(s) == s \in Seq(Mark) /\ Rising(s)

LEMMA InText ==
  ASSUME NEW s, Text(s)
  PROVE  /\ s \in Seq(Mark) /\ Len(s) \in Nat /\ DOMAIN s = 1..Len(s)
         /\ \A i \in 1..Len(s) : s[i] \in Mark /\ s[i].at \in Nat /\ s[i].t \in Token
                                 /\ s[i] \in Ms(s)
         /\ \A i, j \in 1..Len(s) : i < j <=> s[i].at < s[j].at
         /\ \A i, j \in 1..Len(s) : s[i].at = s[j].at => i = j
         /\ \A m \in Ms(s) : \E i \in 1..Len(s) : m = s[i]
<1>1. s \in Seq(Mark) /\ Len(s) \in Nat /\ DOMAIN s = 1..Len(s)
  BY DEF Text
<1>2. \A i \in 1..Len(s) : s[i] \in Mark
  BY <1>1
<1>3. \A i \in 1..Len(s) : s[i].at \in Nat /\ s[i].t \in Token /\ s[i] \in Ms(s)
  BY <1>2 DEF Mark, Ms
<1>4. \A i, j \in 1..Len(s) : i < j <=> s[i].at < s[j].at
  <2> TAKE i, j \in 1..Len(s)
  <2>1. s[i].at \in Nat /\ s[j].at \in Nat /\ i \in Int /\ j \in Int
    BY <1>3
  <2>2. i < j => s[i].at < s[j].at
    BY DEF Text, Rising
  <2>3. j < i => s[j].at < s[i].at
    BY DEF Text, Rising
  <2>4. QED BY <2>1, <2>2, <2>3
<1>5. \A i, j \in 1..Len(s) : s[i].at = s[j].at => i = j
  <2> TAKE i, j \in 1..Len(s)
  <2>1. s[i].at \in Nat /\ s[j].at \in Nat /\ i \in Int /\ j \in Int
    BY <1>3
  <2>2. (i < j <=> s[i].at < s[j].at) /\ (j < i <=> s[j].at < s[i].at)
    BY <1>4
  <2>3. QED BY <2>1, <2>2
<1>6. \A m \in Ms(s) : \E i \in 1..Len(s) : m = s[i]
  BY DEF Ms
<1>7. QED BY <1>1, <1>2, <1>3, <1>4, <1>5, <1>6

LEMMA Picked ==
  ASSUME NEW s, Text(s), NEW places
  PROVE  /\ Text(Pick(s, places))
         /\ \A m : m \in Ms(Pick(s, places)) <=> \E i \in 1..Len(s) : i \in places /\ m = s[i]
         /\ Ms(Pick(s, places)) \subseteq Ms(s)
<1>1. s \in Seq(Mark)
  BY DEF Text
<1>0. PICK r : r = Pick(s, places)
  OBVIOUS
<1>2. /\ r \in Seq(Mark)
      /\ \A k \in 1..Len(r) : \E i \in 1..Len(s) : i \in places /\ r[k] = s[i]
      /\ \A i \in 1..Len(s) : i \in places => \E k \in 1..Len(r) : r[k] = s[i]
      /\ \A j, k \in 1..Len(r) : j < k =>
           \E h, i \in 1..Len(s) : h < i /\ r[j] = s[h] /\ r[k] = s[i]
  <2>1. r \in Seq(Mark) /\ Keeps(r, s, places)
    BY <1>0, <1>1, PickIs
  <2>2. QED BY <2>1 DEF Keeps
<1>3. Rising(r)
  <2>1. ASSUME NEW j \in 1..Len(r), NEW k \in 1..Len(r), j < k PROVE r[j].at < r[k].at
    <3>1. PICK h \in 1..Len(s), i \in 1..Len(s) : h < i /\ r[j] = s[h] /\ r[k] = s[i]
      BY <1>2, <2>1
    <3>2. s[h].at < s[i].at
      BY <3>1, InText
    <3>3. QED BY <3>1, <3>2
  <2>2. QED BY <2>1 DEF Rising
<1>4. ASSUME NEW m PROVE m \in Ms(r) <=> \E i \in 1..Len(s) : i \in places /\ m = s[i]
  <2>1. ASSUME m \in Ms(r) PROVE \E i \in 1..Len(s) : i \in places /\ m = s[i]
    <3>1. PICK k \in 1..Len(r) : m = r[k]
      BY <2>1 DEF Ms
    <3>2. QED BY <1>2, <3>1
  <2>2. ASSUME NEW i \in 1..Len(s), i \in places, m = s[i] PROVE m \in Ms(r)
    <3>1. PICK k \in 1..Len(r) : r[k] = s[i]
      BY <1>2, <2>2
    <3>2. QED BY <2>2, <3>1 DEF Ms
  <2>3. QED BY <2>1, <2>2
<1>5. Ms(r) \subseteq Ms(s)
  BY <1>4, InText
<1>6. QED BY <1>0, <1>2, <1>3, <1>4, <1>5 DEF Text

LEMMA AfterIs ==
  ASSUME NEW s, Text(s), NEW i \in 1..Len(s), NEW ts
  PROVE  /\ After(s, i, ts) \in 0..Len(s)
         /\ After(s, i, ts) # 0 => After(s, i, ts) > i /\ s[After(s, i, ts)].t \in ts
         /\ \A j \in 1..Len(s) : j > i /\ s[j].t \in ts => After(s, i, ts) # 0
<1> DEFINE later == {j \in DOMAIN s : j > i /\ s[j].t \in ts}
<1>1. Len(s) \in Nat /\ DOMAIN s = 1..Len(s)
  BY InText
<1>2. After(s, i, ts) = IF later = {} THEN 0 ELSE CHOOSE j \in later : \A k \in later : j <= k
  BY DEF After
<1>3. later \subseteq Nat
  BY <1>1
<1>4. CASE later = {}
  BY <1>1, <1>2, <1>4
<1>5. CASE later # {}
  <2>1. \E j \in later : \A k \in later : j <= k
    <3> HIDE DEF later
    <3>1. QED BY <1>3, <1>5, Smallest
  <2>2. After(s, i, ts) \in later
    <3> HIDE DEF later
    <3>1. QED BY <1>2, <1>5, <2>1
  <2>3. QED BY <1>1, <2>2
<1>6. QED BY <1>4, <1>5

LEMMA PairEnds ==
  ASSUME NEW s, Text(s), NEW opens, NEW closes
  PROVE  /\ Ends(Pair(s, opens, closes), Len(s))
         /\ \A i \in 1..Len(s) : Pair(s, opens, closes)[i] # 0 => s[i].t \in opens
         /\ \A i, j \in 1..Len(s) : i < j /\ s[i].t \in opens /\ s[j].t \in closes
                                    => Pair(s, opens, closes)[i] # 0
<1>1. Len(s) \in Nat /\ DOMAIN s = 1..Len(s)
  BY InText
<1>2. \A i \in 1..Len(s) : /\ After(s, i, closes) \in 0..Len(s)
                           /\ After(s, i, closes) # 0 => After(s, i, closes) > i
                           /\ \A j \in 1..Len(s) : j > i /\ s[j].t \in closes
                                                   => After(s, i, closes) # 0
  BY AfterIs
<1>3. Pair(s, opens, closes)
        = [i \in 1..Len(s) |-> IF s[i].t \in opens THEN After(s, i, closes) ELSE 0]
  BY <1>1 DEF Pair
<1>4. \A i \in 1..Len(s) :
        /\ Pair(s, opens, closes)[i] \in 0..Len(s)
        /\ Pair(s, opens, closes)[i] # 0 => i <= Pair(s, opens, closes)[i] /\ s[i].t \in opens
  BY <1>1, <1>2, <1>3
<1>5. Pair(s, opens, closes) \in [1..Len(s) -> 0..Len(s)]
  BY <1>1, <1>2, <1>3
<1>6. \A i, j \in 1..Len(s) : i < j /\ s[i].t \in opens /\ s[j].t \in closes
                               => Pair(s, opens, closes)[i] # 0
  BY <1>2, <1>3
<1>7. QED BY <1>4, <1>5, <1>6 DEF Ends

LEMMA SingleEnds ==
  ASSUME NEW s, Text(s), NEW ts
  PROVE  /\ Ends(Single(s, ts), Len(s))
         /\ \A i \in 1..Len(s) : Single(s, ts)[i] # 0 <=> s[i].t \in ts
<1>1. Len(s) \in Nat /\ DOMAIN s = 1..Len(s)
  BY InText
<1>2. Single(s, ts) = [i \in 1..Len(s) |-> IF s[i].t \in ts THEN i ELSE 0]
  BY <1>1 DEF Single
<1>3. QED BY <1>1, <1>2 DEF Ends

\* What is taken out is what the spans cover; nothing that matches is left.
LEMMA WithoutIs ==
  ASSUME NEW s, Text(s), NEW end, Ends(end, Len(s))
  PROVE  /\ Text(Without(s, end))
         /\ \A m : m \in Ms(Without(s, end)) <=>
                     \E i \in 1..Len(s) : i \notin Covered(Spans(end)) /\ m = s[i]
         /\ \A i \in 1..Len(s) : s[i] \in Ms(Without(s, end)) =>
                                   end[i] = 0 /\ i \notin Covered(Spans(end))
         /\ Ms(Without(s, end)) \subseteq Ms(s)
<1> DEFINE left == DOMAIN s \ Covered(Spans(end))
<1>1. Len(s) \in Nat /\ DOMAIN s = 1..Len(s)
  BY InText
<1>2. Without(s, end) = Pick(s, left)
  BY DEF Without
<1>3. \A i \in 1..Len(s) : i \in left <=> i \notin Covered(Spans(end))
  BY <1>1
<1>4. /\ Text(Without(s, end))
      /\ \A m : m \in Ms(Without(s, end)) <=> \E i \in 1..Len(s) : i \in left /\ m = s[i]
      /\ Ms(Without(s, end)) \subseteq Ms(s)
  <2> HIDE DEF left
  <2>1. QED BY <1>2, Picked
<1>5. \A i \in 1..Len(s) : end[i] # 0 => i \in Covered(Spans(end))
  BY <1>1, SpansIs
<1>6. \A i \in 1..Len(s) : s[i] \in Ms(Without(s, end)) => i \in left
  <2> HIDE DEF left
  <2> TAKE i \in 1..Len(s)
  <2> HAVE s[i] \in Ms(Without(s, end))
  <2>1. PICK h \in 1..Len(s) : h \in left /\ s[i] = s[h]
    BY <1>4
  <2>2. i = h
    BY <2>1, InText
  <2>3. QED BY <2>1, <2>2
<1> HIDE DEF left
<1>7. QED BY <1>3, <1>4, <1>5, <1>6

\* Taking pairs out once leaves no opening before a closing one.
LEMMA PairGone ==
  ASSUME NEW s, Text(s), NEW opens, NEW closes,
         NEW m \in Ms(Without(s, Pair(s, opens, closes))),
         NEW n \in Ms(Without(s, Pair(s, opens, closes))),
         m.at < n.at, m.t \in opens, n.t \in closes
  PROVE  FALSE
<1> DEFINE end == Pair(s, opens, closes)
<1>1. Ends(end, Len(s))
  BY PairEnds
<1>2. PICK i \in 1..Len(s) : m = s[i]
  BY <1>1, WithoutIs
<1>3. PICK j \in 1..Len(s) : n = s[j]
  BY <1>1, WithoutIs
<1>4. i < j
  BY <1>2, <1>3, InText
<1>5. end[i] # 0
  BY <1>2, <1>3, <1>4, PairEnds
<1>6. end[i] = 0
  BY <1>1, <1>2, WithoutIs
<1>7. QED BY <1>5, <1>6

LEMMA SingleGone ==
  ASSUME NEW s, Text(s), NEW ts, NEW m \in Ms(Without(s, Single(s, ts)))
  PROVE  m.t \notin ts
<1> DEFINE end == Single(s, ts)
<1>1. Ends(end, Len(s))
  BY SingleEnds
<1>2. PICK i \in 1..Len(s) : m = s[i]
  BY <1>1, WithoutIs
<1>3. end[i] = 0
  BY <1>1, <1>2, WithoutIs
<1>4. QED BY <1>2, <1>3, SingleEnds

\* Where nothing matches nothing is taken out.
LEMMA WithoutNone ==
  ASSUME NEW s, Text(s), NEW end, Ends(end, Len(s)), \A i \in 1..Len(s) : end[i] = 0
  PROVE  Without(s, end) = s
<1>1. s \in Seq(Mark) /\ Len(s) \in Nat /\ DOMAIN s = 1..Len(s)
  BY InText
<1>2. Covered(Spans(end)) = {}
  <2>1. Spans(end) = {}
    BY <1>1, SpansIs
  <2>2. QED BY <2>1 DEF Covered
<1> DEFINE left == DOMAIN s \ Covered(Spans(end))
<1>3. \A i \in 1..Len(s) : i \in left
  BY <1>1, <1>2
<1>4. Without(s, end) = Pick(s, left)
  BY DEF Without
<1> HIDE DEF left
<1>5. QED BY <1>1, <1>3, <1>4, PickAll

-----------------------------------------------------------------------------
(* Taking syntax out *)

\* Nothing that is a call, or that a closing tag makes one.
Inert(M) ==
  /\ \A m \in M : m.t \notin {"cmdopen", "pass"}
  /\ \A m, n \in M : m.t \in {"xopen", "xbare"} /\ n.t = "xclose" => ~(m.at < n.at)

LEMMA InertPart ==
  ASSUME NEW M, NEW N, Inert(M), N \subseteq M
  PROVE  Inert(N)
BY DEF Inert

LEMMA TrimIs ==
  ASSUME NEW s, Text(s)
  PROVE  /\ Text(Trim(s)) /\ Ms(Trim(s)) \subseteq Ms(s)
         /\ \A i, j, k \in 1..Len(s) : j <= i /\ i <= k /\ s[j].t # "nl" /\ s[k].t # "nl"
                                       => s[i] \in Ms(Trim(s))
<1> DEFINE words == {i \in DOMAIN s : s[i].t # "nl"}
           left == {i \in DOMAIN s : \E j, k \in words : j <= i /\ i <= k}
<1>1. DOMAIN s = 1..Len(s)
  BY InText
<1>2. Trim(s) = Pick(s, left)
  BY DEF Trim
<1>3. \A i, j, k \in 1..Len(s) : j <= i /\ i <= k /\ s[j].t # "nl" /\ s[k].t # "nl" => i \in left
  BY <1>1
<1> HIDE DEF left
<1>4. QED BY <1>2, <1>3, Picked

LEMMA SqueezeIs ==
  ASSUME NEW s, Text(s)
  PROVE  Text(Squeeze(s)) /\ Ms(Squeeze(s)) \subseteq Ms(s)
BY Picked DEF Squeeze

LEMMA CutIs ==
  ASSUME NEW s, Text(s)
  PROVE  /\ Text(Cut(s)) /\ Ms(Cut(s)) \subseteq Ms(s)
         /\ \A m \in Ms(Cut(s)) : m.t # "cmdopen"
<1> DEFINE open == {i \in DOMAIN s : s[i].t = "cmdopen"}
           left == {i \in DOMAIN s : \A j \in open : i < j}
<1>1. DOMAIN s = 1..Len(s)
  BY InText
<1>2. Cut(s) = Pick(s, left)
  BY DEF Cut
<1>3. \A i \in 1..Len(s) : i \in left => s[i].t # "cmdopen"
  BY <1>1
<1> HIDE DEF left
<1>4. QED BY <1>2, <1>3, Picked

LEMMA StripRawIs ==
  ASSUME NEW s, Text(s)
  PROVE  /\ Text(StripRaw(s)) /\ Ms(StripRaw(s)) \subseteq Ms(s)
         /\ Inert(Ms(StripRaw(s)))
<1> PICK a : a = Without(s, Pair(s, {"xopen", "xbare"}, {"xclose"}))
  OBVIOUS
<1> PICK b : b = Without(a, Pair(a, {"cmdopen"}, {"cmdend"}))
  OBVIOUS
<1> PICK b2 : b2 = Without(b, Pair(b, {"cmdopen"}, Closing))
  OBVIOUS
<1> PICK c : c = Cut(b2)
  OBVIOUS
<1> PICK d : d = Without(c, Single(c, {"pass"}))
  OBVIOUS
<1> PICK e : e = Squeeze(d)
  OBVIOUS
<1>1. StripRaw(s) = Trim(e)
  BY DEF StripRaw
<1>2. Text(a) /\ Ms(a) \subseteq Ms(s)
  BY PairEnds, WithoutIs
<1>3. Text(b) /\ Ms(b) \subseteq Ms(a)
  BY <1>2, PairEnds, WithoutIs
<1>4. Text(b2) /\ Ms(b2) \subseteq Ms(b)
  BY <1>3, PairEnds, WithoutIs
<1>5. Text(c) /\ Ms(c) \subseteq Ms(b2) /\ \A m \in Ms(c) : m.t # "cmdopen"
  BY <1>4, CutIs
<1>6. Text(d) /\ Ms(d) \subseteq Ms(c) /\ \A m \in Ms(d) : m.t # "pass"
  BY <1>5, SingleEnds, WithoutIs, SingleGone
<1>7. Text(e) /\ Ms(e) \subseteq Ms(d)
  BY <1>6, SqueezeIs
<1>8. Text(Trim(e)) /\ Ms(Trim(e)) \subseteq Ms(e)
  BY <1>7, TrimIs
<1>9. Ms(d) \subseteq Ms(a)
  BY <1>3, <1>4, <1>5, <1>6
<1>10. ASSUME NEW m \in Ms(d), NEW n \in Ms(d), m.t \in {"xopen", "xbare"}, n.t = "xclose",
              m.at < n.at
       PROVE  FALSE
  <2>1. m \in Ms(a) /\ n \in Ms(a) /\ n.t \in {"xclose"}
    BY <1>9, <1>10
  <2>2. QED BY <1>10, <2>1, PairGone
<1>11. Inert(Ms(d))
  BY <1>5, <1>6, <1>10 DEF Inert
<1>12. Ms(Trim(e)) \subseteq Ms(d) /\ Ms(Trim(e)) \subseteq Ms(s)
  BY <1>2, <1>7, <1>8, <1>9
<1>13. QED BY <1>1, <1>8, <1>11, <1>12, InertPart

\* strip_reasoning_tags leaves no tag, and a text without one as it is.
LEMMA ReasoningIs ==
  ASSUME NEW s, Text(s)
  PROVE  /\ Text(StripReasoning(s)) /\ Ms(StripReasoning(s)) \subseteq Ms(s)
         /\ \A m \in Ms(StripReasoning(s)) : m.t \notin {"think", "unthink"}
<1> PICK inner : inner = Without(s, Pair(s, {"think"}, {"unthink"}))
  OBVIOUS
<1> PICK bare : bare = Without(inner, Single(inner, {"unthink"}))
  OBVIOUS
<1> DEFINE open == {i \in DOMAIN bare : bare[i].t = "think"}
           left == {i \in DOMAIN bare : \A j \in open : i < j}
<1>1. StripReasoning(s) = Pick(bare, left)
  BY DEF StripReasoning
<1>2. Text(inner) /\ Ms(inner) \subseteq Ms(s)
  BY PairEnds, WithoutIs
<1>3. Text(bare) /\ Ms(bare) \subseteq Ms(inner) /\ \A m \in Ms(bare) : m.t # "unthink"
  BY <1>2, SingleEnds, WithoutIs, SingleGone
<1>4. \A i \in 1..Len(bare) : i \in left => bare[i].t # "think"
  <2>1. DOMAIN bare = 1..Len(bare)
    BY <1>3, InText
  <2>2. QED BY <2>1
<1> HIDE DEF left
<1>5. /\ Text(Pick(bare, left)) /\ Ms(Pick(bare, left)) \subseteq Ms(bare)
      /\ \A m \in Ms(Pick(bare, left)) : \E i \in 1..Len(bare) : i \in left /\ m = bare[i]
  BY <1>3, Picked
<1>6. \A m \in Ms(Pick(bare, left)) : m.t # "think"
  BY <1>4, <1>5
<1>7. QED BY <1>1, <1>2, <1>3, <1>5, <1>6

LEMMA ReasoningNone ==
  ASSUME NEW s, Text(s), \A m \in Ms(s) : m.t \notin {"think", "unthink"}
  PROVE  StripReasoning(s) = s
<1> DEFINE inner == Without(s, Pair(s, {"think"}, {"unthink"}))
           bare == Without(inner, Single(inner, {"unthink"}))
           open == {i \in DOMAIN bare : bare[i].t = "think"}
           left == {i \in DOMAIN bare : \A j \in open : i < j}
<1>1. s \in Seq(Mark) /\ DOMAIN s = 1..Len(s)
      /\ \A i \in 1..Len(s) : s[i].t \notin {"think", "unthink"}
  BY InText
<1>2. inner = s
  <2>1. Ends(Pair(s, {"think"}, {"unthink"}), Len(s))
    BY PairEnds
  <2>2. \A i \in 1..Len(s) : Pair(s, {"think"}, {"unthink"})[i] = 0
    BY <1>1, PairEnds
  <2>3. QED BY <2>1, <2>2, WithoutNone
<1>3. bare = s
  <2>1. Ends(Single(s, {"unthink"}), Len(s))
    BY SingleEnds
  <2>2. \A i \in 1..Len(s) : Single(s, {"unthink"})[i] = 0
    BY <1>1, SingleEnds
  <2>3. Without(s, Single(s, {"unthink"})) = s
    BY <2>1, <2>2, WithoutNone
  <2> HIDE DEF inner
  <2>4. QED BY <1>2, <2>3
<1>4. StripReasoning(s) = Pick(bare, left)
  BY DEF StripReasoning
<1> HIDE DEF bare
<1>5. \A i \in 1..Len(s) : i \in left
  BY <1>1, <1>3
<1> HIDE DEF left
<1>6. Pick(s, left) = s
  BY <1>1, <1>5, PickAll
<1>7. QED BY <1>3, <1>4, <1>6

\* A second round over what one round left takes nothing out.
LEMMA OneRound ==
  ASSUME NEW s, Text(s), NEW opens, NEW closes
  PROVE  LET t == Without(s, Pair(s, opens, closes))
         IN Without(t, Pair(t, opens, closes)) = t
<1> PICK t : t = Without(s, Pair(s, opens, closes))
  OBVIOUS
<1>1. Text(t)
  BY PairEnds, WithoutIs
<1>2. ASSUME NEW i \in 1..Len(t), Pair(t, opens, closes)[i] # 0 PROVE FALSE
  <2>1. DOMAIN t = 1..Len(t) /\ Len(t) \in Nat
    BY <1>1, InText
  <2>2. Pair(t, opens, closes)[i] = After(t, i, closes) /\ t[i].t \in opens
    BY <1>2, <2>1 DEF Pair
  <2> PICK j : j = After(t, i, closes)
    OBVIOUS
  <2>3. j \in 1..Len(t) /\ i < j /\ t[j].t \in closes
    BY <1>1, <1>2, <2>1, <2>2, AfterIs
  <2>4. t[i] \in Ms(t) /\ t[j] \in Ms(t) /\ t[i].at < t[j].at
    BY <1>1, <2>3, InText
  <2>5. QED BY <2>2, <2>3, <2>4, PairGone
<1>3. Without(t, Pair(t, opens, closes)) = t
  BY <1>1, <1>2, PairEnds, WithoutNone
<1>4. QED BY <1>3

-----------------------------------------------------------------------------
(* Code and what lies between it *)

\* Matches of a text of n marks that begin and end with a tick.
Ticked(end, s) ==
  /\ Ends(end, Len(s))
  /\ \A i \in 1..Len(s) : end[i] # 0 => s[i].t = "tick" /\ s[end[i]].t = "tick"

LEMMA FencedTicked ==
  ASSUME NEW s, Text(s)
  PROVE  Ticked(Fenced(s), s)
<1> DEFINE ends(i) == {j \in DOMAIN s : j > i + 2 /\ IsFence(s, j)}
           first(i) == CHOOSE j \in ends(i) : \A k \in ends(i) : j <= k
<1>1. Len(s) \in Nat /\ DOMAIN s = 1..Len(s)
  BY InText
<1>2. ASSUME NEW i \in 1..Len(s), ends(i) # {} PROVE first(i) \in ends(i)
  <2>1. ends(i) \subseteq Nat
    BY <1>1
  <2> HIDE DEF ends
  <2>2. QED BY <1>2, <2>1, Smallest
<1>3. Fenced(s) = [i \in 1..Len(s) |-> IF IsFence(s, i) /\ ends(i) # {} THEN 2 + first(i) ELSE 0]
  BY <1>1 DEF Fenced
<1>4. ASSUME NEW i \in 1..Len(s), IsFence(s, i), ends(i) # {}
      PROVE  /\ 2 + first(i) \in 1..Len(s) /\ i <= 2 + first(i)
             /\ s[i].t = "tick" /\ s[2 + first(i)].t = "tick"
  <2> PICK j : j = first(i)
    OBVIOUS
  <2>1. j \in ends(i)
    BY <1>2, <1>4
  <2>2. j \in 1..Len(s) /\ j > i + 2 /\ IsFence(s, j)
    BY <1>1, <2>1
  <2>3. j + 2 \in DOMAIN s /\ s[j + 2].t = "tick" /\ s[i].t = "tick"
    BY <1>4, <2>2 DEF IsFence, Is
  <2>4. 2 + j = j + 2
    BY <2>2
  <2>5. QED BY <1>1, <2>2, <2>3, <2>4
<1> HIDE DEF ends, first
<1>5. \A i \in 1..Len(s) :
        /\ Fenced(s)[i] \in 0..Len(s)
        /\ Fenced(s)[i] # 0 => i <= Fenced(s)[i] /\ s[i].t = "tick" /\ s[Fenced(s)[i]].t = "tick"
  <2> TAKE i \in 1..Len(s)
  <2>1. CASE IsFence(s, i) /\ ends(i) # {}
    <3>1. Fenced(s)[i] = 2 + first(i)
      BY <1>3, <2>1
    <3>2. QED BY <1>1, <1>4, <2>1, <3>1
  <2>2. CASE ~(IsFence(s, i) /\ ends(i) # {})
    <3>1. Fenced(s)[i] = 0
      BY <1>3, <2>2
    <3>2. QED BY <1>1, <3>1
  <2>3. QED BY <2>1, <2>2
<1>6. Fenced(s) \in [1..Len(s) -> 0..Len(s)]
  <2>1. Fenced(s) = [i \in 1..Len(s) |-> Fenced(s)[i]]
    BY <1>3
  <2>2. QED BY <1>5, <2>1
<1>7. QED BY <1>5, <1>6 DEF Ticked, Ends

LEMMA InlineTicked ==
  ASSUME NEW s, Text(s)
  PROVE  Ticked(Inline(s), s)
<1>1. Len(s) \in Nat /\ DOMAIN s = 1..Len(s)
  BY InText
<1> DEFINE after(i) == After(s, i, {"tick"})
           Closed(i) == s[i].t = "tick" /\ after(i) > i + 1 /\ \A k \in i..after(i) : s[k].t # "nl"
<1>2. \A i \in 1..Len(s) : after(i) \in 0..Len(s)
                           /\ (after(i) # 0 => after(i) > i /\ s[after(i)].t \in {"tick"})
  BY AfterIs
<1>3. Inline(s) = [i \in 1..Len(s) |-> IF Closed(i) THEN after(i) ELSE 0]
  BY <1>1 DEF Inline
<1>4. \A i \in 1..Len(s) : Closed(i) => s[i].t = "tick"
  OBVIOUS
<1> HIDE DEF after, Closed
<1>5. Inline(s) \in [1..Len(s) -> 0..Len(s)]
  BY <1>1, <1>2, <1>3
<1>6. \A i \in 1..Len(s) :
        Inline(s)[i] # 0 => i <= Inline(s)[i] /\ s[i].t = "tick" /\ s[Inline(s)[i]].t = "tick"
  <2> TAKE i \in 1..Len(s)
  <2> HAVE Inline(s)[i] # 0
  <2>1. Inline(s)[i] = after(i) /\ Closed(i)
    BY <1>3
  <2>2. QED BY <1>1, <1>2, <1>4, <2>1
<1>7. QED BY <1>5, <1>6 DEF Ticked, Ends

\* Places in order, each run of them between two others.
Apart(spans) == \A a, b \in spans : a # b => a[2] < b[1] \/ b[2] < a[1]

LEMMA GapsAre ==
  ASSUME NEW s, Text(s), NEW spans
  PROVE  /\ \A g \in Gaps(s, spans) :
              /\ g[1] \in 1..Len(s) /\ g[2] \in 1..Len(s) /\ g[1] <= g[2] /\ g = <<g[1], g[2]>>
              /\ \A i \in g[1]..g[2] : i \notin Covered(spans)
         /\ \A g, h \in Gaps(s, spans) : g # h /\ g[1] <= h[1] =>
              g[2] + 1 < h[1] /\ g[2] + 1 \in Covered(spans) /\ g[2] + 1 \in 1..Len(s)
         /\ Apart(Gaps(s, spans))
<1> DEFINE free == DOMAIN s \ Covered(spans)
<1>1. Len(s) \in Nat /\ DOMAIN s = 1..Len(s) /\ free \subseteq 1..Len(s)
  BY InText
<1>2. \A g \in Gaps(s, spans) : /\ g[1] \in free /\ g[2] \in free /\ g[1] <= g[2]
                                /\ g = <<g[1], g[2]>>
                                /\ \A i \in g[1]..g[2] : i \in free
                                /\ g[1] - 1 \notin free /\ g[2] + 1 \notin free
  BY DEF Gaps
<1>3. \A i \in 1..Len(s) : i \in free <=> i \notin Covered(spans)
  BY <1>1
<1> HIDE DEF free
<1>4. ASSUME NEW g \in Gaps(s, spans), NEW h \in Gaps(s, spans), g # h, g[1] <= h[1]
      PROVE  g[2] + 1 < h[1] /\ g[2] + 1 \in Covered(spans) /\ g[2] + 1 \in 1..Len(s)
  <2>1. /\ g[1] \in 1..Len(s) /\ g[2] \in 1..Len(s) /\ h[1] \in 1..Len(s) /\ h[2] \in 1..Len(s)
        /\ g[1] <= g[2] /\ h[1] <= h[2]
    BY <1>1, <1>2
  <2>2. CASE h[1] <= g[2]
    <3>1. h[1] = g[1]
      <4>1. SUFFICES ASSUME g[1] < h[1] PROVE FALSE
        BY <1>4, <2>1
      <4>2. h[1] - 1 \in g[1]..g[2]
        BY <2>1, <2>2, <4>1
      <4>3. QED BY <1>2, <4>2
    <3>2. g[2] = h[2]
      <4>1. CASE g[2] < h[2]
        <5>1. g[2] + 1 \in h[1]..h[2]
          BY <2>1, <2>2, <4>1
        <5>2. QED BY <1>2, <5>1
      <4>2. CASE h[2] < g[2]
        <5>1. h[2] + 1 \in g[1]..g[2]
          BY <2>1, <3>1, <4>2
        <5>2. QED BY <1>2, <5>1
      <4>3. QED BY <2>1, <4>1, <4>2
    <3>3. QED BY <1>2, <1>4, <3>1, <3>2
  <2>3. CASE g[2] < h[1]
    <3>1. g[2] + 1 # h[1]
      BY <1>2
    <3>2. g[2] + 1 < h[1] /\ g[2] + 1 \in 1..Len(s)
      BY <1>1, <2>1, <2>3, <3>1
    <3>3. QED BY <1>2, <1>3, <3>2
  <2>4. QED BY <2>1, <2>2, <2>3
<1>5. Apart(Gaps(s, spans))
  <2>1. ASSUME NEW g \in Gaps(s, spans), NEW h \in Gaps(s, spans), g # h
        PROVE  g[2] < h[1] \/ h[2] < g[1]
    <3>1. /\ g[1] \in 1..Len(s) /\ g[2] \in 1..Len(s)
          /\ h[1] \in 1..Len(s) /\ h[2] \in 1..Len(s)
      BY <1>1, <1>2
    <3>2. CASE g[1] <= h[1]
      BY <1>4, <2>1, <3>1, <3>2
    <3>3. CASE h[1] <= g[1]
      BY <1>4, <2>1, <3>1, <3>3
    <3>4. QED BY <3>1, <3>2, <3>3
  <2>2. QED BY <2>1 DEF Apart
<1>6. QED BY <1>1, <1>2, <1>3, <1>4, <1>5

LEMMA PartIs ==
  ASSUME NEW s, Text(s), NEW a \in 1..Len(s), NEW b \in 1..Len(s), a <= b
  PROVE  /\ Text(SubSeq(s, a, b)) /\ Len(SubSeq(s, a, b)) = b - a + 1
         /\ \A i \in 1..(b - a + 1) : SubSeq(s, a, b)[i] = s[a + i - 1]
         /\ \A m : m \in Ms(SubSeq(s, a, b)) <=> \E i \in a..b : m = s[i]
<1>1. s \in Seq(Mark) /\ Len(s) \in Nat /\ \A i \in 1..Len(s) : s[i] \in Mark
  BY InText
<1> PICK r : r = SubSeq(s, a, b)
  OBVIOUS
<1>2. /\ r \in Seq(Mark) /\ Len(r) = b - a + 1
      /\ \A i \in 1..(b - a + 1) : r[i] = s[a + i - 1]
  BY <1>1
<1>3. \A i \in 1..(b - a + 1) : a + i - 1 \in a..b /\ a + i - 1 \in 1..Len(s)
  BY <1>1
<1>4. Rising(r)
  <2>1. ASSUME NEW i \in 1..Len(r), NEW j \in 1..Len(r), i < j PROVE r[i].at < r[j].at
    <3>1. a + i - 1 < a + j - 1 /\ a + i - 1 \in 1..Len(s) /\ a + j - 1 \in 1..Len(s)
      BY <1>2, <1>3, <2>1
    <3>2. r[i] = s[a + i - 1] /\ r[j] = s[a + j - 1]
      BY <1>2
    <3>3. s[a + i - 1].at < s[a + j - 1].at
      BY <3>1, InText
    <3>4. QED BY <3>2, <3>3
  <2>2. QED BY <2>1 DEF Rising
<1>5. ASSUME NEW m PROVE m \in Ms(r) <=> \E i \in a..b : m = s[i]
  <2>1. ASSUME m \in Ms(r) PROVE \E i \in a..b : m = s[i]
    BY <1>2, <1>3, <2>1 DEF Ms
  <2>2. ASSUME NEW i \in a..b, m = s[i] PROVE m \in Ms(r)
    <3>1. i - a + 1 \in 1..(b - a + 1) /\ a + (i - a + 1) - 1 = i
      OBVIOUS
    <3>2. r[i - a + 1] = s[i]
      BY <1>2, <3>1
    <3>3. QED BY <1>2, <2>2, <3>1, <3>2 DEF Ms
  <2>3. QED BY <2>1, <2>2
<1>6. QED BY <1>2, <1>4, <1>5 DEF Text

\* Code spans lie in the text, apart from each other, and begin and end with a tick.
LEMMA CodeIs ==
  ASSUME NEW s, Text(s)
  PROVE  /\ \A a \in CodeSpans(s) :
              /\ a[1] \in 1..Len(s) /\ a[2] \in 1..Len(s) /\ a[1] <= a[2] /\ a = <<a[1], a[2]>>
              /\ s[a[1]].t = "tick" /\ s[a[2]].t = "tick"
         /\ Apart(CodeSpans(s))
<1> PICK blocks : blocks = Spans(Fenced(s))
  OBVIOUS
<1> DEFINE inlineIn(g) == {<<a[1] + g[1] - 1, a[2] + g[1] - 1>> :
                              a \in Spans(Inline(SubSeq(s, g[1], g[2])))}
           Good(a) == /\ a[1] \in 1..Len(s) /\ a[2] \in 1..Len(s) /\ a[1] <= a[2]
                      /\ a = <<a[1], a[2]>> /\ s[a[1]].t = "tick" /\ s[a[2]].t = "tick"
<1>1. \A a \in CodeSpans(s) : a \in blocks \/ \E g \in Gaps(s, blocks) : a \in inlineIn(g)
  BY DEF CodeSpans
<1>2. /\ \A a \in blocks : Good(a)
      /\ Apart(blocks)
  <2>1. Ticked(Fenced(s), s) /\ Len(s) \in Nat
    BY FencedTicked, InText
  <2>2. Ends(Fenced(s), Len(s))
    BY <2>1 DEF Ticked
  <2>3. /\ \A a \in blocks : /\ a[1] \in 1..Len(s) /\ a[2] \in 1..Len(s) /\ a[1] <= a[2]
                             /\ Fenced(s)[a[1]] = a[2] /\ Fenced(s)[a[1]] # 0
                             /\ a = <<a[1], a[2]>>
        /\ \A a, b \in blocks : a # b => a[2] < b[1] \/ b[2] < a[1]
    BY <2>1, <2>2, SpansIs
  <2>4. QED BY <2>1, <2>3 DEF Ticked, Apart
\* inline code lies in its gap
<1>3. ASSUME NEW g \in Gaps(s, blocks)
      PROVE  /\ \A a \in inlineIn(g) : Good(a) /\ g[1] <= a[1] /\ a[2] <= g[2]
             /\ Apart(inlineIn(g))
  <2> PICK seg : seg = SubSeq(s, g[1], g[2])
    OBVIOUS
  <2> DEFINE N == g[2] - g[1] + 1
  <2>1. g[1] \in 1..Len(s) /\ g[2] \in 1..Len(s) /\ g[1] <= g[2] /\ Len(s) \in Nat
    BY GapsAre, InText
  <2>2. Text(seg) /\ Len(seg) = N /\ \A i \in 1..N : seg[i] = s[g[1] + i - 1]
    BY <2>1, PartIs
  <2>3. Ticked(Inline(seg), seg) /\ N \in Nat
    BY <2>1, <2>2, InlineTicked
  <2>4. Ends(Inline(seg), N)
    BY <2>2, <2>3 DEF Ticked
  <2>5. /\ \A a \in Spans(Inline(seg)) :
             /\ a[1] \in 1..N /\ a[2] \in 1..N /\ a[1] <= a[2]
             /\ Inline(seg)[a[1]] = a[2] /\ Inline(seg)[a[1]] # 0
        /\ \A a, b \in Spans(Inline(seg)) : a # b => a[2] < b[1] \/ b[2] < a[1]
    <3> HIDE DEF N
    <3>1. QED BY <2>3, <2>4, SpansIs
  <2>6. \A a \in Spans(Inline(seg)) : s[a[1] + g[1] - 1].t = "tick" /\ s[a[2] + g[1] - 1].t = "tick"
    <3> TAKE a \in Spans(Inline(seg))
    <3>1. seg[a[1]].t = "tick" /\ seg[a[2]].t = "tick"
      BY <2>2, <2>3, <2>5 DEF Ticked
    <3>2. g[1] + a[1] - 1 = a[1] + g[1] - 1 /\ g[1] + a[2] - 1 = a[2] + g[1] - 1
      BY <2>1, <2>5
    <3>3. QED BY <2>2, <2>5, <3>1, <3>2
  <2>7. \A b \in inlineIn(g) : \E a \in Spans(Inline(seg)) : b = <<a[1] + g[1] - 1, a[2] + g[1] - 1>>
    OBVIOUS
  <2>8. ASSUME NEW b \in inlineIn(g) PROVE Good(b) /\ g[1] <= b[1] /\ b[2] <= g[2]
    <3>1. PICK a \in Spans(Inline(seg)) : b = <<a[1] + g[1] - 1, a[2] + g[1] - 1>>
      BY <2>7
    <3>2. b[1] = a[1] + g[1] - 1 /\ b[2] = a[2] + g[1] - 1 /\ b = <<b[1], b[2]>>
      BY <3>1
    <3>3. /\ a[1] \in 1..N /\ a[2] \in 1..N /\ a[1] <= a[2]
          /\ g[1] \in 1..Len(s) /\ g[2] \in 1..Len(s) /\ Len(s) \in Nat
      BY <2>1, <2>5
    <3>4. /\ b[1] \in 1..Len(s) /\ b[2] \in 1..Len(s) /\ b[1] <= b[2]
          /\ g[1] <= b[1] /\ b[2] <= g[2]
      <4>1. \A k, l, v, w, n \in Nat :
              /\ 1 <= k /\ k <= w - v + 1 /\ 1 <= l /\ l <= w - v + 1 /\ k <= l
              /\ 1 <= v /\ w <= n
              => /\ 1 <= k + v - 1 /\ k + v - 1 <= n /\ 1 <= l + v - 1 /\ l + v - 1 <= n
                 /\ k + v - 1 <= l + v - 1 /\ v <= k + v - 1 /\ l + v - 1 <= w
        OBVIOUS
      <4>2. /\ a[1] \in Nat /\ 1 <= a[1] /\ a[1] <= g[2] - g[1] + 1
            /\ a[2] \in Nat /\ 1 <= a[2] /\ a[2] <= g[2] - g[1] + 1
            /\ g[1] \in Nat /\ g[2] \in Nat /\ 1 <= g[1] /\ g[2] <= Len(s)
        BY <3>3
      <4>3. /\ 1 <= b[1] /\ b[1] <= Len(s) /\ 1 <= b[2] /\ b[2] <= Len(s) /\ b[1] <= b[2]
            /\ g[1] <= b[1] /\ b[2] <= g[2]
        BY ONLY <3>2, <3>3, <4>1, <4>2
      <4>4. b[1] \in Int /\ b[2] \in Int
        BY ONLY <3>2, <4>2
      <4>5. QED BY ONLY <3>3, <4>3, <4>4
    <3>5. s[b[1]].t = "tick" /\ s[b[2]].t = "tick"
      BY <2>6, <3>2
    <3>6. QED BY <3>2, <3>4, <3>5
  <2>9. ASSUME NEW b \in inlineIn(g), NEW c \in inlineIn(g), b # c
        PROVE  b[2] < c[1] \/ c[2] < b[1]
    <3>1. PICK a \in Spans(Inline(seg)) : b = <<a[1] + g[1] - 1, a[2] + g[1] - 1>>
      BY <2>7
    <3>2. PICK d \in Spans(Inline(seg)) : c = <<d[1] + g[1] - 1, d[2] + g[1] - 1>>
      BY <2>7
    <3>3. a[2] < d[1] \/ d[2] < a[1]
      BY <2>5, <2>9, <3>1, <3>2
    <3>4. b[1] = a[1] + g[1] - 1 /\ b[2] = a[2] + g[1] - 1
      BY <3>1
    <3>5. c[1] = d[1] + g[1] - 1 /\ c[2] = d[2] + g[1] - 1
      BY <3>2
    <3>6. /\ a[1] \in Int /\ a[2] \in Int /\ d[1] \in Int /\ d[2] \in Int /\ g[1] \in Int
      BY <2>1, <2>5
    <3>7. QED BY <3>3, <3>4, <3>5, <3>6
  <2> HIDE DEF inlineIn, Good
  <2>10. QED BY <2>8, <2>9 DEF Apart
<1> HIDE DEF inlineIn
<1>4. \A a \in CodeSpans(s) : Good(a)
  <2> HIDE DEF Good
  <2>1. QED BY <1>1, <1>2, <1>3
<1>5. ASSUME NEW a \in blocks, NEW g \in Gaps(s, blocks), NEW b \in inlineIn(g)
      PROVE  a[2] < b[1] \/ b[2] < a[1]
  <2>1. /\ g[1] \in 1..Len(s) /\ g[2] \in 1..Len(s) /\ g[1] <= g[2]
        /\ \A i \in g[1]..g[2] : i \notin Covered(blocks)
    BY GapsAre
  <2>2. \A i \in a[1]..a[2] : i \in Covered(blocks)
    BY DEF Covered
  <2>3. Good(a) /\ Good(b) /\ g[1] <= b[1] /\ b[2] <= g[2]
    <3> HIDE DEF Good
    <3>1. QED BY <1>2, <1>3
  <2>4. SUFFICES ASSUME b[1] <= a[2], a[1] <= b[2] PROVE FALSE
    BY <2>3
  <2>5. CASE a[1] <= b[1]
    <3>1. b[1] \in a[1]..a[2] /\ b[1] \in g[1]..g[2]
      BY <2>1, <2>3, <2>4, <2>5
    <3>2. QED BY <2>1, <2>2, <3>1
  <2>6. CASE b[1] <= a[1]
    <3>1. a[1] \in a[1]..a[2] /\ a[1] \in g[1]..g[2]
      BY <2>1, <2>3, <2>4, <2>6
    <3>2. QED BY <2>1, <2>2, <3>1
  <2>7. QED BY <2>3, <2>5, <2>6
<1>6. ASSUME NEW g \in Gaps(s, blocks), NEW h \in Gaps(s, blocks), g # h,
             NEW a \in inlineIn(g), NEW b \in inlineIn(h)
      PROVE  a[2] < b[1] \/ b[2] < a[1]
  <2>1. g[2] < h[1] \/ h[2] < g[1]
    BY <1>6, GapsAre DEF Apart
  <2>2. /\ g[1] \in Int /\ g[2] \in Int /\ h[1] \in Int /\ h[2] \in Int
    BY GapsAre
  <2>3. Good(a) /\ Good(b) /\ g[1] <= a[1] /\ a[2] <= g[2] /\ h[1] <= b[1] /\ b[2] <= h[2]
    <3> HIDE DEF Good
    <3>1. QED BY <1>3
  <2>4. QED BY <2>1, <2>2, <2>3
<1>7. Apart(CodeSpans(s))
  <2>1. ASSUME NEW a \in CodeSpans(s), NEW b \in CodeSpans(s), a # b
        PROVE  a[2] < b[1] \/ b[2] < a[1]
    <3>1. CASE a \in blocks /\ b \in blocks
      BY <1>2, <2>1, <3>1 DEF Apart
    <3>2. CASE a \in blocks /\ \E g \in Gaps(s, blocks) : b \in inlineIn(g)
      BY <1>5, <3>2
    <3>3. CASE b \in blocks /\ \E g \in Gaps(s, blocks) : a \in inlineIn(g)
      BY <1>5, <3>3
    <3>4. ASSUME NEW g \in Gaps(s, blocks), NEW h \in Gaps(s, blocks),
                 a \in inlineIn(g), b \in inlineIn(h)
          PROVE  a[2] < b[1] \/ b[2] < a[1]
      <4>1. CASE g = h
        BY <1>3, <2>1, <3>4, <4>1 DEF Apart
      <4>2. CASE g # h
        BY <1>6, <3>4, <4>2
      <4>3. QED BY <4>1, <4>2
    <3>5. QED BY <1>1, <3>1, <3>2, <3>3, <3>4
  <2>2. QED BY <2>1 DEF Apart
<1>8. QED BY <1>4, <1>7

-----------------------------------------------------------------------------
(* strip_tool_syntax_in_visible *)

Parts(s) == CodeSpans(s) \cup Gaps(s, CodeSpans(s))

Made(s, p) ==
  LET part == SubSeq(s, p[1], p[2]) IN IF p \in CodeSpans(s) THEN part ELSE StripRaw(part)

EndAt(s, n) == {p \in Parts(s) : p[2] = n}

Piece(s, n) == IF EndAt(s, n) = {} THEN <<>> ELSE Made(s, CHOOSE p \in EndAt(s, n) : TRUE)

LEMMA PartsAre ==
  ASSUME NEW s, Text(s)
  PROVE  /\ \A p \in Parts(s) : p[1] \in 1..Len(s) /\ p[2] \in 1..Len(s) /\ p[1] <= p[2]
         /\ Apart(Parts(s))
<1> PICK code : code = CodeSpans(s)
  OBVIOUS
<1> PICK gaps : gaps = Gaps(s, code)
  OBVIOUS
<1>0. Parts(s) = code \cup gaps
  BY DEF Parts
<1>1. \A p \in code : p[1] \in 1..Len(s) /\ p[2] \in 1..Len(s) /\ p[1] <= p[2]
  BY CodeIs
<1>2. \A p \in gaps : /\ p[1] \in 1..Len(s) /\ p[2] \in 1..Len(s) /\ p[1] <= p[2]
                      /\ \A i \in p[1]..p[2] : i \notin Covered(code)
  BY GapsAre
<1>3. ASSUME NEW a \in code, NEW g \in gaps PROVE a[2] < g[1] \/ g[2] < a[1]
  <2>1. \A i \in a[1]..a[2] : i \in Covered(code)
    BY DEF Covered
  <2>2. /\ a[1] \in 1..Len(s) /\ a[2] \in 1..Len(s) /\ a[1] <= a[2]
        /\ g[1] \in 1..Len(s) /\ g[2] \in 1..Len(s) /\ g[1] <= g[2]
    BY <1>1, <1>2
  <2>3. CASE a[1] <= g[1]
    <3>1. SUFFICES ASSUME g[1] <= a[2] PROVE FALSE
      BY <2>2
    <3>2. g[1] \in a[1]..a[2] /\ g[1] \in g[1]..g[2]
      BY <2>2, <2>3, <3>1
    <3>3. QED BY <1>2, <2>1, <3>2
  <2>4. CASE g[1] <= a[1]
    <3>1. SUFFICES ASSUME a[1] <= g[2] PROVE FALSE
      BY <2>2
    <3>2. a[1] \in a[1]..a[2] /\ a[1] \in g[1]..g[2]
      BY <2>2, <2>4, <3>1
    <3>3. QED BY <1>2, <2>1, <3>2
  <2>5. QED BY <2>2, <2>3, <2>4
<1>4. Apart(code) /\ Apart(gaps)
  BY CodeIs, GapsAre
<1>5. Apart(Parts(s))
  <2>1. ASSUME NEW p \in Parts(s), NEW q \in Parts(s), p # q PROVE p[2] < q[1] \/ q[2] < p[1]
    <3>1. CASE p \in code /\ q \in code
      BY <1>4, <2>1, <3>1 DEF Apart
    <3>2. CASE p \in gaps /\ q \in gaps
      BY <1>4, <2>1, <3>2 DEF Apart
    <3>3. CASE p \in code /\ q \in gaps
      BY <1>3, <3>3
    <3>4. CASE p \in gaps /\ q \in code
      BY <1>3, <3>4
    <3>5. QED BY <1>0, <3>1, <3>2, <3>3, <3>4
  <2>2. QED BY <2>1 DEF Apart
<1>6. QED BY <1>0, <1>1, <1>2, <1>5

LEMMA MadeIs ==
  ASSUME NEW s, Text(s), NEW p \in Parts(s)
  PROVE  /\ Text(Made(s, p))
         /\ \A m \in Ms(Made(s, p)) : \E i \in p[1]..p[2] : m = s[i]
         /\ p \in CodeSpans(s) => \A i \in p[1]..p[2] : s[i] \in Ms(Made(s, p))
         /\ p \notin CodeSpans(s) => Inert(Ms(Made(s, p)))
<1> PICK part : part = SubSeq(s, p[1], p[2])
  OBVIOUS
<1>1. p[1] \in 1..Len(s) /\ p[2] \in 1..Len(s) /\ p[1] <= p[2]
  BY PartsAre
<1>2. Text(part) /\ \A m : m \in Ms(part) <=> \E i \in p[1]..p[2] : m = s[i]
  BY <1>1, PartIs
<1>3. CASE p \in CodeSpans(s)
  <2>1. Made(s, p) = part
    BY <1>3 DEF Made
  <2>2. QED BY <1>2, <1>3, <2>1
<1>4. CASE p \notin CodeSpans(s)
  <2>1. Made(s, p) = StripRaw(part)
    BY <1>4 DEF Made
  <2>2. Text(StripRaw(part)) /\ Ms(StripRaw(part)) \subseteq Ms(part) /\ Inert(Ms(StripRaw(part)))
    BY <1>2, StripRawIs
  <2>3. QED BY <1>2, <1>4, <2>1, <2>2
<1>5. QED BY <1>3, <1>4

LEMMA PieceIs ==
  ASSUME NEW s, Text(s), NEW n \in 1..Len(s)
  PROVE  /\ Text(Piece(s, n))
         /\ \/ Piece(s, n) = <<>> /\ \A p \in Parts(s) : p[2] # n
            \/ \E p \in Parts(s) : /\ p[2] = n /\ Piece(s, n) = Made(s, p)
                                   /\ \A q \in Parts(s) : q[2] = n => q = p
<1>1. CASE EndAt(s, n) = {}
  <2>1. Piece(s, n) = <<>> /\ \A p \in Parts(s) : p[2] # n
    BY <1>1 DEF Piece, EndAt
  <2>2. Text(<<>>)
    BY DEF Text, Rising
  <2>3. QED BY <2>1, <2>2
<1>2. CASE EndAt(s, n) # {}
  <2> PICK p : p = CHOOSE q \in EndAt(s, n) : TRUE
    OBVIOUS
  <2>1. p \in EndAt(s, n) /\ Piece(s, n) = Made(s, p)
    BY <1>2 DEF Piece
  <2>2. p \in Parts(s) /\ p[2] = n
    BY <2>1 DEF EndAt
  <2>3. ASSUME NEW q \in Parts(s), q[2] = n PROVE q = p
    <3>1. /\ p[1] \in 1..Len(s) /\ p[1] <= p[2] /\ q[1] \in 1..Len(s) /\ q[1] <= q[2]
          /\ q # p => q[2] < p[1] \/ p[2] < q[1]
      BY <2>2, PartsAre DEF Apart
    <3>2. QED BY <2>2, <2>3, <3>1
  <2>4. Text(Made(s, p))
    BY <2>2, MadeIs
  <2>5. QED BY <2>1, <2>2, <2>3, <2>4
<1>3. QED BY <1>1, <1>2

JoinsBy(upto, s) ==
  /\ upto[0] = <<>>
  /\ \A n \in 1..Len(s) : upto[n] = upto[n - 1] \o Piece(s, n)
  /\ StripVisible(s) = Trim(upto[Len(s)])

LEMMA VisibleUnfold ==
  ASSUME NEW s, Text(s)
  PROVE  \E upto \in [0..Len(s) -> Seq(Mark)] : JoinsBy(upto, s)
<1> DEFINE N == Len(s)
           A == Seq(Mark)
           b == <<>>
           code == CodeSpans(s)
           made(p) == LET part == SubSeq(s, p[1], p[2])
                      IN IF p \in code THEN part ELSE StripRaw(part)
           endAt(n) == {p \in code \cup Gaps(s, code) : p[2] = n}
           piece(n) == IF endAt(n) = {} THEN <<>> ELSE made(CHOOSE p \in endAt(n) : TRUE)
           Body(f) == [n \in 0..N |-> IF n = 0 THEN <<>> ELSE f[n - 1] \o piece(n)]
           last == CHOOSE f : f = Body(f)
           step == [n \in 1..N |-> [r \in A |-> r \o piece(n)]]
<1>0. N \in Nat /\ b \in A
  BY InText
<1>1. StripVisible(s) = Trim(last[N])
  BY DEF StripVisible
<1>2. \A n : piece(n) = Piece(s, n)
  BY DEF Piece, EndAt, Made, Parts
<1> HIDE DEF piece
<1>3. \A n \in 1..N : piece(n) \in A
  BY <1>2, PieceIs DEF Text
<1>4. \E f \in [0..N -> A] : f[0] = b /\ \A n \in 1..N : f[n] = step[n][f[n - 1]]
  <2>1. step \in [1..N -> [A -> A]]
    <3>1. \A n \in 1..N, r \in A : r \o piece(n) \in A
      BY <1>3
    <3>2. QED BY <3>1
  <2> HIDE DEF step, A, b, N
  <2>2. QED BY ONLY <1>0, <2>1, Recursion
<1>5. PICK f \in [0..N -> A] : f[0] = b /\ \A n \in 1..N : f[n] = step[n][f[n - 1]]
  BY <1>4
<1>6. \A n \in 1..N : f[n - 1] \in A
  BY <1>0
<1>7. \A n \in 1..N : f[n] = f[n - 1] \o piece(n)
  BY <1>5, <1>6
<1>8. f = Body(f)
  <2>1. \A n \in 0..N : n # 0 => n \in 1..N
    BY <1>0
  <2>2. \A n \in 0..N : f[n] = Body(f)[n]
    BY <1>5, <1>7, <2>1
  <2> HIDE DEF Body
  <2>3. f = [n \in 0..N |-> f[n]]
    OBVIOUS
  <2>4. Body(f) = [n \in 0..N |-> Body(f)[n]]
    BY DEF Body
  <2>5. QED BY <2>2, <2>3, <2>4
<1>9. last = Body(last)
  <2> HIDE DEF Body
  <2>1. QED BY <1>8
<1> HIDE DEF last
<1>10. /\ last[0] = <<>>
       /\ \A n \in 1..N : last[n] = last[n - 1] \o piece(n)
  <2>1. \A n \in 0..N : last[n] = Body(last)[n]
    BY <1>9
  <2>2. 0 \in 0..N /\ \A n \in 1..N : n \in 0..N /\ n # 0
    BY <1>0
  <2>3. QED BY <2>1, <2>2
<1>11. last \in [0..N -> A]
  <2>1. DOMAIN last = 0..N /\ last = [n \in 0..N |-> last[n]]
    BY <1>9
  <2> DEFINE S == {n \in Nat : n <= N => last[n] \in A}
  <2>2. 0 \in S
    BY <1>0, <1>10
  <2>3. ASSUME NEW n \in Nat, n \in S PROVE n + 1 \in S
    <3> SUFFICES ASSUME n + 1 <= N PROVE last[n + 1] \in A
      OBVIOUS
    <3>1. n + 1 \in 1..N /\ last[n] \in A /\ (n + 1) - 1 = n
      BY <1>0, <2>3
    <3>2. last[n + 1] = last[n] \o piece(n + 1)
      BY <1>10, <3>1
    <3>3. QED BY <1>3, <3>1, <3>2
  <2> HIDE DEF S
  <2>4. Nat \subseteq S
    BY <2>2, <2>3, Induction
  <2>5. \A n \in 0..N : last[n] \in A
    BY <2>4 DEF S
  <2>6. QED BY <2>1, <2>5
<1>12. JoinsBy(last, s)
  BY <1>1, <1>2, <1>10 DEF JoinsBy
<1>13. QED BY <1>11, <1>12

LEMMA JoinIs ==
  ASSUME NEW x, NEW y, Text(x), Text(y), \A m \in Ms(x), n \in Ms(y) : m.at < n.at
  PROVE  /\ Text(x \o y)
         /\ \A m : m \in Ms(x \o y) <=> m \in Ms(x) \/ m \in Ms(y)
<1> PICK r : r = x \o y
  OBVIOUS
<1>1. x \in Seq(Mark) /\ y \in Seq(Mark) /\ Len(x) \in Nat /\ Len(y) \in Nat
  BY InText
<1>2. /\ r \in Seq(Mark) /\ Len(r) = Len(x) + Len(y)
      /\ \A i \in 1..Len(x) : r[i] = x[i]
      /\ \A i \in 1..Len(y) : r[Len(x) + i] = y[i]
  BY <1>1
<1>3. /\ \A i \in 1..Len(x) : i \in 1..Len(r)
      /\ \A i \in 1..Len(y) : Len(x) + i \in 1..Len(r)
      /\ \A i \in 1..Len(r) : i \in 1..Len(x) \/ (i - Len(x) \in 1..Len(y) /\ Len(x) + (i - Len(x)) = i)
  BY <1>1, <1>2
<1>4. ASSUME NEW m PROVE m \in Ms(r) <=> m \in Ms(x) \/ m \in Ms(y)
  <2>1. ASSUME m \in Ms(r) PROVE m \in Ms(x) \/ m \in Ms(y)
    <3>1. PICK i \in 1..Len(r) : m = r[i]
      BY <2>1 DEF Ms
    <3>2. CASE i \in 1..Len(x)
      BY <1>2, <3>1, <3>2 DEF Ms
    <3>3. CASE i - Len(x) \in 1..Len(y) /\ Len(x) + (i - Len(x)) = i
      <4>1. r[i] = y[i - Len(x)]
        BY <1>2, <3>3
      <4>2. QED BY <3>1, <3>3, <4>1 DEF Ms
    <3>4. QED BY <1>3, <3>2, <3>3
  <2>2. ASSUME m \in Ms(x) PROVE m \in Ms(r)
    BY <1>2, <1>3, <2>2 DEF Ms
  <2>3. ASSUME m \in Ms(y) PROVE m \in Ms(r)
    <3>1. PICK i \in 1..Len(y) : m = y[i]
      BY <2>3 DEF Ms
    <3>2. r[Len(x) + i] = m /\ Len(x) + i \in 1..Len(r)
      BY <1>2, <1>3, <3>1
    <3>3. QED BY <3>2 DEF Ms
  <2>4. QED BY <2>1, <2>2, <2>3
<1>5. ASSUME NEW i \in 1..Len(r), NEW j \in 1..Len(r), i < j PROVE r[i].at < r[j].at
  <2>1. CASE i \in 1..Len(x) /\ j \in 1..Len(x)
    BY <1>2, <1>5, <2>1, InText
  <2>2. CASE i \in 1..Len(x) /\ j - Len(x) \in 1..Len(y) /\ Len(x) + (j - Len(x)) = j
    <3>1. r[i] \in Ms(x)
      BY <1>2, <2>2 DEF Ms
    <3>2. r[j] = y[j - Len(x)]
      BY <1>2, <2>2
    <3>3. r[j] \in Ms(y)
      BY <2>2, <3>2 DEF Ms
    <3>4. QED BY <3>1, <3>3
  <2>3. CASE /\ i - Len(x) \in 1..Len(y) /\ Len(x) + (i - Len(x)) = i
             /\ j - Len(x) \in 1..Len(y) /\ Len(x) + (j - Len(x)) = j
    <3>1. r[i] = y[i - Len(x)] /\ r[j] = y[j - Len(x)]
      BY <1>2, <2>3
    <3>2. i - Len(x) < j - Len(x)
      BY <1>1, <1>5
    <3> PICK h : h = i - Len(x)
      OBVIOUS
    <3> PICK k : k = j - Len(x)
      OBVIOUS
    <3>3. h \in 1..Len(y) /\ k \in 1..Len(y) /\ h < k
      BY <2>3, <3>2
    <3>4. y[h].at < y[k].at
      BY <3>3, InText
    <3>5. QED BY <3>1, <3>4
  <2>4. CASE j \in 1..Len(x) /\ i - Len(x) \in 1..Len(y)
    BY <1>1, <1>5, <2>4
  <2>5. QED BY <1>3, <2>1, <2>2, <2>3, <2>4
<1>6. QED BY <1>2, <1>4, <1>5 DEF Text, Rising

\* What is left is what is left of each part, before the ends are trimmed.
LEMMA JoinedIs ==
  ASSUME NEW s, Text(s)
  PROVE  \E t : /\ Text(t) /\ StripVisible(s) = Trim(t)
                /\ \A m : m \in Ms(t) <=> \E p \in Parts(s) : m \in Ms(Made(s, p))
<1>1. PICK upto \in [0..Len(s) -> Seq(Mark)] : JoinsBy(upto, s)
  BY VisibleUnfold
<1>2. /\ upto[0] = <<>>
      /\ \A n \in 1..Len(s) : upto[n] = upto[n - 1] \o Piece(s, n)
      /\ StripVisible(s) = Trim(upto[Len(s)])
  BY <1>1 DEF JoinsBy
<1> DEFINE N == Len(s)
           Left(m, n) == \E p \in Parts(s) : p[2] <= n /\ m \in Ms(Made(s, p))
           Holds(n) == Text(upto[n]) /\ \A m : m \in Ms(upto[n]) <=> Left(m, n)
           S == {n \in Nat : n <= N => Holds(n)}
<1>3. N \in Nat
  BY InText
<1>4. \A p \in Parts(s) : p[1] \in 1..N /\ p[2] \in 1..N /\ p[1] <= p[2]
  BY PartsAre
<1>5. Holds(0)
  <2>1. Text(upto[0]) /\ Ms(upto[0]) = {}
    BY <1>2 DEF Text, Rising, Ms
  <2>2. \A p \in Parts(s) : ~(p[2] <= 0)
    BY <1>4
  <2>3. QED BY <2>1, <2>2
<1>6. ASSUME NEW n \in Nat, n + 1 <= N, Holds(n) PROVE Holds(n + 1)
  <2>1. n + 1 \in 1..N /\ (n + 1) - 1 = n
    BY <1>3, <1>6
  <2>2. upto[n + 1] = upto[n] \o Piece(s, n + 1)
    BY <1>2, <2>1
  <2>3. \A p \in Parts(s) : p[2] <= n + 1 <=> p[2] <= n \/ p[2] = n + 1
    BY <1>4
  <2>4. Text(upto[n]) /\ Text(Piece(s, n + 1)) /\ upto[n] \in Seq(Mark)
    BY <1>6, <2>1, PieceIs DEF Text
  <2>5. CASE Piece(s, n + 1) = <<>> /\ \A p \in Parts(s) : p[2] # n + 1
    <3>1. upto[n + 1] = upto[n]
      <4>1. \A x \in Seq(Mark) : x \o <<>> = x
        OBVIOUS
      <4>2. QED BY <2>2, <2>4, <2>5, <4>1
    <3>2. \A m : Left(m, n + 1) <=> Left(m, n)
      BY <2>3, <2>5
    <3> HIDE DEF Left
    <3>3. QED BY <1>6, <3>1, <3>2
  <2>6. ASSUME NEW p \in Parts(s), p[2] = n + 1, Piece(s, n + 1) = Made(s, p),
               \A q \in Parts(s) : q[2] = n + 1 => q = p
        PROVE  Holds(n + 1)
    <3>1. \A m : Left(m, n + 1) <=> Left(m, n) \/ m \in Ms(Made(s, p))
      BY <2>3, <2>6
    <3>2. ASSUME NEW m \in Ms(upto[n]), NEW k \in Ms(Made(s, p)) PROVE m.at < k.at
      <4>1. PICK q \in Parts(s) : q[2] <= n /\ m \in Ms(Made(s, q))
        BY <1>6, <3>2
      <4>2. PICK h \in q[1]..q[2] : m = s[h]
        BY <4>1, MadeIs
      <4>3. PICK i \in p[1]..p[2] : k = s[i]
        BY <2>6, <3>2, MadeIs
      <4>4. q # p
        BY <2>6, <4>1
      <4>5. q[2] < p[1] \/ p[2] < q[1]
        BY <4>4, PartsAre DEF Apart
      <4>6. /\ p[1] \in 1..N /\ p[2] \in 1..N /\ p[1] <= p[2]
            /\ q[1] \in 1..N /\ q[2] \in 1..N /\ q[1] <= q[2]
        BY <1>4
      <4>7. q[2] < p[1]
        BY <2>6, <4>1, <4>5, <4>6
      <4>8. h < i /\ h \in 1..N /\ i \in 1..N
        BY <1>3, <4>6, <4>7
      <4>9. QED BY <4>2, <4>3, <4>8, InText
    <3>3. /\ Text(upto[n + 1])
          /\ \A m : m \in Ms(upto[n + 1]) <=> m \in Ms(upto[n]) \/ m \in Ms(Made(s, p))
      <4> PICK x : x = upto[n]
        OBVIOUS
      <4> PICK y : y = Made(s, p)
        OBVIOUS
      <4>1. Text(x) /\ Text(y) /\ upto[n + 1] = x \o y
        BY <2>2, <2>4, <2>6
      <4>2. \A m \in Ms(x), k \in Ms(y) : m.at < k.at
        BY <3>2
      <4>3. QED BY <4>1, <4>2, JoinIs
    <3> HIDE DEF Left
    <3>4. QED BY <1>6, <3>1, <3>3
  <2>7. QED BY <2>1, <2>5, <2>6, PieceIs
<1> HIDE DEF Holds
<1>7. 0 \in S /\ \A n \in Nat : n \in S => n + 1 \in S
  BY <1>5, <1>6
<1>8. Holds(N)
  <2>1. N \in S
    <3> HIDE DEF S
    <3>1. QED BY <1>3, <1>7, Induction
  <2>2. QED BY <1>3, <2>1
<1>9. \A m : Left(m, N) <=> \E p \in Parts(s) : m \in Ms(Made(s, p))
  BY <1>4
<1> HIDE DEF Left
<1>10. Text(upto[N]) /\ \A m : m \in Ms(upto[N]) <=> \E p \in Parts(s) : m \in Ms(Made(s, p))
  BY <1>8, <1>9 DEF Holds
<1>11. QED BY <1>2, <1>10

LEMMA VisibleIs ==
  ASSUME NEW s, Text(s)
  PROVE  /\ Text(StripVisible(s)) /\ Ms(StripVisible(s)) \subseteq Ms(s)
         /\ \A i \in Covered(CodeSpans(s)) : i \in 1..Len(s) /\ s[i] \in Ms(StripVisible(s))
<1>1. PICK t : /\ Text(t) /\ StripVisible(s) = Trim(t)
               /\ \A m : m \in Ms(t) <=> \E p \in Parts(s) : m \in Ms(Made(s, p))
  BY JoinedIs
<1>2. Text(Trim(t)) /\ Ms(Trim(t)) \subseteq Ms(t)
  BY <1>1, TrimIs
<1>3. Ms(t) \subseteq Ms(s)
  <2>1. ASSUME NEW m \in Ms(t) PROVE m \in Ms(s)
    <3>1. PICK p \in Parts(s) : m \in Ms(Made(s, p))
      BY <1>1
    <3>2. PICK i \in p[1]..p[2] : m = s[i]
      BY <3>1, MadeIs
    <3>3. p[1] \in 1..Len(s) /\ p[2] \in 1..Len(s) /\ Len(s) \in Nat
      BY PartsAre, InText
    <3>4. i \in 1..Len(s)
      BY <3>3
    <3>5. QED BY <3>2, <3>4, InText
  <2>2. QED BY <2>1
<1>4. ASSUME NEW i \in Covered(CodeSpans(s)) PROVE i \in 1..Len(s) /\ s[i] \in Ms(Trim(t))
  <2>1. PICK a \in CodeSpans(s) : i \in a[1]..a[2]
    BY <1>4 DEF Covered
  <2>2. /\ a[1] \in 1..Len(s) /\ a[2] \in 1..Len(s) /\ a[1] <= a[2]
        /\ s[a[1]].t = "tick" /\ s[a[2]].t = "tick"
    BY CodeIs
  <2>3. i \in 1..Len(s) /\ a[1] <= i /\ i <= a[2]
    BY <2>1, <2>2, InText
  <2>4. \A k \in a[1]..a[2] : s[k] \in Ms(t)
    <3>1. a \in Parts(s)
      BY DEF Parts
    <3>2. \A k \in a[1]..a[2] : s[k] \in Ms(Made(s, a))
      BY <3>1, MadeIs
    <3>3. QED BY <1>1, <3>1, <3>2
  <2>5. a[1] \in a[1]..a[2] /\ a[2] \in a[1]..a[2]
    BY <2>2
  <2>6. PICK h \in 1..Len(t) : t[h] = s[a[1]]
    BY <1>1, <2>4, <2>5, InText
  <2>7. PICK j \in 1..Len(t) : t[j] = s[i]
    BY <1>1, <2>1, <2>4, InText
  <2>8. PICK k \in 1..Len(t) : t[k] = s[a[2]]
    BY <1>1, <2>4, <2>5, InText
  <2>9. h <= j
    <3>1. t[h].at <= t[j].at /\ t[h].at \in Nat /\ t[j].at \in Nat
      <4>1. CASE a[1] = i
        BY <1>1, <2>6, <2>7, <4>1, InText
      <4>2. CASE a[1] < i
        BY <1>1, <2>2, <2>3, <2>6, <2>7, <4>2, InText
      <4>3. QED BY <2>2, <2>3, <4>1, <4>2
    <3>2. ~(t[j].at < t[h].at)
      BY <3>1
    <3>3. ~(j < h)
      BY <1>1, <3>2, InText
    <3>4. QED BY <3>3
  <2>10. j <= k
    <3>1. t[j].at <= t[k].at /\ t[j].at \in Nat /\ t[k].at \in Nat
      <4>1. CASE a[2] = i
        BY <1>1, <2>7, <2>8, <4>1, InText
      <4>2. CASE i < a[2]
        BY <1>1, <2>2, <2>3, <2>7, <2>8, <4>2, InText
      <4>3. QED BY <2>2, <2>3, <4>1, <4>2
    <3>2. ~(t[k].at < t[j].at)
      BY <3>1
    <3>3. ~(k < j)
      BY <1>1, <3>2, InText
    <3>4. QED BY <3>3
  <2>11. t[h].t # "nl" /\ t[k].t # "nl"
    BY <2>2, <2>6, <2>8
  <2>12. t[j] \in Ms(Trim(t))
    BY <1>1, <2>9, <2>10, <2>11, TrimIs
  <2>13. QED BY <2>3, <2>7, <2>12
<1>5. QED BY <1>1, <1>2, <1>3, <1>4

\* What of it is not code comes from one gap, with nothing left there that is a call.
LEMMA NotCode ==
  ASSUME NEW s, Text(s), NEW m \in Ms(StripVisible(s)),
         m \notin {s[i] : i \in Covered(CodeSpans(s))}
  PROVE  \E g \in Gaps(s, CodeSpans(s)) :
           /\ g \notin CodeSpans(s) /\ g \in Parts(s) /\ m \in Ms(Made(s, g))
           /\ \E i \in g[1]..g[2] : m = s[i]
<1>1. PICK t : /\ Text(t) /\ StripVisible(s) = Trim(t)
               /\ \A n : n \in Ms(t) <=> \E p \in Parts(s) : n \in Ms(Made(s, p))
  BY JoinedIs
<1>2. m \in Ms(t)
  BY <1>1, TrimIs
<1>3. PICK p \in Parts(s) : m \in Ms(Made(s, p))
  BY <1>1, <1>2
<1>4. PICK i \in p[1]..p[2] : m = s[i]
  BY <1>3, MadeIs
<1>5. p \notin CodeSpans(s)
  <2>1. SUFFICES ASSUME p \in CodeSpans(s) PROVE FALSE
    OBVIOUS
  <2>2. i \in Covered(CodeSpans(s))
    BY <2>1 DEF Covered
  <2>3. QED BY <1>4, <2>2
<1>6. p \in Gaps(s, CodeSpans(s))
  BY <1>5 DEF Parts
<1>7. QED BY <1>3, <1>4, <1>5, <1>6

LEMMA VisibleCleaned ==
  ASSUME NEW s, Text(s)
  PROVE  Cleaned(s, StripVisible(s))
<1> PICK out : out = StripVisible(s)
  OBVIOUS
<1> PICK code : code = {s[i] : i \in Covered(CodeSpans(s))}
  OBVIOUS
<1>1. /\ Text(out) /\ Ms(out) \subseteq Ms(s)
      /\ \A i \in Covered(CodeSpans(s)) : i \in 1..Len(s) /\ s[i] \in Ms(out)
  BY VisibleIs
<1>2. DOMAIN out = 1..Len(out)
  BY <1>1, InText
<1>3. ASSUME NEW i \in 1..Len(out), out[i].t \in {"cmdopen", "pass"} PROVE out[i] \in code
  <2>1. SUFFICES ASSUME out[i] \notin code PROVE FALSE
    OBVIOUS
  <2>2. out[i] \in Ms(out)
    BY <1>1, InText
  <2>3. PICK g \in Gaps(s, CodeSpans(s)) :
          g \notin CodeSpans(s) /\ g \in Parts(s) /\ out[i] \in Ms(Made(s, g))
    BY <2>1, <2>2, NotCode
  <2>4. Inert(Ms(Made(s, g)))
    BY <2>3, MadeIs
  <2>5. QED BY <1>3, <2>3, <2>4 DEF Inert
<1>4. ASSUME NEW i \in 1..Len(out), NEW j \in 1..Len(out), i < j,
             out[i].t \in {"xopen", "xbare"}, out[j].t = "xclose"
      PROVE  \E k \in i..j : out[k] \in code
  <2> DEFINE Between == \E k \in i..j : out[k] \in code
  <2>1. CASE out[i] \in code \/ out[j] \in code
    BY <1>4, <2>1
  <2>2. CASE out[i] \notin code /\ out[j] \notin code
    <3>1. out[i] \in Ms(out) /\ out[j] \in Ms(out) /\ out[i].at < out[j].at
      BY <1>1, <1>4, InText
    <3>2. PICK g \in Gaps(s, CodeSpans(s)) :
            /\ g \notin CodeSpans(s) /\ g \in Parts(s) /\ out[i] \in Ms(Made(s, g))
            /\ \E p \in g[1]..g[2] : out[i] = s[p]
      BY <2>2, <3>1, NotCode
    <3>3. PICK h \in Gaps(s, CodeSpans(s)) :
            /\ h \notin CodeSpans(s) /\ h \in Parts(s) /\ out[j] \in Ms(Made(s, h))
            /\ \E q \in h[1]..h[2] : out[j] = s[q]
      BY <2>2, <3>1, NotCode
    <3>4. PICK p \in g[1]..g[2] : out[i] = s[p]
      BY <3>2
    <3>5. PICK q \in h[1]..h[2] : out[j] = s[q]
      BY <3>3
    <3>6. /\ g[1] \in 1..Len(s) /\ g[2] \in 1..Len(s) /\ g[1] <= g[2]
          /\ h[1] \in 1..Len(s) /\ h[2] \in 1..Len(s) /\ h[1] <= h[2] /\ Len(s) \in Nat
      BY GapsAre, InText
    <3>7. p \in 1..Len(s) /\ q \in 1..Len(s)
      BY <3>6
    <3>8. p < q
      BY <3>1, <3>4, <3>5, <3>7, InText
    <3>9. g # h
      <4>1. SUFFICES ASSUME g = h PROVE FALSE
        OBVIOUS
      <4>2. Inert(Ms(Made(s, g))) /\ out[i] \in Ms(Made(s, g)) /\ out[j] \in Ms(Made(s, g))
        BY <3>2, <3>3, <4>1, MadeIs
      <4>3. QED BY <1>4, <3>1, <4>2 DEF Inert
    <3>10. g[1] <= h[1]
      <4>1. g[2] < h[1] \/ h[2] < g[1]
        BY <3>9, GapsAre DEF Apart
      <4>2. QED BY <3>6, <3>8, <4>1
    <3> PICK c : c = g[2] + 1
      OBVIOUS
    <3>11. c < h[1] /\ c \in Covered(CodeSpans(s)) /\ c \in 1..Len(s)
      BY <3>9, <3>10, GapsAre
    <3>12. p < c /\ c < q
      BY <3>6, <3>11
    <3>13. PICK k \in 1..Len(out) : out[k] = s[c]
      <4>1. s[c] \in Ms(out)
        BY <1>1, <3>11
      <4>2. QED BY <4>1 DEF Ms
    <3>14. out[i].at < out[k].at /\ out[k].at < out[j].at
      BY <3>4, <3>5, <3>7, <3>11, <3>12, <3>13, InText
    <3>15. i < k /\ k < j
      BY <1>1, <3>14, InText
    <3>16. k \in i..j /\ out[k] \in code
      BY <3>11, <3>13, <3>15
    <3>17. QED BY <3>16
  <2>3. QED BY <2>1, <2>2
<1>5. QED BY <1>2, <1>3, <1>4 DEF Cleaned

-----------------------------------------------------------------------------
(* strip_code_blocks_for_tool_matching *)

\* Every mark that is left stands outside the examples.
LEMMA CodeGone ==
  ASSUME NEW s, Text(s)
  PROVE  /\ Text(StripCode(s)) /\ Ms(StripCode(s)) \subseteq Ms(s)
         /\ \A i \in InExample(s) : i \in 1..Len(s) /\ s[i] \notin Ms(StripCode(s))
<1> PICK out : out = Without(s, Fenced(s))
  OBVIOUS
<1>1. Ends(Fenced(s), Len(s)) /\ Ends(Inline(s), Len(s))
  BY FencedTicked, InlineTicked DEF Ticked
<1>2. Text(out) /\ Ms(out) \subseteq Ms(s)
  BY <1>1, WithoutIs
<1>3. Ends(Inline(out), Len(out))
  BY <1>2, InlineTicked DEF Ticked
<1>4. StripCode(s) = Without(out, Inline(out))
  BY DEF StripCode
<1>5. Text(StripCode(s)) /\ Ms(StripCode(s)) \subseteq Ms(out)
  BY <1>2, <1>3, <1>4, WithoutIs
<1>6. Covered(Spans(Fenced(s))) \subseteq 1..Len(s) /\ Covered(Spans(Inline(s))) \subseteq 1..Len(s)
  <2>1. Len(s) \in Nat
    BY InText
  <2>2. QED BY <1>1, <2>1, SpansIs
<1>7. ASSUME NEW i \in InExample(s) PROVE i \in 1..Len(s) /\ s[i] \notin Ms(StripCode(s))
  <2>1. CASE Spans(Fenced(s)) # {}
    <3>1. i \in Covered(Spans(Fenced(s))) /\ i \in 1..Len(s)
      BY <1>6, <1>7, <2>1 DEF InExample
    <3>2. s[i] \notin Ms(out)
      BY <1>1, <3>1, WithoutIs
    <3>3. QED BY <1>5, <3>1, <3>2
  <2>2. CASE Spans(Fenced(s)) = {}
    <3>1. i \in Covered(Spans(Inline(s))) /\ i \in 1..Len(s)
      BY <1>6, <1>7, <2>2 DEF InExample
    <3>2. \A j \in 1..Len(s) : Fenced(s)[j] = 0
      <4>1. Len(s) \in Nat
        BY InText
      <4>2. \A j \in 1..Len(s) : Fenced(s)[j] # 0 => j \in Covered(Spans(Fenced(s)))
        BY <1>1, <4>1, SpansIs
      <4>3. QED BY <2>2, <4>2 DEF Covered
    <3>3. out = s
      BY <1>1, <3>2, WithoutNone
    <3>4. StripCode(s) = Without(s, Inline(s))
      BY <1>4, <3>3
    <3>5. QED BY <1>1, <3>1, <3>4, WithoutIs
  <2>3. QED BY <2>1, <2>2
<1>8. QED BY <1>2, <1>5, <1>7

-----------------------------------------------------------------------------
(* Calls *)

LEMMA InOrderIs ==
  ASSUME NEW n \in Nat, NEW spans
  PROVE  /\ DOMAIN InOrder(spans, n) = 1..Len(InOrder(spans, n))
         /\ Len(InOrder(spans, n)) \in Nat
         /\ \A k \in 1..Len(InOrder(spans, n)) : InOrder(spans, n)[k] \in spans
<1> DEFINE all == [i \in 1..n |-> i]
           places == {a[1] : a \in spans}
<1> PICK starts : starts = Pick(all, places)
  OBVIOUS
<1>1. all \in Seq(1..n) /\ Len(all) = n /\ \A i \in 1..n : all[i] = i
  OBVIOUS
<1>2. /\ starts \in Seq(1..n)
      /\ \A k \in 1..Len(starts) : \E i \in 1..n : i \in places /\ starts[k] = i
  <2>1. starts \in Seq(1..n) /\ Keeps(starts, all, places)
    <3> HIDE DEF all, places
    <3>1. QED BY <1>1, PickIs
  <2> HIDE DEF places
  <2>2. QED BY <1>1, <2>1 DEF Keeps
<1>3. InOrder(spans, n) = [k \in 1..Len(starts) |-> CHOOSE a \in spans : a[1] = starts[k]]
  BY DEF InOrder
<1>4. Len(starts) \in Nat
  BY <1>2
<1>5. ASSUME NEW k \in 1..Len(starts) PROVE (CHOOSE a \in spans : a[1] = starts[k]) \in spans
  <2>1. starts[k] \in places
    BY <1>2
  <2>2. \E a \in spans : a[1] = starts[k]
    BY <2>1
  <2>3. QED BY <2>2
<1>6. Len(InOrder(spans, n)) = Len(starts)
  BY <1>3, <1>4
<1>7. QED BY <1>3, <1>4, <1>5, <1>6

LEMMA CallSpans ==
  ASSUME NEW s, Text(s), NEW a \in XmlSpans(s) \cup CmdSpans(s)
  PROVE  /\ a[1] \in 1..Len(s) /\ a[2] \in 1..Len(s) /\ a[1] <= a[2]
         /\ s[a[1]].t \in {"xopen", "cmdopen"}
         /\ a \in XmlSpans(s) => s[a[1]].t = "xopen" /\ s[a[2]].t = "xclose" /\ a[1] < a[2]
<1>1. Len(s) \in Nat /\ DOMAIN s = 1..Len(s)
  BY InText
<1>2. CASE a \in XmlSpans(s)
  <2> DEFINE end == Pair(s, {"xopen"}, {"xclose"})
  <2>1. Ends(end, Len(s)) /\ \A i \in 1..Len(s) : end[i] # 0 => s[i].t \in {"xopen"}
    BY PairEnds
  <2>2. /\ a[1] \in 1..Len(s) /\ a[2] \in 1..Len(s) /\ a[1] <= a[2]
        /\ end[a[1]] = a[2] /\ end[a[1]] # 0
    <3> HIDE DEF end
    <3>1. a \in Spans(Pair(s, {"xopen"}, {"xclose"}))
      BY <1>2 DEF XmlSpans
    <3>2. a \in Spans(end)
      BY <3>1 DEF end
    <3>3. QED BY <1>1, <2>1, <3>2, SpansIs
  <2>3. s[a[1]].t = "xopen"
    BY <2>1, <2>2
  <2>4. a[2] = After(s, a[1], {"xclose"})
    BY <1>1, <2>2, <2>3 DEF Pair
  <2>5. a[1] < a[2] /\ s[a[2]].t \in {"xclose"}
    BY <1>1, <2>2, <2>4, AfterIs
  <2>6. QED BY <2>2, <2>3, <2>5
<1>3. CASE a \notin XmlSpans(s)
  <2> DEFINE end == Pair(s, {"cmdopen"}, {"cmdend"})
  <2>1. Ends(end, Len(s)) /\ \A i \in 1..Len(s) : end[i] # 0 => s[i].t \in {"cmdopen"}
    BY PairEnds
  <2>2. /\ a[1] \in 1..Len(s) /\ a[2] \in 1..Len(s) /\ a[1] <= a[2]
        /\ end[a[1]] = a[2] /\ end[a[1]] # 0
    <3>1. a \in Spans(end)
      BY <1>3 DEF CmdSpans
    <3> HIDE DEF end
    <3>2. QED BY <1>1, <2>1, <3>1, SpansIs
  <2>3. QED BY <1>3, <2>1, <2>2
<1>4. QED BY <1>2, <1>3

\* Every call stands at a mark of the text, a tag that opens a call.
LEMMA ParseIs ==
  ASSUME NEW s, Text(s)
  PROVE  \A k \in DOMAIN Parse(s) : \E m \in Ms(s) :
           Parse(s)[k].at = m.at /\ m.t \in {"xopen", "cmdopen"}
<1> PICK spans : spans = XmlSpans(s) \cup CmdSpans(s)
  OBVIOUS
<1> PICK order : order = InOrder(spans, Len(s))
  OBVIOUS
<1>1. Len(s) \in Nat
  BY InText
<1>2. \A k \in 1..Len(order) : order[k] \in spans
  BY <1>1, InOrderIs
<1>3. Parse(s) = [k \in 1..Len(order) |-> CallOf(s, order[k])]
  BY DEF Parse
<1>4. ASSUME NEW k \in 1..Len(order)
      PROVE  \E m \in Ms(s) : Parse(s)[k].at = m.at /\ m.t \in {"xopen", "cmdopen"}
  <2> PICK a : a = order[k]
    OBVIOUS
  <2>1. a[1] \in 1..Len(s) /\ s[a[1]].t \in {"xopen", "cmdopen"}
    BY <1>2, CallSpans
  <2>2. Parse(s)[k].at = s[a[1]].at
    BY <1>3 DEF CallOf
  <2>3. QED BY <2>1, <2>2, InText
<1>5. QED BY <1>3, <1>4

\* Where nothing is a call none is matched.
LEMMA ParseNone ==
  ASSUME NEW s, Text(s), Inert(Ms(s))
  PROVE  Parse(s) = <<>>
<1> PICK spans : spans = XmlSpans(s) \cup CmdSpans(s)
  OBVIOUS
<1> PICK order : order = InOrder(spans, Len(s))
  OBVIOUS
<1>1. spans = {}
  <2>1. ASSUME NEW a \in spans PROVE FALSE
    <3>1. /\ a[1] \in 1..Len(s) /\ a[2] \in 1..Len(s)
          /\ s[a[1]].t \in {"xopen", "cmdopen"}
          /\ a \in XmlSpans(s) => s[a[1]].t = "xopen" /\ s[a[2]].t = "xclose" /\ a[1] < a[2]
      BY CallSpans
    <3>2. s[a[1]] \in Ms(s) /\ s[a[2]] \in Ms(s)
      BY <3>1, InText
    <3>3. s[a[1]].t = "xopen"
      BY <3>1, <3>2 DEF Inert
    <3>4. CASE a \in XmlSpans(s)
      <4>1. s[a[1]].at < s[a[2]].at
        BY <3>1, <3>4, InText
      <4>2. QED BY <3>1, <3>2, <3>4, <4>1 DEF Inert
    <3>5. CASE a \in CmdSpans(s)
      <4>1. Ends(Pair(s, {"cmdopen"}, {"cmdend"}), Len(s)) /\ Len(s) \in Nat
        BY PairEnds, InText
      <4>2. Pair(s, {"cmdopen"}, {"cmdend"})[a[1]] # 0
        BY <3>5, <4>1, SpansIs DEF CmdSpans
      <4>3. s[a[1]].t \in {"cmdopen"}
        BY <3>1, <4>2, PairEnds
      <4>4. QED BY <3>3, <4>3
    <3>6. QED BY <3>4, <3>5
  <2>2. QED BY <2>1
<1>2. Len(s) \in Nat
  BY InText
<1>3. Len(order) = 0
  <2>1. Len(order) \in Nat /\ \A k \in 1..Len(order) : order[k] \in spans
    BY <1>2, InOrderIs
  <2>2. ASSUME Len(order) # 0 PROVE FALSE
    <3>1. 1 \in 1..Len(order)
      BY <2>1, <2>2
    <3>2. order[1] \in spans
      BY <2>1, <3>1
    <3>3. QED BY <1>1, <3>2
  <2>3. QED BY <2>2
<1>4. Parse(s) = [k \in 1..Len(order) |-> CallOf(s, order[k])]
  BY DEF Parse
<1>5. QED BY <1>3, <1>4

\* What is shown of a text is as inert as a part between code, when no tick is left.
LEMMA NoTickInert ==
  ASSUME NEW s, Text(s), \A m \in Ms(StripVisible(s)) : m.t # "tick"
  PROVE  Inert(Ms(StripVisible(s)))
<1> PICK out : out = StripVisible(s)
  OBVIOUS
<1>1. CodeSpans(s) = {}
  <2>1. ASSUME NEW a \in CodeSpans(s) PROVE FALSE
    <3>1. a[1] \in 1..Len(s) /\ a[2] \in 1..Len(s) /\ a[1] <= a[2] /\ s[a[1]].t = "tick"
      BY CodeIs
    <3>2. a[1] \in a[1]..a[2]
      BY <3>1
    <3>3. a[1] \in Covered(CodeSpans(s))
      BY <3>2 DEF Covered
    <3>4. s[a[1]] \in Ms(out)
      BY <3>3, VisibleIs
    <3>5. QED BY <3>1, <3>4
  <2>2. QED BY <2>1
<1>2. {s[i] : i \in Covered(CodeSpans(s))} = {}
  BY <1>1 DEF Covered
<1>3. Text(out) /\ Cleaned(s, out)
  BY VisibleIs, VisibleCleaned
<1>4. /\ \A i \in 1..Len(out) : out[i].t \notin {"cmdopen", "pass"}
      /\ \A i, j \in 1..Len(out) :
           ~(i < j /\ out[i].t \in {"xopen", "xbare"} /\ out[j].t = "xclose")
  <2>1. DOMAIN out = 1..Len(out)
    BY <1>3, InText
  <2>2. QED BY <1>2, <1>3, <2>1 DEF Cleaned
<1>5. \A m \in Ms(out) : m.t \notin {"cmdopen", "pass"}
  BY <1>4 DEF Ms
<1>6. ASSUME NEW m \in Ms(out), NEW n \in Ms(out), m.t \in {"xopen", "xbare"}, n.t = "xclose",
             m.at < n.at
      PROVE  FALSE
  <2>1. PICK i \in 1..Len(out) : m = out[i]
    BY DEF Ms
  <2>2. PICK j \in 1..Len(out) : n = out[j]
    BY DEF Ms
  <2>3. i < j
    BY <1>3, <1>6, <2>1, <2>2, InText
  <2>4. QED BY <1>4, <1>6, <2>1, <2>2, <2>3
<1>7. QED BY <1>5, <1>6 DEF Inert

-----------------------------------------------------------------------------
(* The row of the calls *)

-----------------------------------------------------------------------------
(* The row of the calls *)

Plain == {m \in Mark : m.t \notin {"think", "unthink"}}

LEMMA MarkedIs ==
  ASSUME NEW tokens \in Seq(Token)
  PROVE  /\ Text(Marked(tokens))
         /\ \A m \in Ms(Marked(tokens)) : \E i \in 1..Len(tokens) : m.t = tokens[i]
<1> PICK r : r = Marked(tokens)
  OBVIOUS
<1>1. Len(tokens) \in Nat /\ \A i \in 1..Len(tokens) : tokens[i] \in Token
  OBVIOUS
<1>2. r = [i \in 1..Len(tokens) |-> [t |-> tokens[i], at |-> i]]
  BY DEF Marked
<1>3. \A i \in 1..Len(tokens) : [t |-> tokens[i], at |-> i] \in Mark
  BY <1>1 DEF Mark
<1>4. r \in Seq(Mark) /\ Len(r) = Len(tokens)
  BY <1>1, <1>2, <1>3
<1>5. \A i \in 1..Len(tokens) : r[i].t = tokens[i] /\ r[i].at = i
  BY <1>2
<1>6. QED BY <1>4, <1>5 DEF Text, Rising, Ms

LEMMA SubSeqIn ==
  ASSUME NEW V, NEW s \in Seq(V), NEW a \in 1..Len(s), NEW b \in 1..Len(s), a <= b
  PROVE  SubSeq(s, a, b) \in Seq(V)
<1>1. Len(s) \in Nat /\ \A i \in 1..Len(s) : s[i] \in V
  OBVIOUS
<1>2. Len(SubSeq(s, a, b)) = b - a + 1
  BY <1>1
<1>3. \A i \in 1..(b - a + 1) : a + i - 1 \in 1..Len(s) /\ SubSeq(s, a, b)[i] = s[a + i - 1]
  BY <1>1
<1>4. QED BY <1>1, <1>2, <1>3

LEMMA ExtractIs ==
  ASSUME NEW s, Text(s), \A m \in Ms(s) : m.t \notin {"think", "unthink"}
  PROVE  Extract(s) \in Seq(Plain)
<1> PICK order : order = InOrder(XmlSpans(s) \cup CmdSpans(s), Len(s))
  OBVIOUS
<1> DEFINE N == Len(order)
           A == Seq(Plain)
           b == <<>>
           line == [t |-> "nl", at |-> 0]
           lit(n) == SubSeq(s, order[n][1], order[n][2])
           Body(f) == [n \in 0..N |-> IF n = 0 THEN <<>>
                                      ELSE f[n - 1] \o lit(n) \o <<[t |-> "nl", at |-> 0]>>]
           last == CHOOSE f : f = Body(f)
           step == [n \in 1..N |-> [r \in A |-> r \o lit(n) \o <<[t |-> "nl", at |-> 0]>>]]
<1>0. /\ Len(s) \in Nat /\ N \in Nat /\ b \in A
      /\ \A n \in 1..N : order[n] \in XmlSpans(s) \cup CmdSpans(s)
  <2>1. Len(s) \in Nat
    BY InText
  <2>2. QED BY <2>1, InOrderIs
<1>1. Extract(s) = Trim(last[N])
  BY DEF Extract
<1>2. s \in Seq(Plain)
  <2>1. s \in Seq(Mark) /\ \A i \in 1..Len(s) : s[i] \in Mark /\ s[i].t \notin {"think", "unthink"}
    BY InText
  <2>2. \A i \in 1..Len(s) : s[i] \in Plain
    BY <2>1 DEF Plain
  <2>3. QED BY <2>1, <2>2
<1>3. \A n \in 1..N : lit(n) \in A
  <2> TAKE n \in 1..N
  <2> PICK a : a = order[n]
    OBVIOUS
  <2>1. a[1] \in 1..Len(s) /\ a[2] \in 1..Len(s) /\ a[1] <= a[2]
    BY <1>0, CallSpans
  <2>2. SubSeq(s, a[1], a[2]) \in Seq(Plain)
    <3> PICK c : c = a[1]
      OBVIOUS
    <3> PICK d : d = a[2]
      OBVIOUS
    <3>1. c \in 1..Len(s) /\ d \in 1..Len(s) /\ c <= d /\ Len(s) \in Nat
      BY <1>0, <2>1
    <3>2. SubSeq(s, c, d) \in Seq(Plain)
      BY ONLY <1>2, <3>1, SubSeqIn
    <3>3. QED BY <3>2
  <2>3. QED BY <2>2
<1>4. <<[t |-> "nl", at |-> 0]>> \in A
  <2>1. [t |-> "nl", at |-> 0] \in Plain
    BY DEF Plain, Mark, Token
  <2>2. QED BY <2>1
<1> HIDE DEF lit
<1>5. \A n \in 1..N, r \in A : r \o lit(n) \o <<[t |-> "nl", at |-> 0]>> \in A
  <2> PICK end : end = <<[t |-> "nl", at |-> 0]>>
    OBVIOUS
  <2>1. end \in Seq(Plain)
    BY <1>4
  <2>2. \A x, y \in Seq(Plain) : x \o y \o end \in Seq(Plain)
    BY <2>1
  <2>3. QED BY <1>3, <2>2
<1>6. \E f \in [0..N -> A] : f[0] = b /\ \A n \in 1..N : f[n] = step[n][f[n - 1]]
  <2>1. step \in [1..N -> [A -> A]]
    BY <1>5
  <2>2. N \in Nat /\ b \in A
    BY <1>0
  <2> HIDE DEF step, A, b, N
  <2>3. QED BY ONLY <2>1, <2>2, Recursion
<1>7. PICK f \in [0..N -> A] : f[0] = b /\ \A n \in 1..N : f[n] = step[n][f[n - 1]]
  BY <1>6
<1>8. \A n \in 1..N : f[n - 1] \in A
  <2>1. \A n \in 1..N : n - 1 \in 0..N
    BY <1>0
  <2> HIDE DEF A, N
  <2>2. QED BY <2>1
<1>9. \A n \in 1..N : f[n] = f[n - 1] \o lit(n) \o <<[t |-> "nl", at |-> 0]>>
  BY <1>7, <1>8
<1>10. f = Body(f)
  <2>1. \A n \in 0..N : n # 0 => n \in 1..N
    BY <1>0
  <2>2. \A n \in 0..N : f[n] = Body(f)[n]
    BY <1>7, <1>9, <2>1
  <2> HIDE DEF Body
  <2>3. f = [n \in 0..N |-> f[n]]
    OBVIOUS
  <2>4. Body(f) = [n \in 0..N |-> Body(f)[n]]
    BY DEF Body
  <2>5. QED BY <2>2, <2>3, <2>4
<1>11. last = Body(last)
  <2> HIDE DEF Body
  <2>1. QED BY <1>10
<1> HIDE DEF last
<1>12. last[N] \in A
  <2>0. /\ last[0] = <<>>
        /\ \A n \in 1..N : last[n] = last[n - 1] \o lit(n) \o <<[t |-> "nl", at |-> 0]>>
    <3>1. \A n \in 0..N : last[n] = Body(last)[n]
      BY <1>11
    <3>2. 0 \in 0..N /\ \A n \in 1..N : n \in 0..N /\ n # 0
      BY <1>0
    <3>3. QED BY <3>1, <3>2
  <2> DEFINE S == {n \in Nat : n <= N => last[n] \in A}
  <2>1. 0 \in S
    BY <1>0, <2>0
  <2>2. ASSUME NEW n \in Nat, n \in S PROVE n + 1 \in S
    <3> SUFFICES ASSUME n + 1 <= N PROVE last[n + 1] \in A
      OBVIOUS
    <3>1. n + 1 \in 1..N /\ last[n] \in A /\ (n + 1) - 1 = n
      BY <1>0, <2>2
    <3>2. last[n + 1] = last[n] \o lit(n + 1) \o <<[t |-> "nl", at |-> 0]>>
      BY <2>0, <3>1
    <3> HIDE DEF A
    <3>3. QED BY <1>5, <3>1, <3>2
  <2> HIDE DEF S
  <2>3. Nat \subseteq S
    BY <2>1, <2>2, Induction
  <2>4. QED BY <1>0, <2>3 DEF S
<1>13. Trim(last[N]) \in Seq(Plain)
  <2> PICK x : x = last[N]
    OBVIOUS
  <2>1. x \in Seq(Plain)
    BY <1>12
  <2>2. QED BY <2>1, PickIs DEF Trim
<1>14. QED BY <1>1, <1>13

-----------------------------------------------------------------------------
(* The invariant and the theorems *)

\* What is kept holds no reasoning, and is what the actions made of the reply.
IInv ==
  /\ Text(reply) /\ Text(history)
  /\ \A m \in Ms(history) : m.t \notin {"think", "unthink"}
  /\ stage = "planned" => calls = Parse(StripCode(StripReasoning(reply)))
  /\ stage = "shown" => history = StripVisible(StripReasoning(reply))
  /\ stage \in {"sent", "shown", "resent"} => \E s : Text(s) /\ history = StripVisible(s)

LEMMA InitHolds == Init => IInv
<1> SUFFICES ASSUME Init PROVE IInv
  OBVIOUS
<1>1. PICK tokens \in Replies : reply = Marked(tokens)
  BY DEF Init
<1>2. Text(reply)
  BY <1>1, MarkedIs, RepliesAssumption
<1>3. Text(<<>>) /\ Ms(<<>>) = {}
  BY DEF Text, Rising, Ms
<1>4. QED BY <1>2, <1>3 DEF Init, IInv

\* strip_tool_syntax_in_visible of a text with no reasoning.
LEMMA VisiblePlain ==
  ASSUME NEW s, Text(s), \A m \in Ms(s) : m.t \notin {"think", "unthink"}
  PROVE  /\ Text(StripVisible(s)) /\ \A m \in Ms(StripVisible(s)) : m.t \notin {"think", "unthink"}
         /\ StripReasoning(StripVisible(s)) = StripVisible(s)
<1> PICK out : out = StripVisible(s)
  OBVIOUS
<1>1. Text(out) /\ \A m \in Ms(out) : m.t \notin {"think", "unthink"}
  BY VisibleIs
<1>2. StripReasoning(out) = out
  BY <1>1, ReasoningNone
<1>3. QED BY <1>1, <1>2

LEMMA StepHolds ==
  ASSUME IInv, [Next]_vars
  PROVE  IInv'
<1> PICK probe : probe = StripReasoning(reply)
  OBVIOUS
<1>0. /\ Text(reply) /\ Text(history) /\ Text(probe)
      /\ \A m \in Ms(probe) : m.t \notin {"think", "unthink"}
      /\ \A m \in Ms(history) : m.t \notin {"think", "unthink"}
  BY ReasoningIs DEF IInv
<1>1. /\ Text(StripVisible(probe))
      /\ \A m \in Ms(StripVisible(probe)) : m.t \notin {"think", "unthink"}
  BY <1>0, VisiblePlain
<1>2. Text(<<>>) /\ Ms(<<>>) = {}
  BY DEF Text, Rising, Ms
<1>3. CASE Route
  <2>1. CASE calls' = <<>>
    <3>1. /\ reply' = reply /\ stage' = "sent" /\ history' = StripVisible(probe)
      BY <1>3, <2>1 DEF Route
    <3>2. \E s : Text(s) /\ history' = StripVisible(s)
      BY <1>0, <3>1
    <3>3. QED BY <1>0, <1>1, <3>1, <3>2 DEF IInv
  <2>2. CASE calls' # <<>>
    <3>1. /\ reply' = reply /\ stage' = "planned" /\ history' = <<>>
          /\ calls' = Parse(StripCode(StripReasoning(reply)))
      BY <1>3, <2>2 DEF Route
    <3>2. QED BY <1>0, <1>2, <3>1 DEF IInv
  <2>3. QED BY <2>1, <2>2
<1>4. CASE Render
  <2> PICK row : row = Extract(StripCode(probe))
    OBVIOUS
  <2> PICK tokens : tokens = [i \in 1..Len(row) |-> row[i].t]
    OBVIOUS
  <2>1. reply' = reply /\ stage' = "rendered" /\ history' = Marked(tokens)
    BY <1>4 DEF Render
  <2>2. Text(StripCode(probe)) /\ \A m \in Ms(StripCode(probe)) : m.t \notin {"think", "unthink"}
    BY <1>0, CodeGone
  <2>3. row \in Seq(Plain)
    BY <2>2, ExtractIs
  <2>4. Len(row) \in Nat /\ \A i \in 1..Len(row) : row[i] \in Plain
    BY <2>3
  <2>5. \A i \in 1..Len(row) : row[i].t \in Token /\ row[i].t \notin {"think", "unthink"}
    BY <2>4 DEF Plain, Mark
  <2>6. tokens \in Seq(Token) /\ Len(tokens) = Len(row)
        /\ \A i \in 1..Len(tokens) : tokens[i] \notin {"think", "unthink"}
    BY <2>4, <2>5
  <2>7. Text(Marked(tokens)) /\ \A m \in Ms(Marked(tokens)) : m.t \notin {"think", "unthink"}
    <3>1. Text(Marked(tokens)) /\ \A m \in Ms(Marked(tokens)) : \E i \in 1..Len(tokens) : m.t = tokens[i]
      BY <2>6, MarkedIs
    <3>2. ASSUME NEW m \in Ms(Marked(tokens)) PROVE m.t \notin {"think", "unthink"}
      <4>1. PICK i \in 1..Len(tokens) : m.t = tokens[i]
        BY <3>1
      <4>2. tokens[i] \notin {"think", "unthink"}
        BY <2>6
      <4>3. QED BY ONLY <4>1, <4>2
    <3>3. QED BY <3>1, <3>2
  <2>8. QED BY <1>0, <2>1, <2>7 DEF IInv
<1>5. CASE Resend
  <2>1. reply' = reply /\ stage' = "resent" /\ history' = StripReasoning(StripVisible(history))
    BY <1>5 DEF Resend
  <2>2. /\ Text(StripVisible(history)) /\ StripReasoning(StripVisible(history)) = StripVisible(history)
        /\ \A m \in Ms(StripVisible(history)) : m.t \notin {"think", "unthink"}
    BY <1>0, VisiblePlain
  <2>3. \E s : Text(s) /\ history' = StripVisible(s)
    BY <1>0, <2>1, <2>2
  <2>4. QED BY <1>0, <2>1, <2>2, <2>3 DEF IInv
<1>6. CASE Show
  <2>1. reply' = reply /\ stage' = "shown" /\ history' = StripVisible(probe)
    BY <1>6 DEF Show
  <2>2. \E s : Text(s) /\ history' = StripVisible(s)
    BY <1>0, <2>1
  <2>3. QED BY <1>0, <1>1, <2>1, <2>2 DEF IInv
<1>7. CASE UNCHANGED vars
  BY <1>7 DEF vars, IInv
<1>8. QED BY <1>3, <1>4, <1>5, <1>6, <1>7 DEF Next

\* What is kept between the steps is always what the cleaning made.
THEOREM Invariance == Spec => []IInv
BY InitHolds, StepHolds, PTL DEF Spec

\* Examples stay examples: the marks of an example are none of those a call can
\* stand at, and what strip_tool_syntax_in_visible removes is never code.
THEOREM ExamplesStay == Spec => []ExamplesStayExamples
<1>1. IInv => ExamplesStayExamples
  <2> SUFFICES ASSUME IInv PROVE ExamplesStayExamples
    OBVIOUS
  <2> PICK probe : probe = StripReasoning(reply)
    OBVIOUS
  <2>1. Text(probe)
    BY ReasoningIs DEF IInv
  <2>2. ASSUME stage = "planned", NEW k \in DOMAIN calls, NEW i \in InExample(probe)
        PROVE  probe[i].at # calls[k].at
    <3> PICK s : s = StripCode(probe)
      OBVIOUS
    <3>1. Text(s) /\ Ms(s) \subseteq Ms(probe) /\ i \in 1..Len(probe) /\ probe[i] \notin Ms(s)
      BY <2>1, CodeGone
    <3>2. calls = Parse(s)
      BY <2>2 DEF IInv
    <3>3. PICK m \in Ms(s) : calls[k].at = m.at
      BY <3>1, <3>2, ParseIs
    <3>4. PICK j \in 1..Len(probe) : m = probe[j]
      BY <2>1, <3>1, InText
    <3>5. i # j
      BY <3>1, <3>3, <3>4
    <3>6. probe[i].at # probe[j].at
      BY <2>1, <3>1, <3>5, InText
    <3>7. QED BY <3>3, <3>4, <3>6
  <2>3. ASSUME stage = "shown", NEW i \in Covered(CodeSpans(probe))
        PROVE  \E j \in DOMAIN history : history[j] = probe[i]
    <3>1. history = StripVisible(probe)
      BY <2>3 DEF IInv
    <3>2. probe[i] \in Ms(history) /\ Text(history)
      BY <2>1, <3>1, VisibleIs
    <3>3. QED BY <3>2, InText DEF Ms
  <2>4. QED BY <2>2, <2>3 DEF ExamplesStayExamples
<1>2. QED BY <1>1, Invariance, PTL

\* Only code holds calls: what each gap between code leaves is no call by itself,
\* and two gaps have code between them.
THEOREM OnlyCodeKeepsCalls == Spec => OnlyCodeHoldsCalls
<1> DEFINE Clean == /\ stage' \in {"sent", "shown"} => Cleaned(StripReasoning(reply), history')
                    /\ stage' = "resent" => Cleaned(history, history')
<1>1. ASSUME IInv, [Next]_vars PROVE [Clean]_vars
  <2> SUFFICES ASSUME Next PROVE Clean
    BY <1>1
  <2> PICK probe : probe = StripReasoning(reply)
    OBVIOUS
  <2>1. Text(probe) /\ Text(history) /\ \A m \in Ms(history) : m.t \notin {"think", "unthink"}
    BY <1>1, ReasoningIs DEF IInv
  <2>2. Cleaned(probe, StripVisible(probe)) /\ Cleaned(history, StripVisible(history))
    BY <2>1, VisibleCleaned
  <2>3. CASE Route
    BY <2>2, <2>3 DEF Route
  <2>4. CASE Render
    BY <2>4 DEF Render
  <2>5. CASE Resend
    <3>1. StripReasoning(StripVisible(history)) = StripVisible(history)
      BY <2>1, VisiblePlain
    <3>2. QED BY <2>2, <2>5, <3>1 DEF Resend
  <2>6. CASE Show
    BY <2>2, <2>6 DEF Show
  <2>7. QED BY <2>3, <2>4, <2>5, <2>6 DEF Next
<1>2. QED BY <1>1, Invariance, PTL DEF Spec, OnlyCodeHoldsCalls

\* A draft, an answer or a row sent again that holds no backtick holds no call:
\* parsed like a reply of the model it yields none.
THEOREM WithoutCodeNoCalls ==
  Spec => [](/\ stage \in {"sent", "shown", "resent"}
             /\ \A i \in DOMAIN history : history[i].t # "tick"
             => Parse(StripCode(history)) = <<>>)
<1> DEFINE NoCalls == /\ stage \in {"sent", "shown", "resent"}
                      /\ \A i \in DOMAIN history : history[i].t # "tick"
                      => Parse(StripCode(history)) = <<>>
<1>1. IInv => NoCalls
  <2> SUFFICES ASSUME IInv, stage \in {"sent", "shown", "resent"},
                      \A i \in DOMAIN history : history[i].t # "tick"
               PROVE  Parse(StripCode(history)) = <<>>
    OBVIOUS
  <2>1. PICK s : Text(s) /\ history = StripVisible(s)
    BY DEF IInv
  <2>2. Text(history) /\ \A m \in Ms(history) : m.t # "tick"
    <3>1. Text(history)
      BY DEF IInv
    <3>2. QED BY <3>1, InText DEF Ms
  <2>3. Inert(Ms(history))
    BY <2>1, <2>2, NoTickInert
  <2>4. Text(StripCode(history)) /\ Inert(Ms(StripCode(history)))
    BY <2>2, <2>3, CodeGone, InertPart
  <2>5. QED BY <2>4, ParseNone
<1>2. QED BY <1>1, Invariance, PTL
=============================================================================
