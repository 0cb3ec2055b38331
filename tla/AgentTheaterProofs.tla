-------------------------- MODULE AgentTheaterProofs --------------------------
(***************************************************************************)
(* Theorems about AgentTheater, for any number of turns and calls.  They   *)
(* rest on what partition_tool_calls computes for every list of calls,     *)
(* which is an induction over the list (PartitionIs); on where the calls   *)
(* of a turn are while they run (Places); and on what the service has told *)
(* each call that waits (ServiceInv).                                      *)
(***************************************************************************)
EXTENDS AgentTheater, FiniteSetTheorems, WellFoundedInduction, TLAPS

-----------------------------------------------------------------------------
(* Induction and recursion over 0..N.  The library's theorems about them take *)
(* operators; these take sets and functions instead.                          *)

LEMMA Smallest ==
  ASSUME NEW T, T \subseteq Nat, T # {}
  PROVE  \E m \in T : \A n \in T : m <= n
<1> DEFINE R == OpToRel(<, Nat)
<1>1. \E x \in T : \A y \in T : ~ (<<y, x>> \in R)
  BY NatLessThanWellFounded, WFMin
<1>2. \A x, y \in Nat : <<y, x>> \in R <=> y < x
  BY DEF OpToRel
<1> HIDE DEF R
<1>3. PICK x \in T : \A y \in T : ~ (<<y, x>> \in R)
  BY <1>1
<1>4. ASSUME NEW y \in T PROVE x <= y
  <2>1. x \in Nat /\ y \in Nat OBVIOUS
  <2>2. ~(<<y, x>> \in R) BY <1>3
  <2>3. ~(y < x) BY <1>2, <2>1, <2>2
  <2>4. QED BY <2>1, <2>3
<1>5. QED BY <1>3, <1>4

LEMMA Induction ==
  ASSUME NEW S, 0 \in S, \A n \in Nat : n \in S => n + 1 \in S
  PROVE  Nat \subseteq S
<1> SUFFICES ASSUME Nat \ S # {} PROVE FALSE
  OBVIOUS
<1>1. PICK m \in Nat \ S : \A n \in Nat \ S : m <= n
  BY Smallest
<1>2. m - 1 \in Nat /\ m - 1 \in S
  BY <1>1
<1>3. QED BY <1>1, <1>2

LEMMA Recursion ==
  ASSUME NEW A, NEW b \in A, NEW N \in Nat, NEW step \in [1..N -> [A -> A]]
  PROVE  \E g \in [0..N -> A] : g[0] = b /\ \A n \in 1..N : g[n] = step[n][g[n - 1]]
<1> DEFINE Goes(m, g) == g[0] = b /\ \A n \in 1..m : g[n] = step[n][g[n - 1]]
           Exists(m) == \E g \in [0..m -> A] : Goes(m, g)
           S == {m \in Nat : m <= N => Exists(m)}
<1>1. Exists(0)
  <2>1. [n \in 0..0 |-> b] \in [0..0 -> A] /\ Goes(0, [n \in 0..0 |-> b])
    OBVIOUS
  <2>2. QED BY <2>1
<1>2. ASSUME NEW m \in Nat, m + 1 <= N, Exists(m) PROVE Exists(m + 1)
  <2>1. PICK g \in [0..m -> A] : Goes(m, g)
    BY <1>2
  <2> DEFINE h == [n \in 0..(m+1) |-> IF n = m + 1 THEN step[m + 1][g[m]] ELSE g[n]]
  <2>2. step[m + 1][g[m]] \in A
    <3>1. g[m] \in A /\ m + 1 \in 1..N
      BY <1>2
    <3>2. QED BY <3>1
  <2>3. h \in [0..(m+1) -> A]
    <3> DEFINE x == step[m + 1][g[m]]
    <3> HIDE DEF x
    <3>1. x \in A BY <2>2 DEF x
    <3>2. [n \in 0..(m+1) |-> IF n = m + 1 THEN x ELSE g[n]] \in [0..(m+1) -> A]
      <4>1. ASSUME NEW n \in 0..(m+1), n # m + 1 PROVE n \in 0..m
        BY <4>1
      <4>2. QED BY <3>1, <4>1
    <3>3. QED BY <3>2 DEF x
  <2>4. Goes(m + 1, h)
    <3>1. h[0] = b
      BY <2>1
    <3>2. ASSUME NEW n \in 1..(m+1) PROVE h[n] = step[n][h[n - 1]]
      <4>1. n \in 0..(m+1) /\ n - 1 \in 0..(m+1) /\ n - 1 # m + 1 /\ n - 1 \in Nat
        BY <3>2
      <4>2. h[n - 1] = g[n - 1]
        BY <4>1
      <4>3. CASE n = m + 1
        <5>1. n - 1 = m
          BY <4>3
        <5>2. QED BY <4>1, <4>2, <4>3, <5>1
      <4>4. CASE n # m + 1
        <5>1. n \in 1..m
          BY <4>4
        <5>2. QED BY <2>1, <4>1, <4>2, <4>4, <5>1
      <4>5. QED BY <4>3, <4>4
    <3>3. QED BY <3>1, <3>2
  <2> HIDE DEF h
  <2>5. QED BY <2>3, <2>4
<1> HIDE DEF Exists
<1>3. 0 \in S /\ \A n \in Nat : n \in S => n + 1 \in S
  BY <1>1, <1>2
<1>4. N \in S
  <2> HIDE DEF S
  <2>1. QED BY <1>3, Induction
<1>5. Exists(N)
  BY <1>4
<1>6. QED BY <1>5 DEF Exists

-----------------------------------------------------------------------------
(* Lists of calls, in the order of their slots *)

In(c, s) == \E i \in 1..Len(s) : s[i] = c

Increasing(s) == \A i, j \in 1..Len(s) : i < j => s[i].slot < s[j].slot

Before(s, t) == \A c, d : In(c, s) /\ In(d, t) => c.slot < d.slot

LEMMA AppendIs ==
  ASSUME NEW S, NEW s \in Seq(S), NEW x \in S
  PROVE  /\ Append(s, x) \in Seq(S) /\ Len(Append(s, x)) = Len(s) + 1 /\ Append(s, x) # <<>>
         /\ Append(s, x)[Len(s) + 1] = x
         /\ \A i \in 1..Len(s) : i \in 1..Len(Append(s, x)) /\ Append(s, x)[i] = s[i]
         /\ \A i \in 1..Len(Append(s, x)) : i \in 1..Len(s) \/ i = Len(s) + 1
         /\ Len(s) + 1 \in 1..Len(Append(s, x))
<1>1. Append(s, x) \in Seq(S) /\ Len(Append(s, x)) = Len(s) + 1 /\ Len(s) \in Nat
  OBVIOUS
<1>2. Append(s, x) # <<>>
  BY <1>1
<1>3. /\ Append(s, x)[Len(s) + 1] = x
      /\ \A i \in 1..Len(s) : i \in 1..Len(Append(s, x)) /\ Append(s, x)[i] = s[i]
  BY <1>1
<1>4. /\ \A i \in 1..Len(Append(s, x)) : i \in 1..Len(s) \/ i = Len(s) + 1
      /\ Len(s) + 1 \in 1..Len(Append(s, x))
  BY <1>1
<1>5. QED BY <1>1, <1>2, <1>3, <1>4

LEMMA InAppend ==
  ASSUME NEW S, NEW s \in Seq(S), NEW x \in S
  PROVE  \A c : In(c, Append(s, x)) <=> In(c, s) \/ c = x
<1>1. /\ Append(s, x)[Len(s) + 1] = x
      /\ \A i \in 1..Len(s) : i \in 1..Len(Append(s, x)) /\ Append(s, x)[i] = s[i]
      /\ \A i \in 1..Len(Append(s, x)) : i \in 1..Len(s) \/ i = Len(s) + 1
      /\ Len(s) + 1 \in 1..Len(Append(s, x))
  BY AppendIs
<1>2. QED BY <1>1 DEF In

LEMMA IncreasingAppend ==
  ASSUME NEW S, \A c \in S : c.slot \in Nat, NEW s \in Seq(S), NEW x \in S,
         Increasing(s), \A c : In(c, s) => c.slot < x.slot
  PROVE  Increasing(Append(s, x))
<1>1. /\ Append(s, x)[Len(s) + 1] = x
      /\ \A i \in 1..Len(s) : i \in 1..Len(Append(s, x)) /\ Append(s, x)[i] = s[i]
      /\ \A i \in 1..Len(Append(s, x)) : i \in 1..Len(s) \/ i = Len(s) + 1
      /\ Len(Append(s, x)) = Len(s) + 1
  BY AppendIs
<1>2. \A i \in 1..Len(s) : s[i].slot < x.slot
  BY DEF In
<1>3. SUFFICES ASSUME NEW i \in 1..Len(Append(s, x)), NEW j \in 1..Len(Append(s, x)), i < j
               PROVE  Append(s, x)[i].slot < Append(s, x)[j].slot
  BY DEF Increasing
<1>4. i \in 1..Len(s) /\ (j \in 1..Len(s) \/ j = Len(s) + 1)
  BY <1>1, <1>3
<1>5. Append(s, x)[i] = s[i]
  BY <1>1, <1>4
<1>6. CASE j \in 1..Len(s)
  BY <1>1, <1>3, <1>4, <1>5, <1>6 DEF Increasing
<1>7. CASE j = Len(s) + 1
  BY <1>1, <1>2, <1>4, <1>5, <1>7
<1>8. QED BY <1>4, <1>6, <1>7

LEMMA SingleIs ==
  ASSUME NEW S, NEW x \in S
  PROVE  /\ <<x>> \in Seq(S) /\ <<x>> # <<>> /\ Len(<<x>>) = 1 /\ <<x>>[1] = x
         /\ Increasing(<<x>>) /\ \A c : In(c, <<x>>) <=> c = x
BY DEF In, Increasing

LEMMA NoneIs ==
  ASSUME NEW S
  PROVE  <<>> \in Seq(S) /\ Increasing(<<>>) /\ \A c : ~In(c, <<>>)
BY DEF In, Increasing

\* OfKind keeps the calls of the kinds, all of them, in their order.
LEMMA OfKindIs ==
  ASSUME NEW C, \A c \in C : c.slot \in Nat,
         NEW calls \in Seq(C), Increasing(calls), NEW kinds
  PROVE  /\ OfKind(calls, kinds) \in Seq(C)
         /\ Increasing(OfKind(calls, kinds))
         /\ \A c : In(c, OfKind(calls, kinds)) <=> In(c, calls) /\ c.kind \in kinds
<1> DEFINE N == Len(calls)
           Next1(k, n) == IF calls[n].kind \in kinds THEN Append(k, calls[n]) ELSE k
           Kept(k) == [n \in 0..N |-> IF n = 0 THEN <<>>
                                      ELSE IF calls[n].kind \in kinds
                                           THEN Append(k[n - 1], calls[n])
                                      ELSE k[n - 1]]
           kept == CHOOSE k : k = Kept(k)
<1>0. N \in Nat /\ \A n \in 1..N : calls[n] \in C
  OBVIOUS
<1>1. OfKind(calls, kinds) = kept[N]
  BY DEF OfKind
<1>2. \E k \in [0..N -> Seq(C)] : k[0] = <<>> /\ \A n \in 1..N : k[n] = Next1(k[n - 1], n)
  <2> DEFINE step == [n \in 1..N |-> [k \in Seq(C) |-> Next1(k, n)]]
  <2>1. \A n \in 1..N, k \in Seq(C) : Next1(k, n) \in Seq(C)
    BY <1>0, AppendIs
  <2>2. step \in [1..N -> [Seq(C) -> Seq(C)]]
    <3> HIDE DEF Next1
    <3>1. QED BY <2>1
  <2>3. \A n \in 1..N, k \in Seq(C) : step[n][k] = Next1(k, n)
    <3> HIDE DEF Next1
    <3>1. QED OBVIOUS
  <2>4. <<>> \in Seq(C)
    OBVIOUS
  <2> HIDE DEF step, Next1, N
  <2>5. PICK k \in [0..N -> Seq(C)] : k[0] = <<>> /\ \A n \in 1..N : k[n] = step[n][k[n - 1]]
    <3> DEFINE A == Seq(C)
               b == <<>>
    <3>1. b \in A /\ N \in Nat /\ step \in [1..N -> [A -> A]]
      BY <1>0, <2>2, <2>4
    <3> HIDE DEF A, b
    <3>2. \E g \in [0..N -> A] : g[0] = b /\ \A n \in 1..N : g[n] = step[n][g[n - 1]]
      BY ONLY <3>1, Recursion
    <3>3. QED BY ONLY <3>2 DEF A, b
  <2>6. ASSUME NEW n \in 1..N PROVE k[n - 1] \in Seq(C)
    BY <1>0
  <2>7. QED BY <2>3, <2>5, <2>6
<1>3. kept = Kept(kept)
  <2>1. PICK k \in [0..N -> Seq(C)] : k[0] = <<>> /\ \A n \in 1..N : k[n] = Next1(k[n - 1], n)
    BY <1>2
  <2>2. k = Kept(k)
    <3>1. \A n \in 0..N : k[n] = Kept(k)[n]
      <4>1. ASSUME NEW n \in 0..N, n # 0 PROVE n \in 1..N
        BY <1>0, <4>1
      <4>2. QED BY <2>1, <4>1
    <3> HIDE DEF Kept
    <3>2. Kept(k) = [n \in 0..N |-> Kept(k)[n]]
      BY DEF Kept
    <3>3. k = [n \in 0..N |-> k[n]]
      OBVIOUS
    <3>4. QED BY <3>1, <3>2, <3>3
  <2> HIDE DEF Kept
  <2>3. QED BY <2>2
<1>4. /\ kept[0] = <<>>
      /\ \A n \in 1..N : kept[n] = Next1(kept[n - 1], n)
  <2> HIDE DEF kept
  <2>1. \A n \in 0..N : kept[n] = Kept(kept)[n]
    BY <1>3
  <2>2. QED BY <1>0, <2>1
<1> DEFINE Holds(n) == /\ kept[n] \in Seq(C) /\ Increasing(kept[n])
                       /\ \A c : In(c, kept[n]) <=>
                            c.kind \in kinds /\ \E i \in 1..n : calls[i] = c
           S == {n \in Nat : n <= N => Holds(n)}
<1>5. Holds(0)
  <2> HIDE DEF kept
  <2>1. QED BY <1>4, NoneIs
<1>6. ASSUME NEW n \in Nat, n + 1 <= N, Holds(n) PROVE Holds(n + 1)
  <2> HIDE DEF kept
  <2>1. n + 1 \in 1..N /\ calls[n + 1] \in C /\ (n + 1) - 1 = n
    BY <1>0, <1>6
  <2>2. kept[n + 1] = Next1(kept[n], n + 1)
    BY <1>4, <2>1
  <2>3. \A c : (\E i \in 1..(n + 1) : calls[i] = c) <=>
               (\E i \in 1..n : calls[i] = c) \/ calls[n + 1] = c
    <3>1. \A i \in 1..(n + 1) : i \in 1..n \/ i = n + 1
      OBVIOUS
    <3>2. \A i \in 1..n : i \in 1..(n + 1)
      OBVIOUS
    <3>3. n + 1 \in 1..(n + 1)
      OBVIOUS
    <3>4. QED BY <3>1, <3>2, <3>3
  <2>4. CASE calls[n + 1].kind \notin kinds
    BY <1>6, <2>2, <2>3, <2>4
  <2>5. CASE calls[n + 1].kind \in kinds
    <3>1. kept[n + 1] = Append(kept[n], calls[n + 1])
      BY <2>2, <2>5
    <3>2. \A c : In(c, kept[n]) => c.slot < calls[n + 1].slot
      <4>1. \A i \in 1..n : calls[i].slot < calls[n + 1].slot
        <5>1. \A i \in 1..n : i \in 1..N /\ i < n + 1
          BY <1>0, <1>6
        <5>2. QED BY <2>1, <5>1 DEF Increasing
      <4>2. QED BY <1>6, <4>1
    <3>3. kept[n + 1] \in Seq(C) /\ Increasing(kept[n + 1])
      BY <1>6, <2>1, <3>1, <3>2, AppendIs, IncreasingAppend
    <3>4. \A c : In(c, kept[n + 1]) <=> In(c, kept[n]) \/ c = calls[n + 1]
      BY <1>6, <2>1, <3>1, InAppend
    <3>5. QED BY <1>6, <2>3, <2>5, <3>3, <3>4
  <2>6. QED BY <2>4, <2>5
<1> HIDE DEF Holds
<1>7. 0 \in S /\ \A n \in Nat : n \in S => n + 1 \in S
  BY <1>5, <1>6
<1>8. Holds(N)
  <2>1. N \in S
    <3> HIDE DEF S
    <3>1. QED BY <1>0, <1>7, Induction
  <2>2. QED BY <1>0, <2>1
<1>9. QED
  <2> HIDE DEF kept
  <2>1. QED BY <1>1, <1>8 DEF Holds, In

-----------------------------------------------------------------------------
(* What partition_tool_calls computes *)

InSome(c, bs) == \E k \in 1..Len(bs) : In(c, bs[k])

Among(calls, n, c) == \E i \in 1..n : calls[i] = c

Alone(s) == Len(s) = 1 \/ \A c : In(c, s) => IsConcurrencySafe(c)

\* Batches that run one after the other: calls that run together are safe, or one.
Cut(bs) ==
  /\ \A k \in 1..Len(bs) : bs[k] # <<>> /\ Increasing(bs[k]) /\ Alone(bs[k])
  /\ \A k, l \in 1..Len(bs) : k < l => Before(bs[k], bs[l])

LEMMA AddBatch ==
  ASSUME NEW C, NEW bs \in Seq(Seq(C)), Cut(bs), NEW s \in Seq(C), s # <<>>, Increasing(s),
         Alone(s), \A c, d : InSome(c, bs) /\ In(d, s) => c.slot < d.slot
  PROVE  /\ Append(bs, s) \in Seq(Seq(C)) /\ Cut(Append(bs, s))
         /\ \A c : InSome(c, Append(bs, s)) <=> InSome(c, bs) \/ In(c, s)
<1> DEFINE t == Append(bs, s)
<1>1. /\ t \in Seq(Seq(C)) /\ t[Len(bs) + 1] = s /\ Len(bs) \in Nat
      /\ \A i \in 1..Len(bs) : i \in 1..Len(t) /\ t[i] = bs[i]
      /\ \A i \in 1..Len(t) : i \in 1..Len(bs) \/ i = Len(bs) + 1
      /\ Len(bs) + 1 \in 1..Len(t)
  BY AppendIs
<1> HIDE DEF t
<1>2. \A c : InSome(c, t) <=> InSome(c, bs) \/ In(c, s)
  BY <1>1 DEF InSome
<1>3. \A k \in 1..Len(t) : t[k] # <<>> /\ Increasing(t[k]) /\ Alone(t[k])
  BY <1>1 DEF Cut
<1>4. ASSUME NEW k \in 1..Len(t), NEW l \in 1..Len(t), k < l
      PROVE  Before(t[k], t[l])
  <2>0. k \in Int /\ l \in Int /\ (k \in 1..Len(bs) \/ k = Len(bs) + 1)
        /\ (l \in 1..Len(bs) \/ l = Len(bs) + 1)
    BY <1>1
  <2>1. k \in 1..Len(bs)
    BY <1>1, <1>4, <2>0
  <2>2. CASE l \in 1..Len(bs)
    BY <1>1, <1>4, <2>1, <2>2 DEF Cut
  <2>3. CASE l = Len(bs) + 1
    BY <1>1, <2>1, <2>3 DEF Before, InSome
  <2>4. QED BY <1>1, <2>2, <2>3
<1>5. QED BY <1>1, <1>2, <1>3, <1>4 DEF Cut, t

\* The loop of partition_tool_calls after its first n calls.
Loop(C, calls, n, acc) ==
  /\ acc \in [batches : Seq(Seq(C)), current : Seq(C)]
  /\ Cut(acc.batches)
  /\ Increasing(acc.current) /\ \A c : In(c, acc.current) => IsConcurrencySafe(c)
  /\ \A c, d : InSome(c, acc.batches) /\ In(d, acc.current) => c.slot < d.slot
  /\ \A c : InSome(c, acc.batches) \/ In(c, acc.current) <=> Among(calls, n, c)

LEMMA FlushIs ==
  ASSUME NEW C, NEW calls, NEW n, NEW acc, Loop(C, calls, n, acc)
  PROVE  /\ Flushed(acc.batches, acc.current) \in Seq(Seq(C))
         /\ Cut(Flushed(acc.batches, acc.current))
         /\ \A c : InSome(c, Flushed(acc.batches, acc.current)) <=> Among(calls, n, c)
<1>0. acc.batches \in Seq(Seq(C)) /\ acc.current \in Seq(C)
  BY DEF Loop
<1>1. CASE acc.current = <<>>
  BY <1>0, <1>1, NoneIs DEF Loop, Flushed
<1>2. CASE acc.current # <<>>
  <2>1. /\ Alone(acc.current) /\ Increasing(acc.current) /\ Cut(acc.batches)
        /\ \A c, d : InSome(c, acc.batches) /\ In(d, acc.current) => c.slot < d.slot
        /\ \A c : InSome(c, acc.batches) \/ In(c, acc.current) <=> Among(calls, n, c)
    BY DEF Loop, Alone
  <2>2. Flushed(acc.batches, acc.current) = Append(acc.batches, acc.current)
    BY <1>2 DEF Flushed
  <2> DEFINE bs == acc.batches
             s == acc.current
  <2>3. /\ bs \in Seq(Seq(C)) /\ s \in Seq(C) /\ s # <<>>
        /\ Alone(s) /\ Increasing(s) /\ Cut(bs)
        /\ \A c, d : InSome(c, bs) /\ In(d, s) => c.slot < d.slot
    BY <1>0, <1>2, <2>1
  <2> HIDE DEF bs, s
  <2>4. /\ Append(bs, s) \in Seq(Seq(C)) /\ Cut(Append(bs, s))
        /\ \A c : InSome(c, Append(bs, s)) <=> InSome(c, bs) \/ In(c, s)
    BY ONLY <2>3, AddBatch
  <2>5. Flushed(acc.batches, acc.current) = Append(bs, s)
    BY <2>2 DEF bs, s
  <2>6. \A c : InSome(c, bs) \/ In(c, s) <=> Among(calls, n, c)
    BY <2>1 DEF bs, s
  <2> DEFINE t == Append(bs, s)
  <2>7. t \in Seq(Seq(C)) /\ Cut(t) /\ \A c : InSome(c, t) <=> Among(calls, n, c)
    <3> HIDE DEF t
    <3>1. t \in Seq(Seq(C)) /\ Cut(t) /\ \A c : InSome(c, t) <=> InSome(c, bs) \/ In(c, s)
      BY <2>4 DEF t
    <3>2. QED BY <2>6, <3>1
  <2>8. Flushed(acc.batches, acc.current) = t
    BY <2>5
  <2> HIDE DEF t
  <2>9. QED BY ONLY <2>7, <2>8
<1>3. QED BY <1>1, <1>2

LEMMA PlacedIs ==
  ASSUME NEW C, \A c \in C : c.slot \in Nat, NEW calls \in Seq(C), Increasing(calls),
         NEW n \in Nat, n + 1 <= Len(calls), NEW acc, Loop(C, calls, n, acc)
  PROVE  Loop(C, calls, n + 1, Placed(acc, calls[n + 1]))
<1> DEFINE x == calls[n + 1]
<1>0. /\ acc \in [batches : Seq(Seq(C)), current : Seq(C)]
      /\ acc.batches \in Seq(Seq(C)) /\ acc.current \in Seq(C) /\ x \in C
  BY DEF Loop
<1>1. \A c : Among(calls, n + 1, c) <=> Among(calls, n, c) \/ x = c
  <2>1. \A i \in 1..(n + 1) : i \in 1..n \/ i = n + 1
    OBVIOUS
  <2>2. \A i \in 1..n : i \in 1..(n + 1)
    OBVIOUS
  <2>3. n + 1 \in 1..(n + 1)
    OBVIOUS
  <2>4. QED BY <2>1, <2>2, <2>3 DEF Among
<1>2. \A c : InSome(c, acc.batches) \/ In(c, acc.current) => c.slot < x.slot
  <2>1. \A i \in 1..n : i \in 1..Len(calls) /\ n + 1 \in 1..Len(calls) /\ i < n + 1
    OBVIOUS
  <2>2. \A i \in 1..n : calls[i].slot < x.slot
    BY <2>1 DEF Increasing
  <2>3. QED BY <2>2 DEF Loop, Among
<1> HIDE DEF x
<1>3. CASE IsConcurrencySafe(x)
  <2> DEFINE next == [acc EXCEPT !.current = Append(acc.current, x)]
  <2>1. Placed(acc, x) = next
    BY <1>3 DEF Placed
  <2>2. /\ Append(acc.current, x) \in Seq(C) /\ Increasing(Append(acc.current, x))
        /\ \A c : In(c, Append(acc.current, x)) <=> In(c, acc.current) \/ c = x
    BY <1>0, <1>2, AppendIs, InAppend, IncreasingAppend DEF Loop
  <2>3. next.batches = acc.batches /\ next.current = Append(acc.current, x)
        /\ next \in [batches : Seq(Seq(C)), current : Seq(C)]
    <3> DEFINE y == Append(acc.current, x)
    <3>1. y \in Seq(C)
      BY <2>2
    <3> HIDE DEF y
    <3>2. /\ [acc EXCEPT !.current = y].batches = acc.batches
          /\ [acc EXCEPT !.current = y].current = y
          /\ [acc EXCEPT !.current = y] \in [batches : Seq(Seq(C)), current : Seq(C)]
      BY <1>0, <3>1
    <3>3. QED BY <3>2 DEF y
  <2> HIDE DEF next
  <2>4. Cut(next.batches) /\ Increasing(next.current)
        /\ \A c : In(c, next.current) => IsConcurrencySafe(c)
    BY <1>3, <2>2, <2>3 DEF Loop
  <2>5. \A c, d : InSome(c, next.batches) /\ In(d, next.current) => c.slot < d.slot
    BY <1>2, <2>2, <2>3 DEF Loop
  <2>6. \A c : InSome(c, next.batches) \/ In(c, next.current) <=> Among(calls, n + 1, c)
    BY <1>1, <2>2, <2>3 DEF Loop
  <2>7. QED BY <2>1, <2>3, <2>4, <2>5, <2>6 DEF Loop, x
<1>4. CASE ~IsConcurrencySafe(x)
  <2> DEFINE f == Flushed(acc.batches, acc.current)
             next == [batches |-> Append(f, <<x>>), current |-> <<>>]
  <2>1. Placed(acc, x) = next
    BY <1>4 DEF Placed
  <2>2. f \in Seq(Seq(C)) /\ Cut(f)
        /\ \A c : InSome(c, f) <=> Among(calls, n, c)
    <3> DEFINE flushed == Flushed(acc.batches, acc.current)
    <3>1. Loop(C, calls, n, acc)
      OBVIOUS
    <3>2. /\ flushed \in Seq(Seq(C)) /\ Cut(flushed)
          /\ \A c : InSome(c, flushed) <=> Among(calls, n, c)
      BY ONLY <3>1, FlushIs
    <3> HIDE DEF flushed
    <3>3. QED BY <3>2 DEF flushed
  <2>3. \A c, d : InSome(c, f) /\ In(d, <<x>>) => c.slot < d.slot
    BY <1>0, <1>2, <2>2, SingleIs DEF Loop
  <2>4. <<x>> \in Seq(C) /\ <<x>> # <<>> /\ Increasing(<<x>>) /\ Alone(<<x>>)
        /\ \A c : In(c, <<x>>) <=> c = x
    BY <1>0, SingleIs DEF Alone
  <2> HIDE DEF f
  <2>5. /\ Append(f, <<x>>) \in Seq(Seq(C)) /\ Cut(Append(f, <<x>>))
        /\ \A c : InSome(c, Append(f, <<x>>)) <=> InSome(c, f) \/ c = x
    BY <2>2, <2>3, <2>4, AddBatch
  <2>6. next.batches = Append(f, <<x>>) /\ next.current = <<>>
        /\ next \in [batches : Seq(Seq(C)), current : Seq(C)]
    BY <2>5, NoneIs
  <2> HIDE DEF next
  <2>7. \A c : ~In(c, next.current)
    BY <2>6, NoneIs
  <2>8. Increasing(next.current)
    BY <2>6, NoneIs
  <2>9. \A c : InSome(c, next.batches) \/ In(c, next.current) <=> Among(calls, n + 1, c)
    BY <1>1, <2>2, <2>5, <2>6, <2>7
  <2>10. QED BY <2>1, <2>5, <2>6, <2>7, <2>8, <2>9 DEF Loop, x
<1>5. QED BY <1>3, <1>4

LEMMA PlacedTypes ==
  ASSUME NEW C, NEW acc \in [batches : Seq(Seq(C)), current : Seq(C)], NEW x \in C
  PROVE  Placed(acc, x) \in [batches : Seq(Seq(C)), current : Seq(C)]
<1>0. acc.batches \in Seq(Seq(C)) /\ acc.current \in Seq(C)
  OBVIOUS
<1>1. CASE IsConcurrencySafe(x)
  <2> DEFINE y == Append(acc.current, x)
  <2>1. y \in Seq(C)
    BY <1>0, AppendIs
  <2>2. Placed(acc, x) = [acc EXCEPT !.current = y]
    BY <1>1 DEF Placed
  <2> HIDE DEF y
  <2>3. QED BY <2>1, <2>2
<1>2. CASE ~IsConcurrencySafe(x)
  <2> DEFINE f == Flushed(acc.batches, acc.current)
  <2>1. f \in Seq(Seq(C))
    BY <1>0, AppendIs DEF Flushed
  <2>2. Placed(acc, x) = [batches |-> Append(f, <<x>>), current |-> <<>>]
    BY <1>2 DEF Placed
  <2> HIDE DEF f
  <2>3. <<x>> \in Seq(C) /\ <<>> \in Seq(C)
    BY SingleIs, NoneIs
  <2>4. Append(f, <<x>>) \in Seq(Seq(C))
    BY <2>1, <2>3, AppendIs
  <2>5. QED BY <2>2, <2>3, <2>4
<1>3. QED BY <1>1, <1>2

\* Every call lands in one batch, in the router's order, and only concurrency-safe
\* calls share one.  (partition_tool_calls, for every list of calls.)
THEOREM PartitionIs ==
  ASSUME NEW C, \A c \in C : c.slot \in Nat, NEW calls \in Seq(C), Increasing(calls)
  PROVE  /\ PartitionToolCalls(calls) \in Seq(Seq(C))
         /\ Cut(PartitionToolCalls(calls))
         /\ \A c : InSome(c, PartitionToolCalls(calls)) <=> In(c, calls)
<1> DEFINE N == Len(calls)
           A == [batches : Seq(Seq(C)), current : Seq(C)]
           b == [batches |-> <<>>, current |-> <<>>]
           After(k) == [n \in 0..N |-> IF n = 0 THEN [batches |-> <<>>, current |-> <<>>]
                                       ELSE Placed(k[n - 1], calls[n])]
           after == CHOOSE k : k = After(k)
           step == [n \in 1..N |-> [k \in A |-> Placed(k, calls[n])]]
<1>0. N \in Nat /\ \A n \in 1..N : calls[n] \in C
  OBVIOUS
<1>1. PartitionToolCalls(calls) = Flushed(after[N].batches, after[N].current)
  BY DEF PartitionToolCalls
<1>2. \E k \in [0..N -> A] : k[0] = b /\ \A n \in 1..N : k[n] = Placed(k[n - 1], calls[n])
  <2>1. \A n \in 1..N, k \in A : Placed(k, calls[n]) \in A
    BY <1>0, PlacedTypes
  <2>2. b \in A
    BY NoneIs
  <2> HIDE DEF A, b, N
  <2>3. step \in [1..N -> [A -> A]] /\ \A n \in 1..N, k \in A : step[n][k] = Placed(k, calls[n])
    BY <2>1
  <2> HIDE DEF step
  <2>4. \E k \in [0..N -> A] : k[0] = b /\ \A n \in 1..N : k[n] = step[n][k[n - 1]]
    <3>1. N \in Nat /\ b \in A /\ step \in [1..N -> [A -> A]]
      BY <1>0, <2>2, <2>3
    <3>2. QED BY ONLY <3>1, Recursion
  <2>5. PICK k \in [0..N -> A] : k[0] = b /\ \A n \in 1..N : k[n] = step[n][k[n - 1]]
    BY <2>4
  <2>6. ASSUME NEW n \in 1..N PROVE k[n - 1] \in A
    BY <1>0
  <2>7. QED BY <2>3, <2>5, <2>6
<1>3. after = After(after)
  <2>1. PICK k \in [0..N -> A] : k[0] = b /\ \A n \in 1..N : k[n] = Placed(k[n - 1], calls[n])
    BY <1>2
  <2>2. k = After(k)
    <3>1. \A n \in 0..N : k[n] = After(k)[n]
      <4>1. ASSUME NEW n \in 0..N, n # 0 PROVE n \in 1..N
        BY <1>0, <4>1
      <4>2. QED BY <2>1, <4>1
    <3> HIDE DEF After
    <3>2. After(k) = [n \in 0..N |-> After(k)[n]]
      BY DEF After
    <3>3. k = [n \in 0..N |-> k[n]]
      OBVIOUS
    <3>4. QED BY <3>1, <3>2, <3>3
  <2> HIDE DEF After
  <2>3. QED BY <2>2
<1>4. after[0] = b /\ \A n \in 1..N : after[n] = Placed(after[n - 1], calls[n])
  <2> HIDE DEF after
  <2>1. \A n \in 0..N : after[n] = After(after)[n]
    BY <1>3
  <2>2. QED BY <1>0, <2>1
<1> DEFINE S == {n \in Nat : n <= N => Loop(C, calls, n, after[n])}
<1> HIDE DEF after
<1>5. Loop(C, calls, 0, after[0])
  <2>1. b \in A /\ b.batches = <<>> /\ b.current = <<>>
    BY NoneIs
  <2>2. Cut(<<>>) /\ \A c : ~InSome(c, <<>>)
    BY DEF Cut, InSome
  <2> HIDE DEF b
  <2>3. Loop(C, calls, 0, b)
    BY <2>1, <2>2, NoneIs DEF Loop, Among
  <2>4. QED BY <1>4, <2>3
<1>6. ASSUME NEW n \in Nat, n + 1 <= N, Loop(C, calls, n, after[n])
      PROVE  Loop(C, calls, n + 1, after[n + 1])
  <2>1. after[n + 1] = Placed(after[n], calls[n + 1])
    BY <1>0, <1>4, <1>6
  <2>2. QED BY <1>6, <2>1, PlacedIs
<1>7. 0 \in S /\ \A n \in Nat : n \in S => n + 1 \in S
  BY <1>0, <1>5, <1>6
<1>8. Loop(C, calls, N, after[N])
  <2>1. N \in S
    <3> HIDE DEF S
    <3>1. QED BY <1>0, <1>7, Induction
  <2>2. QED BY <1>0, <2>1
<1>9. \A c : Among(calls, N, c) <=> In(c, calls)
  BY DEF In, Among
<1>10. /\ Flushed(after[N].batches, after[N].current) \in Seq(Seq(C))
       /\ Cut(Flushed(after[N].batches, after[N].current))
       /\ \A c : InSome(c, Flushed(after[N].batches, after[N].current)) <=>
                Among(calls, N, c)
  <2> DEFINE acc == after[N]
  <2>1. Loop(C, calls, N, acc)
    BY <1>8
  <2> HIDE DEF acc, N
  <2>2. /\ Flushed(acc.batches, acc.current) \in Seq(Seq(C))
        /\ Cut(Flushed(acc.batches, acc.current))
        /\ \A c : InSome(c, Flushed(acc.batches, acc.current)) <=>
                 Among(calls, N, c)
    BY ONLY <2>1, FlushIs
  <2>3. QED BY <2>2 DEF acc
<1>11. QED BY <1>1, <1>9, <1>10

-----------------------------------------------------------------------------
(* The service, as one request sees it *)

Status == {"absent", "pending", "running", "completed", "failed"}
Phase == {"idle", "waiting", "returned", "gone"}

\* Call c of await_completion asks for task c; what it has heard, or was answered, is
\* how task c ended.  Nothing cancels a task, so an end is final.
ServiceInv ==
  /\ status \in [Calls -> Status]
  /\ phase \in [Calls -> Phase]
  /\ asked = [c \in Calls |-> c]
  /\ news \in [Calls -> SUBSET {"completed", "failed"}]
  /\ answer \in [Calls -> {"none", "completed", "failed"}]
  /\ \A c \in Calls :
       /\ phase[c] # "waiting" => news[c] = {}
       /\ \A o \in news[c] : status[c] = o
       /\ answer[c] # "none" => status[c] = answer[c]

\* A task that has ended stays as it is.
Settled == \A c \in Calls : status[c] \in {"completed", "failed"} => status'[c] = status[c]

LEMMA CallsIs == ASSUME NEW c \in Calls PROVE c = <<c[1], c[2]>> /\ c[1] \in Turns /\ c[2] \in Slots
BY DEF Calls

LEMMA SubmitKeeps ==
  ASSUME ServiceInv, NEW c \in Calls, Service!Submit(c)
  PROVE  ServiceInv' /\ Settled
BY DEF ServiceInv, Settled, Service!Submit, Status

LEMMA RunKeeps ==
  ASSUME ServiceInv, NEW c \in Calls, Service!Run(c)
  PROVE  ServiceInv' /\ Settled
BY DEF ServiceInv, Settled, Service!Run, Status

LEMMA FinishKeeps ==
  ASSUME ServiceInv, NEW c \in Calls, Service!Finish(c)
  PROVE  ServiceInv' /\ Settled
<1>1. status[c] = "running" /\ UNCHANGED <<phase, asked, answer>>
  BY DEF ServiceInv, Status, Service!Finish, Service!Publish
<1>2. PICK o \in {"completed", "failed"},
           heard \in SUBSET {a \in Calls : phase[a] = "waiting" /\ asked[a] = c} :
        /\ status' = [status EXCEPT ![c] = o]
        /\ news' = [a \in Calls |-> IF a \in heard THEN news[a] \cup {o} ELSE news[a]]
  BY DEF Service!Finish, Service!Publish
<1>3. \A a \in heard : a = c /\ phase[c] = "waiting"
  BY <1>2 DEF ServiceInv
<1>4. news[c] = {} /\ answer[c] = "none"
  BY <1>1 DEF ServiceInv
<1>5. status' \in [Calls -> Status] /\ news' \in [Calls -> SUBSET {"completed", "failed"}]
  BY <1>2 DEF ServiceInv, Status
<1>6. \A a \in Calls : status'[a] = IF a = c THEN o ELSE status[a]
  BY <1>2 DEF ServiceInv
<1>7. \A a \in Calls : news'[a] = IF a \in heard THEN news[a] \cup {o} ELSE news[a]
  BY <1>2
<1>8. ASSUME NEW a \in Calls
      PROVE  /\ phase[a] # "waiting" => news'[a] = {}
             /\ \A e \in news'[a] : status'[a] = e
             /\ answer[a] # "none" => status'[a] = answer[a]
  BY <1>2, <1>3, <1>4, <1>6, <1>7 DEF ServiceInv
<1>9. QED BY <1>1, <1>5, <1>6, <1>8 DEF ServiceInv, Settled

LEMMA AskKeeps ==
  ASSUME ServiceInv, NEW c \in Calls, Service!Ask(c, c)
  PROVE  ServiceInv' /\ Settled
<1>1. asked' = asked /\ UNCHANGED <<status, news>>
  BY DEF ServiceInv, Service!Ask
<1>2. phase[c] = "idle"
  BY DEF Service!Ask
<1>3. CASE status[c] \in Service!Outcome
  BY <1>1, <1>2, <1>3 DEF ServiceInv, Settled, Service!Ask, Service!Outcome, Phase, Status
<1>4. CASE status[c] \notin Service!Outcome
  BY <1>1, <1>2, <1>4 DEF ServiceInv, Settled, Service!Ask, Phase
<1>5. QED BY <1>3, <1>4

LEMMA AnswerKeeps ==
  ASSUME ServiceInv, NEW c \in Calls, Service!Answer(c)
  PROVE  ServiceInv' /\ Settled
<1>1. PICK o \in news[c] : answer' = [answer EXCEPT ![c] = o]
  BY DEF Service!Answer
<1>2. phase' = [phase EXCEPT ![c] = "returned"] /\ news' = [news EXCEPT ![c] = {}]
      /\ UNCHANGED <<status, asked>>
  BY DEF Service!Answer
<1>3. o \in {"completed", "failed"} /\ status[c] = o
  BY <1>1 DEF ServiceInv
<1>4. QED BY <1>1, <1>2, <1>3 DEF ServiceInv, Settled, Phase

LEMMA ExpireKeeps ==
  ASSUME ServiceInv, NEW c \in Calls, WaitExpires(c)
  PROVE  ServiceInv' /\ Settled
BY DEF ServiceInv, Settled, WaitExpires, Phase

LEMMA AbandonKeeps ==
  ASSUME ServiceInv, AbandonWaits
  PROVE  ServiceInv' /\ Settled
BY DEF ServiceInv, Settled, AbandonWaits, Phase

-----------------------------------------------------------------------------
(* The inductive invariant *)

Planned(c) == In(c, plan[turn]) /\ c.kind # "denied"

\* Where the generator is, what the execute task does then, and which turns are over.
Flow ==
  /\ plan \in [Turns -> Plans]
  /\ exec \in {"running", "failed"} => at \in {"executing", "ended"}
  /\ at \in {"awaiting", "washing", "rendering"} => exec = "done"
  /\ exec # "running" => batch = <<>> /\ batches = <<>>
  /\ at = "routing" => results = <<>> /\ plan[turn] = <<>>
  /\ \A n \in Turns : n > turn => plan[n] = <<>> /\ shown[n] = <<>>
  /\ at # "ended" => shown[turn] = <<>>
  /\ client = "connected" => (at = "ended" <=> terminal # "none")

\* Where the allowed calls of the turn are: ended, in the batch that runs, or in one
\* of the batches to come; in the order of the router's answer.
Places ==
  /\ Cut(batches) /\ Increasing(batch) /\ Alone(batch)
  /\ \A c, d \in Call : In(c, batch) /\ InSome(d, batches) => c.slot < d.slot
  /\ \A c \in Call :
       /\ In(c, batch) => Planned(c) /\ tool[c.slot] # "idle"
       /\ InSome(c, batches) => Planned(c) /\ tool[c.slot] = "idle"
       /\ Planned(c) /\ tool[c.slot] = "running" => In(c, batch)
       /\ exec = "running" /\ Planned(c) /\ tool[c.slot] = "idle" => InSome(c, batches)
  /\ \A c, d \in Call : Planned(c) /\ Planned(d) /\ c.slot < d.slot =>
       /\ tool[c.slot] = "idle" => tool[d.slot] = "idle"
       /\ In(c, batch) /\ ~In(d, batch) => tool[d.slot] = "idle"

HasRow(c, rows) == \E i \in 1..Len(rows) : rows[i].call = c

OneRowEach(rows) == \A i, j \in 1..Len(rows) : rows[i].call = rows[j].call => i = j

\* No call has two rows; a call that has none has not been run to its end.
Rows ==
  at \in {"executing", "awaiting", "washing", "rendering"} /\ exec # "failed" =>
    /\ OneRowEach(results)
    /\ \A c \in Call :
         /\ HasRow(c, results) => In(c, plan[turn]) /\ ~In(c, batch) /\ ~InSome(c, batches)
         /\ In(c, plan[turn]) => HasRow(c, results) \/ In(c, batch) \/ InSome(c, batches)

\* Who waits, waits for a task that a row of this turn names.
Waits ==
  \A c \in Calls : phase[c] = "waiting" =>
    at = "awaiting" /\ \E i \in 1..Len(results) : results[i].task /\ TheTask(results[i]) = c

Own(r, n, text) ==
  r.task /\ r.status = "SUCCESS" => text = "outcome" /\ status[<<n, r.call.slot>>] = "completed"

\* From the end of the waits on, a task's row that says SUCCESS has its outcome.
Honest ==
  /\ at = "washing" /\ OwnIds(turn) =>
       \A i \in 1..Len(results) : Own(results[i], turn, results[i].raw)
  /\ at = "rendering" /\ OwnIds(turn) =>
       \A i \in 1..Len(results) : Own(results[i], turn, results[i].washed)
  /\ NoFabricatedSuccess

IInv ==
  /\ TypeOK /\ ServiceInv /\ Flow /\ Places /\ Rows /\ Waits /\ Honest
  /\ EveryCallAnswered

-----------------------------------------------------------------------------
(* Facts about the state that the proofs below share *)

LEMMA RowIs ==
  ASSUME NEW T, NEW n \in Nat, NEW f \in [1..n -> T]
  PROVE  f \in Seq(T) /\ Len(f) = n
OBVIOUS

LEMMA InOf ==
  ASSUME NEW S, NEW s \in Seq(S), NEW c, In(c, s)
  PROVE  c \in S
BY DEF In

LEMMA InSomeOf ==
  ASSUME NEW S, NEW bs \in Seq(Seq(S)), NEW c, InSome(c, bs)
  PROVE  c \in S
<1>1. PICK k \in 1..Len(bs) : In(c, bs[k])
  BY DEF InSome
<1>2. bs[k] \in Seq(S)
  OBVIOUS
<1>3. QED BY <1>1, <1>2, InOf

LEMMA PlanIs ==
  ASSUME NEW p \in Plans
  PROVE  /\ p \in Seq(Call) /\ DOMAIN p = 1..Len(p) /\ Len(p) <= MaxCalls
         /\ \A i \in 1..Len(p) : p[i] \in Call /\ p[i].slot = i
         /\ Increasing(p)
         /\ \A c : In(c, p) => c \in Call /\ c.slot \in 1..Len(p) /\ p[c.slot] = c
<1>1. PICK n \in 0..MaxCalls : p \in [1..n -> Call] /\ \A i \in 1..n : p[i].slot = i
  BY DEF Plans
<1>2. n \in Nat /\ n <= MaxCalls
  BY TheaterAssumption
<1>3. p \in Seq(Call) /\ Len(p) = n /\ DOMAIN p = 1..n
  BY <1>1, <1>2, RowIs
<1>4. \A i \in 1..Len(p) : p[i] \in Call /\ p[i].slot = i
  BY <1>1, <1>3
<1>5. Increasing(p)
  BY <1>4 DEF Increasing
<1>6. \A c : In(c, p) => c \in Call /\ c.slot \in 1..Len(p) /\ p[c.slot] = c
  BY <1>4 DEF In
<1>7. QED BY <1>2, <1>3, <1>4, <1>5, <1>6

LEMMA CallIs == \A c \in Call : c.slot \in Slots /\ c.slot \in Nat /\ c.kind \in Kind
BY TheaterAssumption DEF Call, Slots

LEMMA EmptyPlan == <<>> \in Plans
<1>1. 0 \in 0..MaxCalls
  BY TheaterAssumption
<1>2. <<>> \in {p \in [1..0 -> Call] : \A i \in 1..0 : p[i].slot = i}
  OBVIOUS
<1>3. QED BY <1>1, <1>2 DEF Plans

LEMMA AllowedIs ==
  ASSUME NEW p \in Plans
  PROVE  /\ Allowed(p) \in Seq(Call) /\ Increasing(Allowed(p))
         /\ \A c : In(c, Allowed(p)) <=> In(c, p) /\ c.kind # "denied"
<1>1. p \in Seq(Call) /\ Increasing(p) /\ \A c : In(c, p) => c \in Call
  BY PlanIs
<1>2. /\ OfKind(p, Kind \ {"denied"}) \in Seq(Call)
      /\ Increasing(OfKind(p, Kind \ {"denied"}))
      /\ \A c : In(c, OfKind(p, Kind \ {"denied"})) <=> In(c, p) /\ c.kind \in Kind \ {"denied"}
  BY <1>1, CallIs, OfKindIs
<1>3. QED BY <1>1, <1>2, CallIs DEF Allowed

LEMMA DeniedIs ==
  ASSUME NEW p \in Plans
  PROVE  /\ Denied(p) \in Seq(Call) /\ Increasing(Denied(p))
         /\ \A c : In(c, Denied(p)) <=> In(c, p) /\ c.kind = "denied"
<1>1. p \in Seq(Call) /\ Increasing(p)
  BY PlanIs
<1>2. /\ OfKind(p, {"denied"}) \in Seq(Call)
      /\ Increasing(OfKind(p, {"denied"}))
      /\ \A c : In(c, OfKind(p, {"denied"})) <=> In(c, p) /\ c.kind \in {"denied"}
  BY <1>1, CallIs, OfKindIs
<1>3. QED BY <1>2 DEF Denied

LEMMA BatchesIs ==
  ASSUME NEW p \in Plans
  PROVE  /\ PartitionToolCalls(Allowed(p)) \in Seq(Seq(Call))
         /\ Cut(PartitionToolCalls(Allowed(p)))
         /\ \A c : InSome(c, PartitionToolCalls(Allowed(p))) <=> In(c, p) /\ c.kind # "denied"
<1>1. /\ Allowed(p) \in Seq(Call) /\ Increasing(Allowed(p))
      /\ \A c : In(c, Allowed(p)) <=> In(c, p) /\ c.kind # "denied"
  BY AllowedIs
<1>2. /\ PartitionToolCalls(Allowed(p)) \in Seq(Seq(Call))
      /\ Cut(PartitionToolCalls(Allowed(p)))
      /\ \A c : InSome(c, PartitionToolCalls(Allowed(p))) <=> In(c, Allowed(p))
  <2> DEFINE a == Allowed(p)
  <2>1. a \in Seq(Call) /\ Increasing(a) /\ \A c \in Call : c.slot \in Nat
    BY <1>1, CallIs
  <2> HIDE DEF a
  <2>2. /\ PartitionToolCalls(a) \in Seq(Seq(Call)) /\ Cut(PartitionToolCalls(a))
        /\ \A c : InSome(c, PartitionToolCalls(a)) <=> In(c, a)
    BY ONLY <2>1, PartitionIs
  <2>3. QED BY <2>2 DEF a
<1>3. QED BY <1>1, <1>2

\* The batch that begins, and those that stay behind it.
LEMMA HeadIs ==
  ASSUME NEW C, NEW bs \in Seq(Seq(C)), bs # <<>>, Cut(bs)
  PROVE  /\ Head(bs) \in Seq(C) /\ Tail(bs) \in Seq(Seq(C))
         /\ Cut(Tail(bs)) /\ Increasing(Head(bs)) /\ Alone(Head(bs))
         /\ \A c : InSome(c, bs) <=> In(c, Head(bs)) \/ InSome(c, Tail(bs))
         /\ \A c, d : In(c, Head(bs)) /\ InSome(d, Tail(bs)) => c.slot < d.slot
<1> DEFINE B == Seq(C)
           t == Tail(bs)
           h == Head(bs)
<1>1. /\ h = bs[1] /\ h \in B /\ t \in Seq(B) /\ 1 \in 1..Len(bs) /\ Len(bs) \in Nat
      /\ Len(t) = Len(bs) - 1 /\ \A k \in 1..Len(t) : t[k] = bs[k + 1]
  <2> HIDE DEF B
  <2>1. bs \in Seq(B)
    BY DEF B
  <2>2. QED BY <2>1
<1> HIDE DEF t, h
<1>2. \A k \in 1..Len(t) : k \in Nat /\ k + 1 \in 1..Len(bs) /\ t[k] = bs[k + 1] /\ 1 < k + 1
  BY <1>1
<1>3. \A k \in 1..Len(bs) : k = 1 \/ (k - 1 \in 1..Len(t) /\ bs[k] = t[k - 1])
  BY <1>1
<1>4. Cut(t)
  <2>1. \A k \in 1..Len(t) : t[k] # <<>> /\ Increasing(t[k]) /\ Alone(t[k])
    BY <1>2 DEF Cut
  <2>2. ASSUME NEW k \in 1..Len(t), NEW l \in 1..Len(t), k < l PROVE Before(t[k], t[l])
    <3>1. k + 1 < l + 1
      BY <1>2, <2>2
    <3>2. QED BY <1>2, <3>1 DEF Cut
  <2>3. QED BY <2>1, <2>2 DEF Cut
<1>5. \A c : InSome(c, bs) <=> In(c, h) \/ InSome(c, t)
  BY <1>1, <1>2, <1>3 DEF InSome
<1>6. \A c, d : In(c, h) /\ InSome(d, t) => c.slot < d.slot
  <2>1. \A k \in 1..Len(t) : Before(bs[1], bs[k + 1])
    BY <1>1, <1>2 DEF Cut
  <2>2. QED BY <1>1, <1>2, <2>1 DEF Before, InSome
<1>7. Increasing(h) /\ Alone(h)
  BY <1>1 DEF Cut
<1>8. QED BY <1>1, <1>4, <1>5, <1>6, <1>7 DEF t, h

-----------------------------------------------------------------------------
(* What each step does to the service, and to the shape of the state *)

LEMMA ServiceStep ==
  ASSUME TypeOK, ServiceInv, [Next]_vars
  PROVE  ServiceInv' /\ Settled
<1>1. ASSUME UNCHANGED service PROVE ServiceInv' /\ Settled
  BY <1>1 DEF service, ServiceInv, Settled
<1>2. CASE GeneratorStep
  <2>1. ASSUME NEW i \in 1..MaxCalls, BeginWait(i) PROVE ServiceInv' /\ Settled
    <3>1. i \in DOMAIN results /\ Service!Ask(TheTask(results[i]), TheTask(results[i]))
      BY <2>1 DEF BeginWait
    <3>2. results[i] \in Result /\ turn \in Turns
      BY <3>1 DEF TypeOK
    <3>3. TheTask(results[i]) \in Calls
      BY <3>2 DEF TheTask, Calls, Result, Call
    <3>4. QED BY <3>1, <3>3, AskKeeps
  <2>2. CASE \E p \in Plans : RouteCalls(p)
    BY <1>1, <2>2 DEF RouteCalls
  <2>3. CASE RoutePasses \/ LlmTimeout \/ LlmError \/ Collect \/ CollectSevered
    BY <1>1, <2>3 DEF RoutePasses, LlmTimeout, LlmError, Collect, CollectSevered, EndsWith
  <2>4. CASE WaitOver \/ Wash \/ Render \/ Synthesize \/ StreamReply
    BY <1>1, <2>4 DEF WaitOver, Wash, Render, Synthesize, StreamReply
  <2>5. QED BY <1>2, <2>1, <2>2, <2>3, <2>4 DEF GeneratorStep
<1>3. CASE ExecuteStep
  <2>1. ASSUME NEW b \in 1..MaxCalls, NEW o \in ToolState, FinishTool(b, o)
        PROVE  ServiceInv' /\ Settled
    <3>1. CASE o = "started"
      <4>1. b \in DOMAIN batch /\ Service!Submit(<<turn, batch[b].slot>>)
        BY <2>1, <3>1 DEF FinishTool
      <4>2. batch[b] \in Call /\ turn \in Turns
        BY <4>1 DEF TypeOK
      <4>3. <<turn, batch[b].slot>> \in Calls
        BY <4>2 DEF Calls, Call
      <4>4. QED BY <4>1, <4>3, SubmitKeeps
    <3>2. CASE o # "started"
      BY <1>1, <2>1, <3>2 DEF FinishTool
    <3>3. QED BY <3>1, <3>2
  <2>2. CASE StartBatch \/ EndBatch \/ BatchSevered \/ EndExecute
    BY <1>1, <2>2 DEF StartBatch, EndBatch, BatchSevered, EndExecute
  <2>3. QED BY <1>3, <2>1, <2>2 DEF ExecuteStep
<1>4. CASE WaitStep
  BY <1>4, AnswerKeeps, ExpireKeeps DEF WaitStep, WaitAnswered
<1>5. CASE ClientGoes
  BY <1>5, AbandonKeeps DEF ClientGoes
<1>6. CASE Background
  BY <1>6, RunKeeps, FinishKeeps DEF Background
<1>7. CASE UNCHANGED vars
  BY <1>1, <1>7 DEF vars
<1>8. QED BY <1>2, <1>3, <1>4, <1>5, <1>6, <1>7 DEF Next

LEMMA FlowStep ==
  ASSUME TypeOK, Flow, [Next]_vars
  PROVE  Flow'
<1> USE DEF Flow
<1>1. ASSUME NEW p \in Plans, RouteCalls(p) PROVE Flow'
  <2>1. at = "routing" /\ at' = "executing" /\ exec' = "running"
        /\ plan' = [plan EXCEPT ![turn] = p] /\ UNCHANGED <<turn, shown, client, terminal>>
    BY <1>1 DEF RouteCalls, stream
  <2>2. plan' \in [Turns -> Plans] /\ turn \in Turns /\ \A n \in Turns : n > turn => plan'[n] = plan[n]
    BY <2>1 DEF TypeOK, Turns
  <2>3. QED BY <2>1, <2>2
<1>2. CASE RoutePasses \/ LlmTimeout \/ LlmError \/ Collect \/ CollectSevered
  BY <1>2 DEF RoutePasses, LlmTimeout, LlmError, Collect, CollectSevered, EndsWith, run, story,
    stream
<1>3. ASSUME NEW i \in 1..MaxCalls, BeginWait(i) PROVE Flow'
  BY <1>3 DEF BeginWait, run, story, stream
<1>4. CASE WaitOver \/ Wash \/ Synthesize \/ StreamReply
  BY <1>4 DEF WaitOver, Wash, Synthesize, StreamReply, run, story, stream
<1>5. CASE Render
  <2>1. at = "rendering" /\ shown' = [shown EXCEPT ![turn] = results] /\ results' = <<>>
        /\ UNCHANGED <<plan, exec, batches, batch, client>>
    BY <1>5 DEF Render, run
  <2>2. turn \in Turns /\ turn \in Nat /\ shown \in [Turns -> Seq(Result)]
    BY DEF TypeOK, Turns
  <2>3. \A n \in Turns : n > turn => shown'[n] = <<>> /\ plan'[n] = <<>>
    BY <2>1, <2>2
  <2>4. CASE turn < MaxTurns /\ turn' = turn + 1 /\ at' = "routing" /\ UNCHANGED terminal
    <3>1. turn' \in Turns /\ turn' > turn
      BY <2>2, <2>4, TheaterAssumption DEF Turns
    <3>2. \A n \in Turns : n > turn' => n > turn
      BY <2>2, <2>4 DEF Turns
    <3>3. QED BY <2>1, <2>3, <2>4, <3>1, <3>2
  <2>5. CASE at' = "ended" /\ terminal' = "error" /\ UNCHANGED turn
    BY <2>1, <2>3, <2>5
  <2>6. QED BY <1>5, <2>4, <2>5 DEF Render, MoreTurns
<1>6. CASE StartBatch \/ EndBatch \/ BatchSevered \/ EndExecute
  BY <1>6 DEF StartBatch, EndBatch, BatchSevered, EndExecute, story, stream
<1>7. ASSUME NEW b \in 1..MaxCalls, NEW o \in ToolState, FinishTool(b, o) PROVE Flow'
  BY <1>7 DEF FinishTool, story, stream
<1>8. ASSUME NEW c \in Calls, WaitAnswered(c) \/ WaitExpires(c) PROVE Flow'
  BY <1>8 DEF WaitAnswered, WaitExpires, run, story, stream
<1>9. CASE ClientGoes
  BY <1>9 DEF ClientGoes, run, story, Awaiting
<1>10. CASE Background \/ UNCHANGED vars
  BY <1>10 DEF Background, vars, run, story, stream
<1>11. QED
  BY <1>1, <1>2, <1>3, <1>4, <1>5, <1>6, <1>7, <1>8, <1>9, <1>10
  DEF Next, GeneratorStep, ExecuteStep, WaitStep

\* The rows that a step writes are rows.
LEMMA DeniedRows ==
  ASSUME NEW p \in Plans, NEW named \in [Slots -> BOOLEAN]
  PROVE  [i \in DOMAIN Denied(p) |-> DeniedResult(Denied(p)[i], named[Denied(p)[i].slot])]
           \in [1..Len(Denied(p)) -> Result]
<1>1. Denied(p) \in Seq(Call)
  BY DeniedIs
<1> DEFINE d == Denied(p)
<1> HIDE DEF d
<1>2. DOMAIN d = 1..Len(d) /\ \A i \in 1..Len(d) : d[i] \in Call /\ d[i].slot \in Slots
  BY <1>1, CallIs DEF d
<1>3. \A i \in 1..Len(d) : DeniedResult(d[i], named[d[i].slot]) \in Result
  BY <1>2 DEF DeniedResult, Result, Text
<1>4. [i \in DOMAIN d |-> DeniedResult(d[i], named[d[i].slot])] \in [1..Len(d) -> Result]
  BY <1>2, <1>3
<1>5. QED BY <1>4 DEF d

LEMMA ExecutedIs ==
  ASSUME NEW c \in Call, tool[c.slot] \in ToolState \ {"idle", "running", "severed"}
  PROVE  Executed(c) \in Result /\ Executed(c).call = c
BY DEF Executed, Result, Text, ToolState, StatusOf

LEMMA BatchRows ==
  ASSUME TypeOK, Places, BatchOver, ~Severed
  PROVE  /\ [b \in DOMAIN batch |-> Executed(batch[b])] \in [1..Len(batch) -> Result]
         /\ \A b \in 1..Len(batch) : Executed(batch[b]) \in Result /\ Executed(batch[b]).call = batch[b]
<1>1. batch \in Seq(Call) /\ DOMAIN batch = 1..Len(batch)
  BY DEF TypeOK
<1>2. ASSUME NEW b \in 1..Len(batch)
      PROVE  batch[b] \in Call /\ tool[batch[b].slot] \in ToolState \ {"idle", "running", "severed"}
  <2>1. batch[b] \in Call /\ In(batch[b], batch)
    BY <1>1 DEF In
  <2>2. tool[batch[b].slot] \in ToolState
    BY <2>1, CallIs DEF TypeOK
  <2>3. tool[batch[b].slot] # "idle"
    BY <2>1 DEF Places
  <2>4. tool[batch[b].slot] \notin {"running", "severed"}
    BY <1>1 DEF BatchOver, Severed
  <2>5. QED BY <2>1, <2>2, <2>3, <2>4
<1>3. \A b \in 1..Len(batch) : Executed(batch[b]) \in Result /\ Executed(batch[b]).call = batch[b]
  BY <1>2, ExecutedIs
<1> HIDE DEF Executed
<1>4. QED BY <1>1, <1>3

LEMMA PatchedIs ==
  ASSUME TypeOK, NEW i \in DOMAIN results
  PROVE  /\ Patched(i) \in Result /\ Patched(i).call = results[i].call
         /\ Patched(i).task = results[i].task
<1> DEFINE r == results[i]
<1>1. r \in Result
  BY DEF TypeOK
<1>2. \/ Patched(i) = r
      \/ Patched(i) = [r EXCEPT !.status = "SUCCESS", !.raw = "outcome", !.washed = "outcome"]
      \/ Patched(i) = [r EXCEPT !.status = "ERROR", !.washed = "task_failed"]
      \/ Patched(i) = [r EXCEPT !.status = "ERROR", !.washed = "await_failed"]
  BY DEF Patched
<1> HIDE DEF r
<1>3. QED BY <1>1, <1>2 DEF Result, Text, r

LEMMA WashedIs ==
  ASSUME NEW r \in Result
  PROVE  /\ [r EXCEPT !.washed = r.raw] \in Result /\ [r EXCEPT !.washed = r.raw].call = r.call
         /\ [r EXCEPT !.washed = r.raw].task = r.task
         /\ [r EXCEPT !.washed = r.raw].status = r.status
         /\ [r EXCEPT !.washed = r.raw].washed = r.raw
BY DEF Result

LEMMA TypeStep ==
  ASSUME TypeOK, Flow, Places, [Next]_vars
  PROVE  TypeOK'
<1> USE DEF TypeOK
<1>1. ASSUME NEW p \in Plans, RouteCalls(p) PROVE TypeOK'
  <2>1. p \in Seq(Call) /\ batches' \in Seq(Seq(Call)) /\ batch' \in Seq(Call)
    BY <1>1, PlanIs, BatchesIs DEF RouteCalls
  <2>2. results' \in Seq(Result)
    <3>1. PICK named \in [Slots -> BOOLEAN] :
            results' = [i \in DOMAIN Denied(p) |->
                          DeniedResult(Denied(p)[i], named[Denied(p)[i].slot])]
      BY <1>1 DEF RouteCalls
    <3>2. results' \in [1..Len(Denied(p)) -> Result] /\ Len(Denied(p)) \in Nat
      <4>1. Denied(p) \in Seq(Call)
        BY DeniedIs
      <4>2. [i \in DOMAIN Denied(p) |-> DeniedResult(Denied(p)[i], named[Denied(p)[i].slot])]
              \in [1..Len(Denied(p)) -> Result]
        BY DeniedRows
      <4>3. QED BY <3>1, <4>1, <4>2
    <3>3. QED BY <3>2, RowIs
  <2>3. at' \in Awaiting /\ exec' = "running" /\ tool' \in [Slots -> ToolState]
        /\ plan' \in [Turns -> Seq(Call)]
    BY <1>1, <2>1 DEF RouteCalls, Awaiting, ToolState
  <2>4. UNCHANGED <<turn, shown, client, terminal>>
    BY <1>1 DEF RouteCalls, stream
  <2>5. QED BY <2>1, <2>2, <2>3, <2>4
<1>2. CASE RoutePasses \/ LlmTimeout \/ LlmError \/ Collect \/ CollectSevered
  BY <1>2 DEF RoutePasses, LlmTimeout, LlmError, Collect, CollectSevered, EndsWith, run, story,
    stream, Awaiting, Over
<1>3. ASSUME NEW i \in 1..MaxCalls, BeginWait(i) PROVE TypeOK'
  BY <1>3 DEF BeginWait, run, story, stream
<1>4. CASE WaitOver
  <2>1. results' \in [1..Len(results) -> Result]
    <3>1. results' = [i \in DOMAIN results |-> Patched(i)] /\ DOMAIN results = 1..Len(results)
      BY <1>4 DEF WaitOver
    <3>2. \A i \in DOMAIN results : Patched(i) \in Result
      BY PatchedIs
    <3>3. QED BY <3>1, <3>2
  <2>2. results' \in Seq(Result)
    <3>1. Len(results) \in Nat
      OBVIOUS
    <3>2. QED BY <2>1, <3>1, RowIs
  <2>3. QED BY <1>4, <2>2 DEF WaitOver, run, story, stream, Awaiting
<1>5. CASE Wash
  <2>1. results' \in [1..Len(results) -> Result]
    <3>1. results' = [i \in DOMAIN results |-> [results[i] EXCEPT !.washed = results[i].raw]]
          /\ DOMAIN results = 1..Len(results)
      BY <1>5 DEF Wash
    <3>2. \A i \in DOMAIN results : [results[i] EXCEPT !.washed = results[i].raw] \in Result
      BY WashedIs
    <3>3. QED BY <3>1, <3>2
  <2>2. results' \in Seq(Result)
    <3>1. Len(results) \in Nat
      OBVIOUS
    <3>2. QED BY <2>1, <3>1, RowIs
  <2>3. QED BY <1>5, <2>2 DEF Wash, run, story, stream, Awaiting
<1>6. CASE Render
  <2>1. turn' \in Turns
    BY <1>6, TheaterAssumption DEF Render, MoreTurns, Turns
  <2>2. shown' \in [Turns -> Seq(Result)] /\ results' = <<>> /\ results' \in Seq(Result)
    BY <1>6 DEF Render
  <2>3. QED BY <1>6, <2>1, <2>2 DEF Render, run, Awaiting, Over
<1>7. CASE Synthesize \/ StreamReply
  BY <1>7 DEF Synthesize, StreamReply, run, story, stream, Awaiting, Over
<1>8. CASE StartBatch
  <2>1. batch' \in Seq(Call) /\ batches' \in Seq(Seq(Call))
    BY <1>8, HeadIs DEF StartBatch, Places
  <2>2. tool' \in [Slots -> ToolState]
    BY <1>8 DEF StartBatch, ToolState
  <2>3. QED BY <1>8, <2>1, <2>2 DEF StartBatch, story, stream
<1>9. CASE EndBatch
  <2> DEFINE rows == [b \in DOMAIN batch |-> Executed(batch[b])]
  <2>1. rows \in Seq(Result)
    <3>1. rows \in [1..Len(batch) -> Result] /\ Len(batch) \in Nat
      BY <1>9, BatchRows DEF EndBatch
    <3> HIDE DEF rows
    <3>2. QED BY <3>1, RowIs
  <2>2. results' = results \o rows
    BY <1>9 DEF EndBatch
  <2> HIDE DEF rows
  <2>3. results' \in Seq(Result)
    BY <2>1, <2>2
  <2>4. QED BY <1>9, <2>3 DEF EndBatch, story, stream
<1>10. CASE BatchSevered \/ EndExecute
  <2>1. exec' \in {"done", "failed"} /\ batch' = <<>> /\ batches' = <<>>
    BY <1>10 DEF BatchSevered, EndExecute
  <2>2. batch' \in Seq(Call) /\ batches' \in Seq(Seq(Call))
    BY <2>1
  <2>3. QED BY <1>10, <2>1, <2>2 DEF BatchSevered, EndExecute, story, stream
<1>11. ASSUME NEW b \in 1..MaxCalls, NEW o \in ToolState, FinishTool(b, o) PROVE TypeOK'
  BY <1>11 DEF FinishTool, story, stream
<1>12. ASSUME NEW c \in Calls, WaitAnswered(c) \/ WaitExpires(c) PROVE TypeOK'
  BY <1>12 DEF WaitAnswered, WaitExpires, run, story, stream
<1>13. CASE ClientGoes
  BY <1>13 DEF ClientGoes, run, story, Over
<1>14. CASE Background \/ UNCHANGED vars
  BY <1>14 DEF Background, vars, run, story, stream
<1>15. QED
  BY <1>1, <1>2, <1>3, <1>4, <1>5, <1>6, <1>7, <1>8, <1>9, <1>10, <1>11, <1>12, <1>13, <1>14
  DEF Next, GeneratorStep, ExecuteStep, WaitStep

-----------------------------------------------------------------------------
(* Where the calls of the turn are *)

LEMMA PlannedIs ==
  ASSUME TypeOK, Flow
  PROVE  /\ \A c : Planned(c) => c \in Call
         /\ \A c, d : Planned(c) /\ Planned(d) /\ c.slot = d.slot => c = d
         /\ \A c : In(c, plan[turn]) => c \in Call
         /\ \A c, d : In(c, plan[turn]) /\ In(d, plan[turn]) /\ c.slot = d.slot => c = d
<1>1. plan[turn] \in Plans
  BY DEF TypeOK, Flow
<1>2. \A c : In(c, plan[turn]) => c \in Call /\ plan[turn][c.slot] = c
  BY <1>1, PlanIs
<1>3. QED BY <1>2 DEF Planned

LEMMA NothingPlanned ==
  ASSUME batch = <<>>, batches = <<>>, plan[turn] = <<>>
  PROVE  Places
<1>1. \A c : ~In(c, <<>>) /\ ~InSome(c, <<>>)
  BY DEF In, InSome
<1>2. Increasing(<<>>) /\ Cut(<<>>) /\ Alone(<<>>)
  BY <1>1 DEF Increasing, Cut, Alone
<1>3. QED BY <1>1, <1>2 DEF Places, Planned

LEMMA PlacesRoute ==
  ASSUME TypeOK, Flow, NEW p \in Plans, RouteCalls(p)
  PROVE  Places'
<1>1. /\ plan' = [plan EXCEPT ![turn] = p] /\ turn' = turn /\ turn \in Turns /\ batch' = <<>>
      /\ tool' = [i \in Slots |-> "idle"] /\ batches' = PartitionToolCalls(Allowed(p))
  BY DEF RouteCalls, TypeOK
<1>2. plan'[turn'] = p
  BY <1>1 DEF Flow
<1>3. Cut(batches') /\ \A c : InSome(c, batches') <=> In(c, p) /\ c.kind # "denied"
  BY <1>1, BatchesIs
<1>4. /\ \A c : ~In(c, batch')
      /\ Increasing(batch') /\ Alone(batch')
  BY <1>1 DEF In, Increasing, Alone
<1>5. \A c \in Call : tool'[c.slot] = "idle"
  BY <1>1, CallIs
<1>6. QED BY <1>2, <1>3, <1>4, <1>5 DEF Places, Planned

LEMMA PlacesStart ==
  ASSUME TypeOK, Flow, Places, StartBatch
  PROVE  Places'
<1> DEFINE h == Head(batches)
           t == Tail(batches)
<1>1. /\ exec = "running" /\ batch = <<>> /\ batches # <<>> /\ batch' = h /\ batches' = t
      /\ tool' = [i \in Slots |->
                    IF \E b \in DOMAIN h : h[b].slot = i THEN "running" ELSE tool[i]]
      /\ UNCHANGED <<exec, turn, plan>>
  BY DEF StartBatch, story
<1>2. /\ h \in Seq(Call) /\ Cut(t) /\ Increasing(h) /\ Alone(h)
      /\ \A c : InSome(c, batches) <=> In(c, h) \/ InSome(c, t)
      /\ \A c, d : In(c, h) /\ InSome(d, t) => c.slot < d.slot
  BY <1>1, HeadIs DEF TypeOK, Places
<1> HIDE DEF h, t
<1>3. \A c : In(c, h) \/ InSome(c, t) => c \in Call /\ Planned(c) /\ tool[c.slot] = "idle"
  <2>1. \A c : InSome(c, batches) => c \in Call
    BY InSomeOf DEF TypeOK
  <2>2. QED BY <1>2, <2>1 DEF Places
<1>4. \A c : Planned(c) => c \in Call /\ c.slot \in Slots /\ c.slot \in Nat
  BY PlannedIs, CallIs
<1>5. \A c : Planned(c) => tool'[c.slot] = IF In(c, h) THEN "running" ELSE tool[c.slot]
  <2>1. ASSUME NEW c, Planned(c)
        PROVE  (\E b \in DOMAIN h : h[b].slot = c.slot) <=> In(c, h)
    <3>1. \A b \in DOMAIN h : In(h[b], h) /\ Planned(h[b])
      BY <1>2, <1>3 DEF In
    <3>2. \A b \in DOMAIN h : h[b].slot = c.slot => h[b] = c
      BY <2>1, <3>1, PlannedIs
    <3>3. DOMAIN h = 1..Len(h)
      BY <1>2
    <3>4. QED BY <3>2, <3>3 DEF In
  <2>2. QED BY <1>1, <1>4, <2>1
<1>6. \A c : ~In(c, batch)
  BY <1>1 DEF In
<1>7. \A c \in Call : Planned(c) => Planned(c)'
  BY <1>1 DEF Planned
<1>8. \A c \in Call : Planned(c)' => Planned(c)
  BY <1>1 DEF Planned
<1>9. \A c \in Call : Planned(c) /\ tool[c.slot] = "idle" => In(c, h) \/ InSome(c, t)
  BY <1>1, <1>2 DEF Places
<1>10. \A c \in Call : Planned(c) => tool[c.slot] # "running"
  BY <1>6 DEF Places
<1>11. \A c, d \in Call : Planned(c) /\ Planned(d) /\ c.slot < d.slot /\ tool[c.slot] = "idle"
                            => tool[d.slot] = "idle"
  BY DEF Places
<1>12. \A c \in Call :
         /\ In(c, h) => Planned(c)' /\ tool'[c.slot] # "idle"
         /\ InSome(c, t) => Planned(c)' /\ tool'[c.slot] = "idle"
  <2>1. ASSUME NEW c, InSome(c, t) PROVE ~In(c, h)
    BY <1>2, <1>3, <1>4, <2>1
  <2>2. QED BY <1>3, <1>5, <1>7, <2>1
<1>13. \A c \in Call :
         /\ Planned(c)' /\ tool'[c.slot] = "running" => In(c, h)
         /\ Planned(c)' /\ tool'[c.slot] = "idle" => InSome(c, t)
  BY <1>5, <1>8, <1>9, <1>10
<1>14. ASSUME NEW c \in Call, NEW d \in Call, Planned(c)', Planned(d)', c.slot < d.slot
       PROVE  /\ tool'[c.slot] = "idle" => tool'[d.slot] = "idle"
              /\ In(c, h) /\ ~In(d, h) => tool'[d.slot] = "idle"
  <2>1. Planned(c) /\ Planned(d) /\ c.slot \in Nat /\ d.slot \in Nat
    BY <1>4, <1>8, <1>14
  <2>2. ASSUME tool'[c.slot] = "idle" PROVE tool'[d.slot] = "idle"
    <3>1. InSome(c, t) /\ tool[c.slot] = "idle"
      BY <1>3, <1>13, <1>14, <2>2
    <3>2. ~In(d, h)
      BY <1>2, <1>14, <2>1, <3>1
    <3>3. QED BY <1>5, <1>11, <1>14, <2>1, <3>1, <3>2
  <2>3. ASSUME In(c, h), ~In(d, h) PROVE tool'[d.slot] = "idle"
    <3>1. tool[c.slot] = "idle"
      BY <1>3, <2>3
    <3>2. QED BY <1>5, <1>11, <1>14, <2>1, <2>3, <3>1
  <2>4. QED BY <2>2, <2>3
<1>15. /\ Cut(batches)' /\ Increasing(batch)' /\ Alone(batch)'
       /\ \A c, d \in Call : In(c, batch') /\ InSome(d, batches') => c.slot < d.slot
  <2>1. Cut(batches') /\ Increasing(batch') /\ Alone(batch')
    BY <1>1, <1>2
  <2>2. QED BY <1>1, <1>2, <2>1
<1>16. QED BY <1>1, <1>12, <1>13, <1>14, <1>15 DEF Places

LEMMA PlacesFinish ==
  ASSUME TypeOK, Flow, Places, NEW b, NEW o \in ToolState, FinishTool(b, o)
  PROVE  Places'
<1> DEFINE e == batch[b]
<1>1. /\ b \in 1..Len(batch) /\ tool[e.slot] = "running" /\ tool' = [tool EXCEPT ![e.slot] = o]
      /\ o \notin {"idle", "running"} /\ UNCHANGED <<exec, batch, batches, turn, plan>>
  BY DEF FinishTool, Outcome, story, TypeOK
<1>2. e \in Call /\ In(e, batch) /\ Planned(e)
  <2>1. e \in Call /\ In(e, batch)
    BY <1>1 DEF TypeOK, In
  <2>2. QED BY <2>1 DEF Places
<1> HIDE DEF e
<1>3. \A c \in Call : c.slot \in Slots
  BY CallIs
<1>4. \A c \in Call : tool'[c.slot] = IF c.slot = e.slot THEN o ELSE tool[c.slot]
  BY <1>1, <1>2, <1>3 DEF TypeOK
<1>5. \A c \in Call : (tool'[c.slot] = "idle" <=> tool[c.slot] = "idle")
                      /\ (tool'[c.slot] = "running" => tool[c.slot] = "running")
  BY <1>1, <1>4
<1>6. \A c \in Call : Planned(c)' <=> Planned(c)
  BY <1>1 DEF Planned
<1>7. /\ Cut(batches') /\ Increasing(batch') /\ Alone(batch')
      /\ \A c, d \in Call : In(c, batch') /\ InSome(d, batches') => c.slot < d.slot
  BY <1>1 DEF Places
<1>8. ASSUME NEW c \in Call
      PROVE  /\ In(c, batch) => Planned(c)' /\ tool'[c.slot] # "idle"
             /\ InSome(c, batches) => Planned(c)' /\ tool'[c.slot] = "idle"
             /\ Planned(c)' /\ tool'[c.slot] = "running" => In(c, batch)
             /\ exec = "running" /\ Planned(c)' /\ tool'[c.slot] = "idle" => InSome(c, batches)
  BY <1>5, <1>6 DEF Places
<1>9. ASSUME NEW c \in Call, NEW d \in Call, Planned(c)', Planned(d)', c.slot < d.slot
      PROVE  /\ tool'[c.slot] = "idle" => tool'[d.slot] = "idle"
             /\ In(c, batch) /\ ~In(d, batch) => tool'[d.slot] = "idle"
  BY <1>5, <1>6, <1>9 DEF Places
<1>10. QED BY <1>1, <1>7, <1>8, <1>9 DEF Places

\* The batch is over, or the execute task is.
LEMMA PlacesEnd ==
  ASSUME TypeOK, Flow, Places, EndBatch \/ BatchSevered \/ EndExecute
  PROVE  Places'
<1>1. /\ batch' = <<>> /\ UNCHANGED <<tool, turn, plan>> /\ exec = "running"
      /\ (batches' = batches \/ (batches' = <<>> /\ exec' = "failed"))
  BY DEF EndBatch, BatchSevered, EndExecute, story
<1>2. \A c \in Call : Planned(c)' <=> Planned(c)
  BY <1>1 DEF Planned
<1>3. \A c : ~In(c, batch') /\ ~InSome(c, <<>>)
  BY <1>1 DEF In, InSome
<1>4. Cut(batches') /\ Increasing(batch') /\ Alone(batch')
  <2>1. Cut(<<>>) /\ Increasing(<<>>) /\ Alone(<<>>)
    BY DEF Cut, Increasing, Alone, In
  <2>2. QED BY <1>1, <2>1 DEF Places
<1>5. \A c \in Call : Planned(c) => tool[c.slot] # "running"
  <2>1. CASE EndBatch \/ BatchSevered
    <3>1. BatchOver
      BY <2>1 DEF EndBatch, BatchSevered
    <3>2. \A c : In(c, batch) => tool[c.slot] # "running"
      BY <3>1 DEF BatchOver, In, TypeOK
    <3>3. QED BY <3>2 DEF Places
  <2>2. CASE EndExecute
    <3>1. \A c : ~In(c, batch)
      BY <2>2 DEF EndExecute, In
    <3>2. QED BY <3>1 DEF Places
  <2>3. QED BY <2>1, <2>2
<1>6. ASSUME NEW c \in Call
      PROVE  /\ InSome(c, batches') => Planned(c)' /\ tool'[c.slot] = "idle"
             /\ exec' = "running" /\ Planned(c)' /\ tool'[c.slot] = "idle" => InSome(c, batches')
  <2>1. InSome(c, batches) => Planned(c) /\ tool[c.slot] = "idle"
    BY DEF Places
  <2>2. Planned(c) /\ tool[c.slot] = "idle" => InSome(c, batches)
    BY <1>1 DEF Places
  <2>3. QED BY <1>1, <1>2, <1>3, <2>1, <2>2
<1>7. \A c, d \in Call : Planned(c)' /\ Planned(d)' /\ c.slot < d.slot =>
        (tool'[c.slot] = "idle" => tool'[d.slot] = "idle")
  BY <1>1, <1>2 DEF Places
<1>8. QED BY <1>1, <1>2, <1>3, <1>4, <1>5, <1>6, <1>7 DEF Places

LEMMA PlacesStep ==
  ASSUME TypeOK, Flow, Places, [Next]_vars
  PROVE  Places'
<1>1. ASSUME UNCHANGED run, UNCHANGED <<turn, plan>> PROVE Places'
  <2>1. UNCHANGED <<exec, batches, batch, tool>>
    BY <1>1 DEF run
  <2>2. \A c \in Call : Planned(c)' <=> Planned(c)
    BY <1>1 DEF Planned
  <2>3. QED BY <2>1, <2>2 DEF Places
<1>2. CASE GeneratorStep
  <2>1. CASE \E p \in Plans : RouteCalls(p)
    BY <2>1, PlacesRoute
  <2>2. CASE Render
    <3>1. UNCHANGED <<run, plan>> /\ at = "rendering"
          /\ (UNCHANGED turn \/ (turn' = turn + 1 /\ turn < MaxTurns))
      BY <2>2 DEF Render, MoreTurns
    <3>2. CASE UNCHANGED turn
      BY <1>1, <3>1, <3>2
    <3>3. CASE turn' = turn + 1 /\ turn < MaxTurns
      <4>1. turn' \in Turns /\ turn' > turn
        BY <3>3, TheaterAssumption DEF TypeOK, Turns
      <4>2. batch' = <<>> /\ batches' = <<>> /\ plan'[turn'] = <<>>
        BY <3>1, <4>1 DEF Flow, run
      <4>3. Places'
        <5>1. (batch = <<>> /\ batches = <<>> /\ plan[turn] = <<>>)'
          BY <4>2
        <5>2. (batch = <<>> /\ batches = <<>> /\ plan[turn] = <<>> => Places)'
          BY NothingPlanned, PTL
        <5>3. QED BY <5>1, <5>2
      <4>4. QED BY <4>3
    <3>4. QED BY <3>1, <3>2, <3>3
  <2>3. CASE \/ RoutePasses \/ LlmTimeout \/ LlmError \/ Collect \/ CollectSevered
             \/ (\E i \in 1..MaxCalls : BeginWait(i))
             \/ WaitOver \/ Wash \/ Synthesize \/ StreamReply
    <3>1. UNCHANGED run /\ UNCHANGED <<turn, plan>>
      BY <2>3 DEF RoutePasses, LlmTimeout, LlmError, Collect, CollectSevered, EndsWith,
        BeginWait, WaitOver, Wash, Synthesize, StreamReply, story
    <3>2. QED BY <1>1, <3>1
  <2>4. QED BY <1>2, <2>1, <2>2, <2>3 DEF GeneratorStep
<1>3. CASE ExecuteStep
  BY <1>3, PlacesStart, PlacesFinish, PlacesEnd DEF ExecuteStep
<1>4. CASE WaitStep
  BY <1>1, <1>4 DEF WaitStep, WaitAnswered, WaitExpires, story
<1>5. CASE ClientGoes
  BY <1>1, <1>5 DEF ClientGoes, story
<1>6. CASE Background \/ UNCHANGED vars
  BY <1>1, <1>6 DEF Background, vars, story
<1>7. QED BY <1>2, <1>3, <1>4, <1>5, <1>6 DEF Next

-----------------------------------------------------------------------------
(* One row for each call *)

LEMMA RowsRoute ==
  ASSUME TypeOK, Flow, NEW p \in Plans, RouteCalls(p)
  PROVE  Rows'
<1> DEFINE d == Denied(p)
<1>1. /\ plan' = [plan EXCEPT ![turn] = p] /\ turn' = turn /\ turn \in Turns /\ batch' = <<>>
      /\ batches' = PartitionToolCalls(Allowed(p))
  BY DEF RouteCalls, TypeOK
<1>2. plan'[turn'] = p
  BY <1>1 DEF Flow
<1>3. PICK named \in [Slots -> BOOLEAN] :
        results' = [i \in DOMAIN d |-> DeniedResult(d[i], named[d[i].slot])]
  BY DEF RouteCalls
<1>4. /\ d \in Seq(Call) /\ Increasing(d)
      /\ \A c : In(c, d) <=> In(c, p) /\ c.kind = "denied"
  BY DeniedIs
<1>5. \A c : InSome(c, batches') <=> In(c, p) /\ c.kind # "denied"
  BY <1>1, BatchesIs
<1> HIDE DEF d
<1>6. DOMAIN d = 1..Len(d) /\ Len(d) \in Nat /\ \A i \in 1..Len(d) : d[i].slot \in Nat
  BY <1>4, CallIs
<1>7. Len(results') = Len(d) /\ \A i \in 1..Len(d) : results'[i].call = d[i]
  <2> DEFINE f == [i \in 1..Len(d) |-> DeniedResult(d[i], named[d[i].slot])]
  <2>1. \A i \in 1..Len(d) : f[i].call = d[i]
    BY DEF DeniedResult
  <2>2. f \in [1..Len(d) -> {f[i] : i \in 1..Len(d)}]
    <3> HIDE DEF DeniedResult
    <3>1. QED OBVIOUS
  <2>3. results' = f
    BY <1>3, <1>6
  <2> HIDE DEF f
  <2>4. Len(f) = Len(d)
    BY <1>6, <2>2, RowIs
  <2>5. QED BY <2>1, <2>3, <2>4
<1>8. \A c : HasRow(c, results') <=> In(c, d)
  BY <1>7 DEF HasRow, In
<1>9. OneRowEach(results')
  <2>1. ASSUME NEW i \in 1..Len(d), NEW j \in 1..Len(d), d[i] = d[j] PROVE i = j
    <3>1. i \in Nat /\ j \in Nat /\ ~(d[i].slot < d[j].slot) /\ ~(d[j].slot < d[i].slot)
      BY <1>6, <2>1
    <3>2. ~(i < j) /\ ~(j < i)
      BY <1>4, <3>1 DEF Increasing
    <3>3. QED BY <3>1, <3>2
  <2>2. QED BY <1>7, <2>1 DEF OneRowEach
<1>10. \A c : ~In(c, batch')
  BY <1>1 DEF In
<1>11. QED BY <1>2, <1>4, <1>5, <1>8, <1>9, <1>10 DEF Rows

LEMMA JoinIs ==
  ASSUME NEW S, NEW s \in Seq(S), NEW t \in Seq(S)
  PROVE  /\ Len(s \o t) = Len(s) + Len(t)
         /\ \A i \in 1..Len(s) : (s \o t)[i] = s[i]
         /\ \A i \in 1..Len(t) : (s \o t)[Len(s) + i] = t[i]
OBVIOUS

\* A step that rewrites the rows, each in its place.
LEMMA RowsRewritten ==
  ASSUME TypeOK, Rows, UNCHANGED <<run, turn, plan>>,
         at \in {"executing", "awaiting", "washing", "rendering"},
         Len(results') = Len(results), \A i \in 1..Len(results) : results'[i].call = results[i].call
  PROVE  Rows'
<1>1. UNCHANGED <<exec, batches, batch>>
  BY DEF run
<1>2. \A c : HasRow(c, results') <=> HasRow(c, results)
  BY DEF HasRow
<1>3. OneRowEach(results) => OneRowEach(results')
  BY DEF OneRowEach
<1>4. QED BY <1>1, <1>2, <1>3 DEF Rows

LEMMA RowsStart ==
  ASSUME TypeOK, Places, Rows, StartBatch
  PROVE  Rows'
<1>1. /\ batch = <<>> /\ batches # <<>> /\ batch' = Head(batches) /\ batches' = Tail(batches)
      /\ UNCHANGED <<at, exec, results, turn, plan>>
  BY DEF StartBatch, story
<1>2. \A c : InSome(c, batches) <=> In(c, batch') \/ InSome(c, batches')
  BY <1>1, HeadIs DEF TypeOK, Places
<1>3. \A c : ~In(c, batch)
  BY <1>1 DEF In
<1>4. QED BY <1>1, <1>2, <1>3 DEF Rows

LEMMA RowsEnd ==
  ASSUME TypeOK, Flow, Places, Rows, EndBatch
  PROVE  Rows'
<1> DEFINE rows == [b \in DOMAIN batch |-> Executed(batch[b])]
<1>1. /\ results' = results \o rows /\ batch' = <<>>
      /\ UNCHANGED <<at, exec, batches, turn, plan>>
  BY DEF EndBatch, story
<1>2. /\ batch \in Seq(Call) /\ DOMAIN batch = 1..Len(batch) /\ results \in Seq(Result)
      /\ \A b \in 1..Len(batch) : batch[b] \in Call
  BY DEF TypeOK
<1>3. rows \in Seq(Result) /\ Len(rows) = Len(batch) /\ \A b \in 1..Len(batch) : rows[b].call = batch[b]
  <2>1. /\ rows \in [1..Len(batch) -> Result] /\ Len(batch) \in Nat
        /\ \A b \in 1..Len(batch) : Executed(batch[b]).call = batch[b]
    BY <1>2, BatchRows DEF EndBatch
  <2>2. \A b \in 1..Len(batch) : rows[b].call = batch[b]
    <3> HIDE DEF Executed
    <3>1. QED BY <1>2, <2>1
  <2> HIDE DEF rows
  <2>3. QED BY <2>1, <2>2, RowIs
<1> HIDE DEF rows
<1> DEFINE n == Len(results)
<1>4. /\ n \in Nat /\ Len(results') = n + Len(batch)
      /\ \A i \in 1..n : results'[i] = results[i] /\ i \in 1..Len(results')
      /\ \A b \in 1..Len(batch) : results'[n + b].call = batch[b] /\ n + b \in 1..Len(results')
      /\ \A i \in 1..Len(results') : i \in 1..n \/ i - n \in 1..Len(batch)
  <2>1. /\ n \in Nat /\ Len(batch) \in Nat /\ Len(results') = n + Len(rows)
        /\ \A i \in 1..n : results'[i] = results[i]
        /\ \A b \in 1..Len(rows) : results'[n + b] = rows[b]
    <3>1. n \in Nat /\ Len(batch) \in Nat
      BY <1>2
    <3>2. /\ Len(results \o rows) = n + Len(rows)
          /\ \A i \in 1..n : (results \o rows)[i] = results[i]
          /\ \A b \in 1..Len(rows) : (results \o rows)[n + b] = rows[b]
      <4>1. results \in Seq(Result) /\ rows \in Seq(Result)
        BY <1>2, <1>3
      <4>2. QED BY ONLY <4>1, JoinIs
    <3>3. QED BY <1>1, <3>1, <3>2
  <2>2. Len(results') = n + Len(batch) /\ \A b \in 1..Len(batch) : results'[n + b].call = batch[b]
    BY <1>3, <2>1
  <2> HIDE DEF n
  <2>3. QED BY <2>1, <2>2
<1>5. \A c : HasRow(c, results') <=> HasRow(c, results) \/ In(c, batch)
  <2>1. ASSUME NEW c, HasRow(c, results') PROVE HasRow(c, results) \/ In(c, batch)
    <3>1. PICK i \in 1..Len(results') : results'[i].call = c
      BY <2>1 DEF HasRow
    <3>2. CASE i \in 1..n
      BY <1>4, <3>1, <3>2 DEF HasRow
    <3>3. CASE i - n \in 1..Len(batch)
      <4>1. n + (i - n) = i
        BY <1>4
      <4>2. batch[i - n] = c
        BY <1>4, <3>1, <3>3, <4>1
      <4>3. QED BY <3>3, <4>2 DEF In
    <3>4. QED BY <1>4, <3>2, <3>3
  <2>2. ASSUME NEW c, HasRow(c, results) \/ In(c, batch) PROVE HasRow(c, results')
    BY <1>4, <2>2 DEF HasRow, In
  <2>3. QED BY <2>1, <2>2
<1>6. ASSUME at \in {"executing", "awaiting", "washing", "rendering"}, exec # "failed"
      PROVE  OneRowEach(results')
  <2>1. OneRowEach(results) /\ \A c \in Call : HasRow(c, results) => ~In(c, batch)
    BY <1>6 DEF Rows
  <2>2. \A i, j \in 1..Len(batch) : batch[i] = batch[j] => i = j
    <3>1. \A b \in 1..Len(batch) : batch[b].slot \in Nat
      BY <1>2, CallIs
    <3>2. ASSUME NEW i \in 1..Len(batch), NEW j \in 1..Len(batch), batch[i] = batch[j] PROVE i = j
      <4>1. ~(i < j) /\ ~(j < i)
        BY <3>1, <3>2 DEF Increasing, Places
      <4>2. QED BY <1>2, <4>1
    <3>3. QED BY <3>2
  <2>3. \A i \in 1..n, b \in 1..Len(batch) : results[i].call # batch[b]
    BY <1>2, <2>1 DEF HasRow, In
  <2>4. ASSUME NEW i \in 1..Len(results'), NEW j \in 1..Len(results'),
               results'[i].call = results'[j].call
        PROVE  i = j
    <3>1. \A k \in 1..Len(results') : k \in Int /\
            \/ k \in 1..n /\ results'[k].call = results[k].call
            \/ k - n \in 1..Len(batch) /\ results'[k].call = batch[k - n]
      <4>1. \A k \in 1..Len(results') : k \in Int /\ n + (k - n) = k
        BY <1>4
      <4>2. QED BY <1>4, <4>1
    <3>2. CASE i \in 1..n /\ results'[i].call = results[i].call
      BY <2>1, <2>3, <2>4, <3>1, <3>2 DEF OneRowEach
    <3>3. CASE i - n \in 1..Len(batch) /\ results'[i].call = batch[i - n]
      <4>1. j - n \in 1..Len(batch) /\ results'[j].call = batch[j - n]
        BY <2>3, <2>4, <3>1, <3>3
      <4>2. i - n = j - n
        BY <2>2, <2>4, <3>3, <4>1
      <4>3. QED BY <1>4, <3>1, <4>2
    <3>4. QED BY <3>1, <3>2, <3>3
  <2>5. QED BY <2>4 DEF OneRowEach
<1>7. \A c : ~In(c, batch')
  BY <1>1 DEF In
<1>8. \A c \in Call : In(c, batch) => In(c, plan[turn]) /\ ~InSome(c, batches)
  BY DEF Places, Planned
<1>9. QED BY <1>1, <1>5, <1>6, <1>7, <1>8 DEF Rows

LEMMA RowsStep ==
  ASSUME TypeOK, Flow, Places, Rows, [Next]_vars
  PROVE  Rows'
<1>1. ASSUME UNCHANGED <<results, run, turn, plan, at>> PROVE Rows'
  BY <1>1 DEF run, Rows
<1>2. CASE GeneratorStep
  <2>1. CASE \E p \in Plans : RouteCalls(p)
    BY <2>1, RowsRoute
  <2>2. CASE RoutePasses \/ LlmTimeout \/ LlmError \/ CollectSevered \/ Render \/ Synthesize \/ StreamReply
    <3>1. at' \notin {"executing", "awaiting", "washing", "rendering"}
      BY <2>2 DEF RoutePasses, LlmTimeout, LlmError, CollectSevered, Render, Synthesize,
        StreamReply, EndsWith
    <3>2. QED BY <3>1 DEF Rows
  <2>3. CASE Collect
    <3>1. UNCHANGED <<run, turn, plan, results>> /\ at = "executing"
      BY <2>3 DEF Collect, story
    <3>2. QED BY <3>1, RowsRewritten
  <2>4. ASSUME NEW i \in 1..MaxCalls, BeginWait(i) PROVE Rows'
    BY <1>1, <2>4 DEF BeginWait, story
  <2>5. CASE WaitOver
    <3>1. /\ UNCHANGED <<run, turn, plan>> /\ at = "awaiting" /\ DOMAIN results = 1..Len(results)
          /\ results' = [i \in DOMAIN results |-> Patched(i)]
      BY <2>5 DEF WaitOver, story, TypeOK
    <3>2. /\ \A i \in 1..Len(results) : Patched(i) \in Result /\ Patched(i).call = results[i].call
          /\ Len(results) \in Nat
      BY <3>1, PatchedIs DEF TypeOK
    <3>3. results' \in [1..Len(results) -> Result]
      BY <3>1, <3>2
    <3>4. Len(results') = Len(results)
      BY <3>2, <3>3, RowIs
    <3>5. \A i \in 1..Len(results) : results'[i].call = results[i].call
      BY <3>1, <3>2
    <3>6. QED BY <3>1, <3>4, <3>5, RowsRewritten
  <2>6. CASE Wash
    <3>1. /\ UNCHANGED <<run, turn, plan>> /\ at = "washing" /\ DOMAIN results = 1..Len(results)
          /\ results' = [i \in DOMAIN results |-> [results[i] EXCEPT !.washed = results[i].raw]]
      BY <2>6 DEF Wash, story, TypeOK
    <3>2. /\ \A i \in 1..Len(results) : /\ [results[i] EXCEPT !.washed = results[i].raw] \in Result
                                        /\ [results[i] EXCEPT !.washed = results[i].raw].call = results[i].call
          /\ Len(results) \in Nat
      BY <3>1, WashedIs DEF TypeOK
    <3>3. results' \in [1..Len(results) -> Result]
      BY <3>1, <3>2
    <3>4. Len(results') = Len(results)
      BY <3>2, <3>3, RowIs
    <3>5. \A i \in 1..Len(results) : results'[i].call = results[i].call
      BY <3>1, <3>2
    <3>6. QED BY <3>1, <3>4, <3>5, RowsRewritten
  <2>7. QED BY <1>2, <2>1, <2>2, <2>3, <2>4, <2>5, <2>6 DEF GeneratorStep
<1>3. CASE ExecuteStep
  <2>1. CASE BatchSevered
    BY <2>1 DEF BatchSevered, Rows
  <2>2. CASE EndExecute
    BY <2>2 DEF EndExecute, story, Rows
  <2>3. ASSUME NEW b \in 1..MaxCalls, NEW o \in ToolState, FinishTool(b, o) PROVE Rows'
    BY <2>3 DEF FinishTool, story, Rows
  <2>4. QED BY <1>3, <2>1, <2>2, <2>3, RowsStart, RowsEnd DEF ExecuteStep
<1>4. CASE WaitStep
  BY <1>1, <1>4 DEF WaitStep, WaitAnswered, WaitExpires, story
<1>5. CASE ClientGoes
  BY <1>5 DEF ClientGoes, Rows
<1>6. CASE Background \/ UNCHANGED vars
  BY <1>1, <1>6 DEF Background, vars, story
<1>7. QED BY <1>2, <1>3, <1>4, <1>5, <1>6 DEF Next

-----------------------------------------------------------------------------
(* Who waits, what the history holds, and what it says of the tasks *)

LEMMA WaitsStep ==
  ASSUME TypeOK, ServiceInv, Flow, Waits, [Next]_vars
  PROVE  Waits'
<1>1. ASSUME UNCHANGED service, at # "awaiting" PROVE Waits'
  BY <1>1 DEF Waits, service
<1>2. ASSUME UNCHANGED <<at, results, turn>>, \A c \in Calls : phase'[c] = "waiting" => phase[c] = "waiting"
      PROVE  Waits'
  BY <1>2 DEF Waits, TheTask
<1>3. CASE GeneratorStep
  <2>1. CASE \E p \in Plans : RouteCalls(p)
    BY <1>1, <2>1 DEF RouteCalls
  <2>2. CASE RoutePasses \/ LlmTimeout \/ LlmError \/ Collect \/ CollectSevered
    BY <1>1, <2>2 DEF RoutePasses, LlmTimeout, LlmError, Collect, CollectSevered, EndsWith
  <2>3. CASE Wash \/ Render \/ Synthesize \/ StreamReply
    BY <1>1, <2>3 DEF Wash, Render, Synthesize, StreamReply
  <2>4. ASSUME NEW i \in 1..MaxCalls, BeginWait(i) PROVE Waits'
    <3> DEFINE a == TheTask(results[i])
    <3>1. at = "awaiting" /\ i \in DOMAIN results /\ results[i].task /\ Service!Ask(a, a)
          /\ UNCHANGED <<at, results, turn>>
      BY <2>4 DEF BeginWait, story
    <3>2. i \in 1..Len(results)
      BY <3>1 DEF TypeOK
    <3> HIDE DEF a
    <3>3. \A c \in Calls : phase'[c] = "waiting" => phase[c] = "waiting" \/ c = a
      BY <3>1 DEF Service!Ask, ServiceInv
    <3>4. ASSUME NEW c \in Calls, phase'[c] = "waiting"
          PROVE  at' = "awaiting" /\ \E j \in 1..Len(results') : results'[j].task /\ TheTask(results[j])' = c
      <4>1. CASE c = a
        <5>1. TheTask(results[i])' = a
          BY <3>1 DEF TheTask, a
        <5>2. QED BY <3>1, <3>2, <4>1, <5>1
      <4>2. CASE phase[c] = "waiting"
        <5>1. PICK j \in 1..Len(results) : results[j].task /\ TheTask(results[j]) = c
          BY <4>2 DEF Waits
        <5>2. TheTask(results[j])' = c
          BY <3>1, <5>1 DEF TheTask
        <5>3. QED BY <3>1, <5>1, <5>2
      <4>3. QED BY <3>3, <3>4, <4>1, <4>2
    <3>5. QED BY <3>4 DEF Waits
  <2>5. CASE WaitOver
    <3>1. /\ at = "awaiting" /\ UNCHANGED service
          /\ \A i \in DOMAIN results : results[i].task =>
               phase[TheTask(results[i])] \in {"returned", "gone"}
      BY <2>5 DEF WaitOver, GatherOver, WaitDone
    <3>2. \A c \in Calls : phase[c] # "waiting"
      <4>1. DOMAIN results = 1..Len(results)
        BY DEF TypeOK
      <4>2. \A i \in 1..Len(results) : results[i].task => phase[TheTask(results[i])] # "waiting"
        BY <3>1, <4>1
      <4> HIDE DEF TheTask
      <4>3. QED BY <4>2 DEF Waits
    <3>3. QED BY <3>1, <3>2 DEF Waits, service
  <2>6. QED BY <1>3, <2>1, <2>2, <2>3, <2>4, <2>5 DEF GeneratorStep
<1>4. CASE ExecuteStep
  <2>1. CASE StartBatch \/ EndBatch \/ BatchSevered \/ EndExecute
    BY <1>1, <2>1 DEF StartBatch, EndBatch, BatchSevered, EndExecute, Flow
  <2>2. ASSUME NEW b \in 1..MaxCalls, NEW o \in ToolState, FinishTool(b, o) PROVE Waits'
    <3>1. UNCHANGED <<at, results, turn, phase>>
      BY <2>2 DEF FinishTool, Service!Submit, service, story
    <3>2. QED BY <1>2, <3>1
  <2>3. QED BY <1>4, <2>1, <2>2 DEF ExecuteStep
<1>5. CASE WaitStep
  <2>1. ASSUME NEW c \in Calls, WaitAnswered(c) PROVE Waits'
    BY <1>2, <2>1 DEF WaitAnswered, Service!Answer, ServiceInv, story
  <2>2. ASSUME NEW c \in Calls, WaitExpires(c) PROVE Waits'
    BY <1>2, <2>2 DEF WaitExpires, ServiceInv, story
  <2>3. QED BY <1>5, <2>1, <2>2 DEF WaitStep
<1>6. CASE ClientGoes
  BY <1>6 DEF ClientGoes, AbandonWaits, Waits
<1>7. CASE Background
  <2>1. UNCHANGED <<at, results, turn, phase>>
    BY <1>7 DEF Background, story, Service!Run, Service!Finish, Service!Publish
  <2>2. QED BY <1>2, <2>1
<1>8. CASE UNCHANGED vars
  BY <1>2, <1>8 DEF vars, service, story
<1>9. QED BY <1>3, <1>4, <1>5, <1>6, <1>7, <1>8 DEF Next

\* As many rows as calls, when each call has one.
LEMMA AsManyRows ==
  ASSUME NEW p \in Plans, NEW rows \in Seq(Result), OneRowEach(rows),
         \A c \in Call : HasRow(c, rows) <=> In(c, p)
  PROVE  Len(rows) = Len(p)
<1> DEFINE f == [i \in 1..Len(rows) |-> rows[i].call.slot]
<1>1. /\ Len(p) \in Nat /\ \A i \in 1..Len(p) : p[i] \in Call /\ p[i].slot = i
      /\ \A c : In(c, p) => c \in Call /\ c.slot \in 1..Len(p) /\ p[c.slot] = c
  BY PlanIs
<1>2. Len(rows) \in Nat /\ \A i \in 1..Len(rows) : rows[i].call \in Call
  <2>1. \A i \in 1..Len(rows) : rows[i] \in Result
    OBVIOUS
  <2>2. Len(rows) \in Nat
    OBVIOUS
  <2>3. QED BY <2>1, <2>2 DEF Result
<1>3. \A i \in 1..Len(rows) : In(rows[i].call, p)
  BY <1>2 DEF HasRow
<1>4. f \in [1..Len(rows) -> 1..Len(p)]
  BY <1>1, <1>3
<1>5. \A i, j \in 1..Len(rows) : f[i] = f[j] => i = j
  <2>1. ASSUME NEW i \in 1..Len(rows), NEW j \in 1..Len(rows), f[i] = f[j] PROVE i = j
    <3>1. rows[i].call.slot = rows[j].call.slot
      BY <2>1
    <3>2. rows[i].call = rows[j].call
      BY <1>1, <1>3, <3>1
    <3>3. QED BY <3>2 DEF OneRowEach
  <2>2. QED BY <2>1
<1>6. \A k \in 1..Len(p) : \E i \in 1..Len(rows) : f[i] = k
  <2>1. ASSUME NEW k \in 1..Len(p) PROVE \E i \in 1..Len(rows) : f[i] = k
    <3>1. HasRow(p[k], rows)
      BY <1>1 DEF In
    <3>2. QED BY <1>1, <3>1 DEF HasRow
  <2>2. QED BY <2>1
<1> HIDE DEF f
<1>7. f \in Injection(1..Len(rows), 1..Len(p))
  BY <1>4, <1>5 DEF Injection, IsInjective
<1>8. f \in Surjection(1..Len(rows), 1..Len(p))
  BY <1>4, <1>6 DEF Surjection
<1>9. IsFiniteSet(1..Len(p)) /\ Cardinality(1..Len(p)) = Len(p) /\ Cardinality(1..Len(rows)) = Len(rows)
  <2>1. ASSUME NEW n \in Nat PROVE IsFiniteSet(1..n) /\ Cardinality(1..n) = n
    <3>1. 1 \in Int /\ n \in Int
      OBVIOUS
    <3>2. IsFiniteSet(1..n) /\ Cardinality(1..n) = IF 1 > n THEN 0 ELSE n - 1 + 1
      BY <3>1, FS_Interval
    <3>3. QED BY <3>2
  <2>2. QED BY <1>1, <1>2, <2>1
<1>10. QED BY <1>7, <1>8, <1>9, FS_Injection

LEMMA AnsweredStep ==
  ASSUME TypeOK, Flow, Rows, EveryCallAnswered, [Next]_vars
  PROVE  EveryCallAnswered'
<1>1. ASSUME UNCHANGED <<plan, shown>> PROVE EveryCallAnswered'
  BY <1>1 DEF EveryCallAnswered
<1>2. ASSUME NEW p \in Plans, RouteCalls(p) PROVE EveryCallAnswered'
  <2>1. plan' = [plan EXCEPT ![turn] = p] /\ UNCHANGED shown /\ shown[turn] = <<>>
    BY <1>2 DEF RouteCalls, Flow
  <2>2. QED BY <2>1 DEF EveryCallAnswered, Flow
<1>3. CASE Render
  <2>1. at = "rendering" /\ exec = "done" /\ shown' = [shown EXCEPT ![turn] = results]
        /\ UNCHANGED plan /\ turn \in Turns
    BY <1>3 DEF Render, Flow, TypeOK
  <2>2. /\ OneRowEach(results) /\ \A c \in Call : HasRow(c, results) <=> In(c, plan[turn])
    <3>1. \A c : ~In(c, batch) /\ ~InSome(c, batches)
      BY <2>1 DEF Flow, In, InSome
    <3>2. QED BY <2>1, <3>1 DEF Rows
  <2>3. plan[turn] \in Plans /\ results \in Seq(Result)
    BY <2>1 DEF Flow, TypeOK
  <2>4. Len(results) = Len(plan[turn])
    BY <2>2, <2>3, AsManyRows
  <2>5. \A i \in DOMAIN plan[turn] : \E j \in DOMAIN results : results[j].call = plan[turn][i]
    <3>1. DOMAIN plan[turn] = 1..Len(plan[turn]) /\ DOMAIN results = 1..Len(results)
          /\ \A i \in 1..Len(plan[turn]) : plan[turn][i] \in Call
      BY <2>3, PlanIs
    <3>2. QED BY <2>2, <3>1 DEF In, HasRow
  <2>6. \A n \in Turns : shown'[n] = IF n = turn THEN results ELSE shown[n]
    BY <2>1 DEF TypeOK
  <2>7. QED BY <2>1, <2>4, <2>5, <2>6 DEF EveryCallAnswered
<1>4. CASE \/ RoutePasses \/ LlmTimeout \/ LlmError \/ Collect \/ CollectSevered
           \/ (\E i \in 1..MaxCalls : BeginWait(i))
           \/ WaitOver \/ Wash \/ Synthesize \/ StreamReply
  BY <1>1, <1>4 DEF RoutePasses, LlmTimeout, LlmError, Collect, CollectSevered, EndsWith,
    BeginWait, WaitOver, Wash, Synthesize, StreamReply, story
<1>5. CASE ExecuteStep
  BY <1>1, <1>5 DEF ExecuteStep, StartBatch, EndBatch, BatchSevered, EndExecute, FinishTool, story
<1>6. CASE WaitStep
  BY <1>1, <1>6 DEF WaitStep, WaitAnswered, WaitExpires, story
<1>7. CASE ClientGoes \/ Background \/ UNCHANGED vars
  BY <1>1, <1>7 DEF ClientGoes, Background, vars, story
<1>8. QED BY <1>2, <1>3, <1>4, <1>5, <1>6, <1>7 DEF Next, GeneratorStep

LEMMA OwnStays ==
  ASSUME TypeOK, Settled, NEW r \in Result, NEW n \in Turns, NEW text, Own(r, n, text)
  PROVE  r.task /\ r.status = "SUCCESS" =>
           text = "outcome" /\ status'[<<n, r.call.slot>>] = "completed"
<1>1. r.call.slot \in Slots
  BY DEF Result, Call
<1>2. <<n, r.call.slot>> \in Calls
  BY <1>1 DEF Calls
<1>3. QED BY <1>2 DEF Own, Settled

\* What the history said of a task stays true.
LEMMA HistoryStays ==
  ASSUME TypeOK, Settled, NoFabricatedSuccess,
         \A n \in Turns : shown'[n] # <<>> => shown'[n] = shown[n] /\ plan'[n] = plan[n]
  PROVE  NoFabricatedSuccess'
<1>1. SUFFICES ASSUME NEW n \in Turns, OwnIds(n)', NEW j \in DOMAIN shown'[n],
                      shown'[n][j].task, shown'[n][j].status = "SUCCESS"
               PROVE  shown'[n][j].washed = "outcome"
                      /\ status'[<<n, shown'[n][j].call.slot>>] = "completed"
  BY DEF NoFabricatedSuccess
<1>2. CASE shown'[n] = <<>>
  <2>1. DOMAIN <<>> = {}
    OBVIOUS
  <2>2. QED BY <1>1, <1>2, <2>1
<1>3. CASE shown'[n] # <<>>
  <2>1. shown'[n] = shown[n] /\ plan'[n] = plan[n]
    BY <1>3
  <2>2. OwnIds(n) /\ j \in DOMAIN shown[n] /\ shown[n][j] \in Result
    BY <1>1, <2>1 DEF OwnIds, TypeOK
  <2>3. Own(shown[n][j], n, shown[n][j].washed)
    BY <2>2 DEF NoFabricatedSuccess, Own
  <2>4. QED BY <1>1, <2>1, <2>2, <2>3, OwnStays
<1>4. QED BY <1>2, <1>3

\* The event of a call that has its id for itself is its own.
LEMMA EventRowIs ==
  ASSUME TypeOK, Flow, Rows, at = "awaiting", OwnIds(turn),
         NEW i \in 1..Len(results), results[i].task
  PROVE  HasEvent(i) /\ EventRow(i) = i
<1> DEFINE rows == {j \in DOMAIN results :
                      results[j].task /\ SameId(results[j].call, results[i].call)}
<1>1. DOMAIN results = 1..Len(results) /\ \A j \in 1..Len(results) : results[j].call \in Call
  <2>1. \A j \in 1..Len(results) : results[j] \in Result
    BY DEF TypeOK
  <2>2. QED BY <2>1 DEF TypeOK, Result
<1>2. exec = "done" /\ plan[turn] \in Plans
  BY DEF Flow, TypeOK
<1>3. OneRowEach(results) /\ \A j \in 1..Len(results) : In(results[j].call, plan[turn])
  BY <1>1, <1>2 DEF Rows, HasRow
<1>4. /\ DOMAIN plan[turn] = 1..Len(plan[turn])
      /\ \A c : In(c, plan[turn]) => c.slot \in 1..Len(plan[turn]) /\ plan[turn][c.slot] = c
  BY <1>2, PlanIs
<1>5. ASSUME NEW j \in 1..Len(results), SameId(results[j].call, results[i].call) PROVE j = i
  <2>1. results[j].call.slot = results[i].call.slot
    BY <1>3, <1>4, <1>5 DEF OwnIds
  <2>2. results[j].call = results[i].call
    BY <1>3, <1>4, <2>1
  <2>3. QED BY <1>3, <2>2 DEF OneRowEach
<1>6. SameId(results[i].call, results[i].call)
  BY DEF SameId
<1>7. rows = {i}
  BY <1>1, <1>5, <1>6
<1>8. HasEvent(i)
  BY <1>1, <1>6 DEF HasEvent
<1>9. EventRow(i) = CHOOSE j \in rows : \A k \in rows : k <= j
  BY DEF EventRow
<1> HIDE DEF rows
<1>10. \E j \in rows : \A k \in rows : k <= j
  BY <1>7
<1>11. (CHOOSE j \in rows : \A k \in rows : k <= j) \in rows
  BY <1>10
<1>12. QED BY <1>7, <1>8, <1>9, <1>11

LEMMA HonestWait ==
  ASSUME TypeOK, ServiceInv, Flow, Rows, Honest, WaitOver
  PROVE  Honest'
<1>1. /\ at = "awaiting" /\ at' = "washing" /\ UNCHANGED <<turn, plan, shown, status>>
      /\ results' = [i \in DOMAIN results |-> Patched(i)]
  BY DEF WaitOver, story, service
<1>2. DOMAIN results = 1..Len(results) /\ Len(results) \in Nat
      /\ \A i \in 1..Len(results) : results[i] \in Result
  BY DEF TypeOK
<1>3. \A i \in 1..Len(results) : Patched(i) \in Result /\ Patched(i).task = results[i].task
                                 /\ Patched(i).call = results[i].call
  BY <1>2, PatchedIs
<1>4. Len(results') = Len(results) /\ \A i \in 1..Len(results) : results'[i] = Patched(i)
  <2>1. results' \in [1..Len(results) -> Result]
    BY <1>1, <1>2, <1>3
  <2>2. Len(results') = Len(results)
    BY <1>2, <2>1, RowIs
  <2>3. QED BY <1>1, <1>2, <2>2
<1>5. ASSUME OwnIds(turn), NEW i \in 1..Len(results)
      PROVE  Own(Patched(i), turn, Patched(i).raw)
  <2>1. CASE ~results[i].task
    BY <1>3, <2>1 DEF Own
  <2>2. CASE results[i].task
    <3> DEFINE c == <<turn, results[i].call.slot>>
    <3>1. EventRow(i) = i /\ HasEvent(i)
      BY <1>1, <1>5, <2>2, EventRowIs
    <3>2. c \in Calls
      BY <1>2 DEF Calls, Result, Call, TypeOK
    <3>3. EventOf(i) = answer[c]
      BY <3>1 DEF EventOf, TheTask
    <3>4. CASE EventOf(i) = "completed"
      <4>1. Patched(i).raw = "outcome"
        BY <1>2, <3>1, <3>4 DEF Patched, Result
      <4>2. status[c] = "completed"
        BY <3>2, <3>3, <3>4 DEF ServiceInv
      <4>3. QED BY <1>3, <4>1, <4>2 DEF Own
    <3>5. CASE EventOf(i) # "completed"
      <4>1. Patched(i).status = "ERROR"
        BY <1>2, <3>1, <3>5 DEF Patched, Result
      <4>2. QED BY <4>1 DEF Own
    <3>6. QED BY <3>4, <3>5
  <2>3. QED BY <2>1, <2>2
<1>6. NoFabricatedSuccess'
  BY <1>1 DEF Honest, NoFabricatedSuccess, OwnIds
<1>7. OwnIds(turn)' <=> OwnIds(turn)
  BY <1>1 DEF OwnIds
<1>8. OwnIds(turn)' => \A i \in 1..Len(results') : Own(results[i], turn, results[i].raw)'
  BY <1>1, <1>4, <1>5, <1>7 DEF Own
<1>9. QED BY <1>1, <1>6, <1>8 DEF Honest

LEMMA HonestWash ==
  ASSUME TypeOK, Honest, Wash
  PROVE  Honest'
<1>1. /\ at = "washing" /\ at' = "rendering" /\ UNCHANGED <<turn, plan, shown, status>>
      /\ results' = [i \in DOMAIN results |-> [results[i] EXCEPT !.washed = results[i].raw]]
  BY DEF Wash, story, service
<1>2. DOMAIN results = 1..Len(results) /\ Len(results) \in Nat
      /\ \A i \in 1..Len(results) : results[i] \in Result
  BY DEF TypeOK
<1>3. Len(results') = Len(results)
      /\ \A i \in 1..Len(results) : results'[i] = [results[i] EXCEPT !.washed = results[i].raw]
  <2>1. results' \in [1..Len(results) -> Result]
    BY <1>1, <1>2, WashedIs
  <2>2. Len(results') = Len(results)
    BY <1>2, <2>1, RowIs
  <2>3. QED BY <1>1, <1>2, <2>2
<1>4. \A i \in 1..Len(results) :
        /\ results'[i].task = results[i].task /\ results'[i].status = results[i].status
        /\ results'[i].call = results[i].call /\ results'[i].washed = results[i].raw
  BY <1>2, <1>3, WashedIs
<1>5. OwnIds(turn)' <=> OwnIds(turn)
  BY <1>1 DEF OwnIds
<1>6. OwnIds(turn)' => \A i \in 1..Len(results') : Own(results[i], turn, results[i].washed)'
  BY <1>1, <1>3, <1>4, <1>5 DEF Own, Honest
<1>7. NoFabricatedSuccess'
  BY <1>1 DEF Honest, NoFabricatedSuccess, OwnIds
<1>8. QED BY <1>1, <1>6, <1>7 DEF Honest

LEMMA HonestRender ==
  ASSUME TypeOK, Honest, Render
  PROVE  Honest'
<1>1. /\ at = "rendering" /\ at' \notin {"washing", "rendering"}
      /\ shown' = [shown EXCEPT ![turn] = results] /\ UNCHANGED <<plan, status>> /\ turn \in Turns
  BY DEF Render, service, TypeOK
<1>2. \A n \in Turns : shown'[n] = IF n = turn THEN results ELSE shown[n]
  BY <1>1 DEF TypeOK
<1>3. DOMAIN results = 1..Len(results)
  BY DEF TypeOK
<1>4. \A n \in Turns : OwnIds(n)' <=> OwnIds(n)
  BY <1>1 DEF OwnIds
<1>5. ASSUME NEW n \in Turns, OwnIds(n), NEW j \in DOMAIN shown'[n],
             shown'[n][j].task, shown'[n][j].status = "SUCCESS"
      PROVE  shown'[n][j].washed = "outcome"
             /\ status'[<<n, shown'[n][j].call.slot>>] = "completed"
  <2>1. CASE n = turn
    <3>1. Own(results[j], turn, results[j].washed)
      BY <1>1, <1>2, <1>3, <1>5, <2>1 DEF Honest
    <3>2. QED BY <1>1, <1>2, <1>5, <2>1, <3>1 DEF Own
  <2>2. CASE n # turn
    BY <1>1, <1>2, <1>5, <2>2 DEF Honest, NoFabricatedSuccess
  <2>3. QED BY <2>1, <2>2
<1>6. NoFabricatedSuccess'
  BY <1>4, <1>5 DEF NoFabricatedSuccess
<1>7. QED BY <1>1, <1>6 DEF Honest

LEMMA HonestStep ==
  ASSUME TypeOK, ServiceInv, Flow, Rows, Honest, Settled, [Next]_vars
  PROVE  Honest'
<1>1. ASSUME UNCHANGED <<plan, shown>>, at' \notin {"washing", "rendering"} PROVE Honest'
  <2>1. NoFabricatedSuccess'
    BY <1>1, HistoryStays DEF Honest
  <2>2. QED BY <1>1, <2>1 DEF Honest
<1>2. ASSUME UNCHANGED <<at, results, turn, plan, shown>> PROVE Honest'
  <2>1. NoFabricatedSuccess'
    BY <1>2, HistoryStays DEF Honest
  <2>2. OwnIds(turn)' <=> OwnIds(turn)
    BY <1>2 DEF OwnIds
  <2>3. turn \in Turns /\ \A i \in 1..Len(results) : results[i] \in Result
    BY DEF TypeOK
  <2>4. ASSUME NEW i \in 1..Len(results), NEW text, Own(results[i], turn, text)
        PROVE  results[i].task /\ results[i].status = "SUCCESS" =>
                 text = "outcome" /\ status'[<<turn, results[i].call.slot>>] = "completed"
    BY <2>3, <2>4, OwnStays
  <2>5. at = "washing" /\ OwnIds(turn)' =>
          \A i \in 1..Len(results) : Own(results[i], turn, results[i].raw)'
    BY <1>2, <2>2, <2>4 DEF Honest, Own
  <2>6. at = "rendering" /\ OwnIds(turn)' =>
          \A i \in 1..Len(results) : Own(results[i], turn, results[i].washed)'
    BY <1>2, <2>2, <2>4 DEF Honest, Own
  <2>7. QED BY <1>2, <2>1, <2>5, <2>6 DEF Honest
<1>3. CASE GeneratorStep
  <2>1. ASSUME NEW p \in Plans, RouteCalls(p) PROVE Honest'
    <3>1. plan' = [plan EXCEPT ![turn] = p] /\ UNCHANGED shown /\ shown[turn] = <<>>
          /\ at' = "executing"
      BY <2>1 DEF RouteCalls, Flow
    <3>2. \A n \in Turns : shown'[n] # <<>> => shown'[n] = shown[n] /\ plan'[n] = plan[n]
      BY <3>1 DEF TypeOK
    <3>3. NoFabricatedSuccess'
      BY <3>2, HistoryStays DEF Honest
    <3>4. QED BY <3>1, <3>3 DEF Honest
  <2>2. CASE RoutePasses \/ LlmTimeout \/ LlmError \/ CollectSevered \/ Synthesize \/ StreamReply
    BY <1>1, <2>2 DEF RoutePasses, LlmTimeout, LlmError, CollectSevered, EndsWith, Synthesize,
      StreamReply, story
  <2>3. CASE Collect
    <3>1. UNCHANGED <<plan, shown, turn, results>> /\ at' \in {"awaiting", "washing"}
          /\ (at' = "washing" => \A i \in DOMAIN results : ~results[i].task)
      BY <2>3 DEF Collect, story
    <3>2. at' = "washing" => \A i \in 1..Len(results') : Own(results[i], turn, results[i].raw)'
      BY <3>1 DEF Own, TypeOK
    <3>3. NoFabricatedSuccess'
      BY <3>1, HistoryStays DEF Honest
    <3>4. QED BY <3>1, <3>2, <3>3 DEF Honest
  <2>4. ASSUME NEW i \in 1..MaxCalls, BeginWait(i) PROVE Honest'
    BY <1>2, <2>4 DEF BeginWait, story
  <2>5. QED BY <1>3, <2>1, <2>2, <2>3, <2>4, HonestWait, HonestWash, HonestRender DEF GeneratorStep
<1>4. CASE ExecuteStep
  <2>1. CASE StartBatch \/ EndBatch \/ BatchSevered \/ EndExecute
    BY <1>1, <2>1 DEF StartBatch, EndBatch, BatchSevered, EndExecute, Flow, story
  <2>2. ASSUME NEW b \in 1..MaxCalls, NEW o \in ToolState, FinishTool(b, o) PROVE Honest'
    BY <1>2, <2>2 DEF FinishTool, story
  <2>3. QED BY <1>4, <2>1, <2>2 DEF ExecuteStep
<1>5. CASE WaitStep
  BY <1>2, <1>5 DEF WaitStep, WaitAnswered, WaitExpires, story
<1>6. CASE ClientGoes
  BY <1>1, <1>6 DEF ClientGoes, story
<1>7. CASE Background \/ UNCHANGED vars
  BY <1>2, <1>7 DEF Background, vars, story
<1>8. QED BY <1>3, <1>4, <1>5, <1>6, <1>7 DEF Next

-----------------------------------------------------------------------------
(* Theorems *)

LEMMA InitInv == Init => IInv
<1> SUFFICES ASSUME Init PROVE IInv
  OBVIOUS
<1>1. /\ turn = 1 /\ at = "routing" /\ plan = [n \in Turns |-> <<>>] /\ exec = "none"
      /\ batches = <<>> /\ batch = <<>> /\ tool = [i \in Slots |-> "idle"] /\ results = <<>>
      /\ shown = [n \in Turns |-> <<>>] /\ client = "connected" /\ terminal = "none"
  BY DEF Init
<1>2. 1 \in Turns /\ <<>> \in Seq(Call) /\ <<>> \in Seq(Seq(Call)) /\ <<>> \in Seq(Result)
  BY TheaterAssumption DEF Turns
<1>3. TypeOK
  BY <1>1, <1>2 DEF TypeOK, Awaiting, ToolState
<1>4. ServiceInv
  BY DEF Init, Service!Init, ServiceInv, Status, Phase
<1>5. Flow
  BY <1>1, <1>2, EmptyPlan DEF Flow
<1>6. Places
  BY <1>1, <1>2, NothingPlanned
<1>7. Rows /\ Waits
  BY <1>1, <1>4 DEF Rows, Waits, Init, Service!Init
<1>8. Honest /\ EveryCallAnswered
  <2>1. DOMAIN <<>> = {}
    OBVIOUS
  <2>2. QED BY <1>1, <2>1 DEF Honest, NoFabricatedSuccess, EveryCallAnswered
<1>9. QED BY <1>3, <1>4, <1>5, <1>6, <1>7, <1>8 DEF IInv

LEMMA StepInv == IInv /\ [Next]_vars => IInv'
BY ServiceStep, FlowStep, TypeStep, PlacesStep, RowsStep, WaitsStep, HonestStep, AnsweredStep DEF IInv

\* The invariant of one request: where every call of the turn is, which rows the
\* results have, who waits, and what the service has told whom.  (run_theater and the
\* execute task beside it.)
THEOREM Invariance == Spec => []IInv
BY InitInv, StepInv, PTL DEF Spec

\* The state keeps its type: the batches are lists of calls, the rows are results.
THEOREM TypesHold == Spec => []TypeOK
<1>1. IInv => TypeOK
  BY DEF IInv
<1>2. QED BY <1>1, Invariance, PTL

\* Every call of a turn that reached the history has exactly one row there.
\* (_step_execute, _step_await_background_tasks, _step_render.)
THEOREM AllAnswered == Spec => []EveryCallAnswered
<1>1. IInv => EveryCallAnswered
  BY DEF IInv
<1>2. QED BY <1>1, Invariance, PTL

\* A row of a task that says SUCCESS is that task's own success, in a turn whose call
\* ids are all different.  (event_by_call in _step_await_background_tasks.)
THEOREM SuccessIsEarned == Spec => []NoFabricatedSuccess
<1>1. IInv => NoFabricatedSuccess
  BY DEF IInv, Honest
<1>2. QED BY <1>1, Invariance, PTL

\* A stream that has ended waits for no task.  (The gather of
\* _step_await_background_tasks, and its cancellation.)
THEOREM NoWaitIsLeft == Spec => []EndedStreamWaitsForNothing
<1>1. IInv => EndedStreamWaitsForNothing
  BY DEF IInv, Waits, EndedStreamWaitsForNothing, Over
<1>2. QED BY <1>1, Invariance, PTL

\* A connected client gets the reply or a bb-stream-done frame.  (safe_theater_stream.)
THEOREM NoSilentEnd == Spec => []EndsLoudly
<1>1. IInv => EndsLoudly
  BY DEF IInv, Flow, EndsLoudly
<1>2. QED BY <1>1, Invariance, PTL

\* A call that is not concurrency_safe runs alone: what the router wrote before it has
\* ended, what it wrote behind it has not begun.  (partition_tool_calls and the loop
\* over its batches.)
THEOREM UnsafeIsAlone == Spec => []UnsafeRunsAlone
<1>1. IInv => UnsafeRunsAlone
  <2> SUFFICES ASSUME IInv, NEW i \in DOMAIN plan[turn], NEW j \in DOMAIN plan[turn], i < j,
                      plan[turn][i].kind # "denied", plan[turn][j].kind # "denied",
                      ~(IsConcurrencySafe(plan[turn][i]) /\ IsConcurrencySafe(plan[turn][j])),
                      tool[plan[turn][j].slot] # "idle"
               PROVE  tool[plan[turn][i].slot] \notin {"idle", "running"}
    BY DEF UnsafeRunsAlone
  <2> DEFINE c == plan[turn][i]
             d == plan[turn][j]
  <2>1. plan[turn] \in Plans
    BY DEF IInv, TypeOK, Flow
  <2>2. /\ i \in 1..Len(plan[turn]) /\ j \in 1..Len(plan[turn])
        /\ c \in Call /\ d \in Call /\ c.slot = i /\ d.slot = j
    BY <2>1, PlanIs
  <2>3. Planned(c) /\ Planned(d) /\ c.slot < d.slot
    BY <2>2 DEF Planned, In
  <2>4. c \in Call /\ d \in Call /\ c # d /\ c.slot \in Nat
    BY <2>2, <2>3, CallIs
  <2> HIDE DEF c, d
  <2>5. tool[d.slot] # "idle" /\ ~(IsConcurrencySafe(c) /\ IsConcurrencySafe(d))
    BY DEF c, d
  <2>6. tool[c.slot] # "idle"
    BY <2>3, <2>4, <2>5 DEF IInv, Places
  <2>7. ASSUME tool[c.slot] = "running" PROVE FALSE
    <3>1. In(c, batch)
      BY <2>3, <2>4, <2>7 DEF IInv, Places
    <3>2. In(d, batch)
      BY <2>3, <2>4, <2>5, <3>1 DEF IInv, Places
    <3>3. Len(batch) = 1
      BY <2>5, <3>1, <3>2 DEF IInv, Places, Alone
    <3>4. QED BY <2>4, <3>1, <3>2, <3>3 DEF In
  <2>8. QED BY <2>6, <2>7 DEF c
<1>2. QED BY <1>1, Invariance, PTL

-----------------------------------------------------------------------------
(* What a request does to its tasks *)

LEMMA ServiceMaps ==
  ASSUME TypeOK, ServiceInv, [Next]_vars
  PROVE  [Service!Next]_(Service!vars)
<1>1. ASSUME UNCHANGED service PROVE UNCHANGED Service!vars
  BY <1>1 DEF service, Service!vars
<1>2. CASE GeneratorStep
  <2>1. ASSUME NEW i \in 1..MaxCalls, BeginWait(i) PROVE Service!Next
    <3>1. i \in DOMAIN results /\ Service!Ask(TheTask(results[i]), TheTask(results[i]))
      BY <2>1 DEF BeginWait
    <3>2. results[i] \in Result /\ turn \in Turns
      BY <3>1 DEF TypeOK
    <3>3. TheTask(results[i]) \in Calls
      BY <3>2 DEF TheTask, Calls, Result, Call
    <3>4. QED BY <3>1, <3>3 DEF Service!Next
  <2>2. CASE \E p \in Plans : RouteCalls(p)
    BY <1>1, <2>2 DEF RouteCalls
  <2>3. CASE RoutePasses \/ LlmTimeout \/ LlmError \/ Collect \/ CollectSevered
    BY <1>1, <2>3 DEF RoutePasses, LlmTimeout, LlmError, Collect, CollectSevered, EndsWith
  <2>4. CASE WaitOver \/ Wash \/ Render \/ Synthesize \/ StreamReply
    BY <1>1, <2>4 DEF WaitOver, Wash, Render, Synthesize, StreamReply
  <2>5. QED BY <1>2, <2>1, <2>2, <2>3, <2>4 DEF GeneratorStep
<1>3. CASE ExecuteStep
  <2>1. ASSUME NEW b \in 1..MaxCalls, NEW o \in ToolState, FinishTool(b, o)
        PROVE  [Service!Next]_(Service!vars)
    <3>1. CASE o = "started"
      <4>1. b \in DOMAIN batch /\ Service!Submit(<<turn, batch[b].slot>>)
        BY <2>1, <3>1 DEF FinishTool
      <4>2. batch[b] \in Call /\ turn \in Turns
        BY <4>1 DEF TypeOK
      <4>3. <<turn, batch[b].slot>> \in Calls
        BY <4>2 DEF Calls, Call
      <4>4. QED BY <4>1, <4>3 DEF Service!Next
    <3>2. CASE o # "started"
      BY <1>1, <2>1, <3>2 DEF FinishTool
    <3>3. QED BY <3>1, <3>2
  <2>2. CASE StartBatch \/ EndBatch \/ BatchSevered \/ EndExecute
    BY <1>1, <2>2 DEF StartBatch, EndBatch, BatchSevered, EndExecute
  <2>3. QED BY <1>3, <2>1, <2>2 DEF ExecuteStep
<1>4. CASE WaitStep
  <2>1. ASSUME NEW c \in Calls, WaitAnswered(c) PROVE Service!Next
    BY <2>1 DEF WaitAnswered, Service!Next
  <2>2. ASSUME NEW c \in Calls, WaitExpires(c) PROVE Service!Leave
    <3>1. {c} \in SUBSET {a \in Calls : phase[a] = "waiting"}
      BY <2>2 DEF WaitExpires
    <3>2. /\ phase' = [a \in Calls |-> IF a \in {c} THEN "gone" ELSE phase[a]]
          /\ news' = [a \in Calls |-> IF a \in {c} THEN {} ELSE news[a]]
          /\ UNCHANGED <<status, asked, answer>>
      BY <2>2 DEF WaitExpires, ServiceInv
    <3>3. QED BY <3>1, <3>2 DEF Service!Leave
  <2>3. QED BY <1>4, <2>1, <2>2 DEF WaitStep, Service!Next
<1>5. CASE ClientGoes
  <2> DEFINE gone == {a \in Calls : phase[a] = "waiting"}
  <2>1. /\ phase' = [a \in Calls |-> IF a \in gone THEN "gone" ELSE phase[a]]
        /\ UNCHANGED <<status, asked, answer>> /\ news' = [a \in Calls |-> {}]
    BY <1>5 DEF ClientGoes, AbandonWaits
  <2>2. [a \in Calls |-> {}] = [a \in Calls |-> IF a \in gone THEN {} ELSE news[a]]
    BY DEF ServiceInv
  <2>3. Service!Leave
    BY <2>1, <2>2 DEF Service!Leave
  <2>4. QED BY <2>3 DEF Service!Next
<1>6. CASE Background
  BY <1>6 DEF Background, Service!Next
<1>7. CASE UNCHANGED vars
  BY <1>1, <1>7 DEF vars
<1>8. QED BY <1>2, <1>3, <1>4, <1>5, <1>6, <1>7 DEF Next

\* A request takes only the steps that TaskLifecycle allows its users: it submits a task
\* once, asks for a task under its own name, is answered with what was published, or
\* leaves.  So what TaskService is proved to promise is what the request relies on.
THEOREM KeepsToTheService == Spec => Service!Spec
<1>1. Init => Service!Init
  BY DEF Init
<1>2. IInv /\ [Next]_vars => [Service!Next]_(Service!vars)
  BY ServiceMaps DEF IInv
<1>3. QED BY <1>1, <1>2, Invariance, PTL DEF Spec, Service!Spec
=============================================================================
