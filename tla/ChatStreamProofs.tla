-------------------------- MODULE ChatStreamProofs --------------------------
(***************************************************************************)
(* Theorems about ChatStream, proved for every bound, every set of names,  *)
(* finish reasons and indexing styles.                                     *)
(*                                                                         *)
(* The converter's operators are recursive functions over sequences; the   *)
(* lemmas of the first part say what they compute.  An induction over the  *)
(* naturals is an inclusion of Nat in the set of numbers that have the     *)
(* property (EveryNat).                                                *)
(***************************************************************************)
EXTENDS ChatStream, WellFoundedInduction, SequenceTheorems, TLAPS

----------------------------------------------------------------------------
(* Induction, and functions defined by it.                                 *)

\* A set that has 0 and, with a number, its successor has all of them.
LEMMA EveryNat ==
    ASSUME NEW S, 0 \in S, \A n \in Nat : n \in S => n + 1 \in S
    PROVE  Nat \subseteq S
<1>1. ASSUME NEW z \in Nat, z \notin S PROVE FALSE
  <2>1. PICK x \in Nat \ S : \A y \in Nat \ S : ~(<<y, x>> \in OpToRel(<, Nat))
    <3>1. Nat \ S # {} /\ Nat \ S \subseteq Nat
      BY <1>1
    <3>2. QED
      BY <3>1, NatLessThanWellFounded, WFMin, Zenon
  <2>2. x \in Nat /\ x # 0 /\ x - 1 \in Nat /\ (x - 1) + 1 = x
    OBVIOUS
  <2>3. <<x - 1, x>> \in OpToRel(<, Nat)
    BY <2>2 DEF OpToRel
  <2>4. x - 1 \in S
    BY <2>1, <2>2, <2>3
  <2>5. (x - 1) + 1 \in S
    BY <2>2, <2>4
  <2>6. QED
    BY <2>1, <2>2, <2>5
<1>2. QED
  BY <1>1

\* Receive is what it chooses the only candidate for.
LEMMA ReceiveIs ==
    ASSUME NEW m, NEW e
    PROVE  Receive(m, e) = IF Acceptable(m, e) THEN Accepted(m, e)
                           ELSE [m EXCEPT !.valid = FALSE]
<1> DEFINE R(x) == IF Acceptable(x, e) THEN Accepted(x, e)
                   ELSE [x EXCEPT !.valid = FALSE]
<1>1. Receive(m, e) = CHOOSE r \in {R(x) : x \in {m}} : TRUE
  BY DEF Receive
<1>2. {R(x) : x \in {m}} = {R(m)}
  OBVIOUS
<1>3. QED
  BY <1>1, <1>2

\* What Received computes, event by event.
LEMMA ReceivedIs ==
    ASSUME NEW m, NEW es, Len(es) \in Nat
    PROVE  \E told :
              /\ told[0] = m
              /\ \A i \in 1 .. Len(es) : told[i] = Receive(told[i - 1], es[i])
              /\ Received(m, es) = told[Len(es)]
<1> DEFINE Body(g, k) ==
             [i \in 0 .. k |-> IF i = 0 THEN m ELSE Receive(g[i - 1], es[i])]
           Good == {k \in Nat : \E g : g = Body(g, k)}
           told == CHOOSE g : g = Body(g, Len(es))
<1>1. 0 \in Good
  <2>1. [i \in 0 .. 0 |-> m] = Body([i \in 0 .. 0 |-> m], 0)
    OBVIOUS
  <2>2. QED
    BY <2>1
<1>2. ASSUME NEW k \in Nat, k \in Good
      PROVE  k + 1 \in Good
  <2>1. PICK g : g = Body(g, k)
    BY <1>2
  <2> DEFINE h == [i \in 0 .. k + 1 |->
                     IF i <= k THEN g[i] ELSE Receive(g[k], es[k + 1])]
  <2>2. ASSUME NEW i \in 0 .. k + 1
        PROVE  h[i] = Body(h, k + 1)[i]
    <3>1. CASE i = 0
      BY <2>1, <3>1
    <3>2. CASE i # 0 /\ i <= k
      <4>1. i - 1 \in 0 .. k + 1 /\ i - 1 <= k /\ i \in 0 .. k
        BY <3>2
      <4>2. h[i - 1] = g[i - 1] /\ h[i] = g[i]
        BY <3>2, <4>1
      <4>3. g[i] = Receive(g[i - 1], es[i])
        BY <2>1, <3>2, <4>1
      <4>4. QED
        BY <3>2, <4>2, <4>3
    <3>3. CASE i = k + 1
      <4>1. i - 1 = k /\ i # 0 /\ ~(i <= k) /\ k \in 0 .. k + 1
        BY <3>3
      <4>2. h[i] = Receive(g[k], es[k + 1]) /\ h[i - 1] = g[k]
        BY <3>3, <4>1
      <4>3. QED
        BY <3>3, <4>1, <4>2
    <3>4. QED
      BY <3>1, <3>2, <3>3
  <2>3. h = Body(h, k + 1)
    <3> HIDE DEF h
    <3>1. DOMAIN h = 0 .. k + 1 /\ h = [i \in 0 .. k + 1 |-> h[i]]
      BY DEF h
    <3>2. QED
      BY <2>2, <3>1
  <2>4. \E f : f = Body(f, k + 1)
    <3> HIDE DEF h, Body
    <3>1. QED
      BY <2>3
  <2>5. QED
    BY <2>4
<1>3. Nat \subseteq Good
  <2>1. \A k \in Nat : k \in Good => k + 1 \in Good
    BY <1>2
  <2> HIDE DEF Good
  <2>2. QED
    BY <1>1, <2>1, EveryNat
<1>4. told = Body(told, Len(es))
  <2>1. \E g : g = Body(g, Len(es))
    BY <1>3
  <2>2. QED
    BY <2>1
<1>5. Received(m, es) = told[Len(es)]
  BY DEF Received
<1> HIDE DEF told
<1>6. told[0] = m
  BY <1>4
<1>7. ASSUME NEW i \in 1 .. Len(es)
      PROVE  told[i] = Receive(told[i - 1], es[i])
  BY <1>4
<1>8. QED
  BY <1>5, <1>6, <1>7

\* What Picked computes, place by place.
LEMMA PickedIs ==
    ASSUME NEW s, NEW places, Len(s) \in Nat
    PROVE  \E got :
              /\ got[0] = <<>>
              /\ \A i \in 1 .. Len(s) :
                    got[i] = IF i \in places THEN Append(got[i - 1], s[i])
                             ELSE got[i - 1]
              /\ Picked(s, places) = got[Len(s)]
<1> DEFINE Next1(x, i) == IF i \in places THEN Append(x, s[i]) ELSE x
           Body(g, k) ==
             [i \in 0 .. k |->
                IF i = 0 THEN <<>>
                ELSE IF i \in places THEN Append(g[i - 1], s[i]) ELSE g[i - 1]]
           Good == {k \in Nat : \E g : g = Body(g, k)}
           got == CHOOSE g : g = Body(g, Len(s))
<1>1. 0 \in Good
  <2>1. [i \in 0 .. 0 |-> <<>>] = Body([i \in 0 .. 0 |-> <<>>], 0)
    OBVIOUS
  <2>2. QED
    BY <2>1
<1>2. ASSUME NEW k \in Nat, k \in Good
      PROVE  k + 1 \in Good
  <2>1. PICK g : g = Body(g, k)
    BY <1>2
  <2> DEFINE h == [i \in 0 .. k + 1 |-> IF i <= k THEN g[i] ELSE Next1(g[k], k + 1)]
  <2>2. ASSUME NEW i \in 0 .. k + 1
        PROVE  h[i] = Body(h, k + 1)[i]
    <3>1. CASE i = 0
      BY <2>1, <3>1
    <3>2. CASE i # 0 /\ i <= k
      <4>1. i - 1 \in 0 .. k + 1 /\ i - 1 <= k /\ i \in 0 .. k
        BY <3>2
      <4>2. h[i - 1] = g[i - 1] /\ h[i] = g[i]
        BY <3>2, <4>1
      <4>3. g[i] = IF i \in places THEN Append(g[i - 1], s[i]) ELSE g[i - 1]
        BY <2>1, <3>2, <4>1
      <4> HIDE DEF h
      <4>4. QED
        BY <3>2, <4>2, <4>3
    <3>3. CASE i = k + 1
      <4>1. i - 1 = k /\ i # 0 /\ ~(i <= k) /\ k \in 0 .. k + 1
        BY <3>3
      <4>2. h[i] = Next1(g[k], k + 1) /\ h[i - 1] = g[k]
        BY <3>3, <4>1
      <4> HIDE DEF h
      <4>3. QED
        BY <3>3, <4>1, <4>2
    <3>4. QED
      BY <3>1, <3>2, <3>3
  <2>3. h = Body(h, k + 1)
    <3> HIDE DEF h
    <3>1. DOMAIN h = 0 .. k + 1 /\ h = [i \in 0 .. k + 1 |-> h[i]]
      BY DEF h
    <3>2. QED
      BY <2>2, <3>1
  <2>4. \E f : f = Body(f, k + 1)
    <3> HIDE DEF h, Body
    <3>1. QED
      BY <2>3
  <2> HIDE DEF h, Body
  <2>5. QED
    BY <2>4
<1>3. Nat \subseteq Good
  <2>1. \A k \in Nat : k \in Good => k + 1 \in Good
    BY <1>2
  <2> HIDE DEF Good
  <2>2. QED
    BY <1>1, <2>1, EveryNat
<1>4. got = Body(got, Len(s))
  <2>1. \E g : g = Body(g, Len(s))
    BY <1>3
  <2>2. QED
    BY <2>1
<1>5. Picked(s, places) = got[Len(s)]
  BY DEF Picked
<1> HIDE DEF got
<1>6. got[0] = <<>>
  BY <1>4
<1>7. ASSUME NEW i \in 1 .. Len(s)
      PROVE  got[i] = IF i \in places THEN Append(got[i - 1], s[i]) ELSE got[i - 1]
  <2>1. i \in 0 .. Len(s) /\ i # 0
    OBVIOUS
  <2>2. QED
    BY <1>4, <2>1
<1>8. QED
  BY <1>5, <1>6, <1>7

\* The places of s that are picked and the picked sequence correspond one to
\* one, in the same order.
LEMMA PickedPlaces ==
    ASSUME NEW T, NEW s \in Seq(T), NEW places
    PROVE  /\ Picked(s, places) \in Seq(T)
           /\ \E at :
                /\ \A k \in DOMAIN Picked(s, places) :
                      /\ at[k] \in DOMAIN s \cap places
                      /\ Picked(s, places)[k] = s[at[k]]
                /\ \A k, l \in DOMAIN Picked(s, places) : at[k] = at[l] => k = l
                /\ \A i \in DOMAIN s \cap places :
                      \E k \in DOMAIN Picked(s, places) : at[k] = i
<1>1. Len(s) \in Nat /\ DOMAIN s = 1 .. Len(s)
  OBVIOUS
<1>2. PICK got :
        /\ got[0] = <<>>
        /\ \A i \in 1 .. Len(s) :
              got[i] = IF i \in places THEN Append(got[i - 1], s[i]) ELSE got[i - 1]
        /\ Picked(s, places) = got[Len(s)]
  BY <1>1, PickedIs
<1> DEFINE Fits(p, at, n) ==
             /\ \A k \in 1 .. Len(p) :
                   at[k] \in 1 .. n /\ at[k] \in places /\ p[k] = s[at[k]]
             /\ \A k, l \in 1 .. Len(p) : at[k] = at[l] => k = l
             /\ \A i \in 1 .. n : i \in places => \E k \in 1 .. Len(p) : at[k] = i
           Good(n) == n <= Len(s) => got[n] \in Seq(T) /\ \E at : Fits(got[n], at, n)
           Numbers == {n \in Nat : Good(n)}
<1>3. Good(0)
  <2>1. Fits(<<>>, <<>>, 0)
    OBVIOUS
  <2>2. got[0] \in Seq(T) /\ \E at : Fits(got[0], at, 0)
    <3> HIDE DEF Fits
    <3>1. QED
      BY <1>2, <2>1
  <2>3. QED
    BY <2>2
<1>4. ASSUME NEW n \in Nat, Good(n)
      PROVE  Good(n + 1)
  <2>1. SUFFICES ASSUME n + 1 <= Len(s)
                 PROVE  got[n + 1] \in Seq(T) /\ \E at : Fits(got[n + 1], at, n + 1)
    BY <1>4
  <2>2. got[n] \in Seq(T) /\ n + 1 \in 1 .. Len(s) /\ (n + 1) - 1 = n
    BY <1>1, <1>4, <2>1
  <2>3. PICK at : Fits(got[n], at, n)
    <3>1. n <= Len(s)
      BY <1>1, <2>1
    <3> HIDE DEF Fits
    <3>2. QED
      BY <1>4, <3>1
  <2>4. CASE n + 1 \notin places
    <3>1. got[n + 1] = got[n]
      BY <1>2, <2>2, <2>4
    <3>2. Fits(got[n], at, n + 1)
      BY <2>2, <2>3, <2>4, SMTT(30)
    <3>3. QED
      <4> HIDE DEF Fits
      <4>1. QED
        BY <2>2, <3>1, <3>2
  <2>5. CASE n + 1 \in places
    <3> DEFINE p == got[n]
               q == Append(p, s[n + 1])
               to == [k \in 1 .. Len(p) + 1 |-> IF k <= Len(p) THEN at[k] ELSE n + 1]
    <3>1. got[n + 1] = q
      BY <1>2, <2>2, <2>5
    <3>2. s[n + 1] \in T
      BY <1>1, <2>2
    <3>3. /\ q \in Seq(T) /\ Len(q) = Len(p) + 1 /\ Len(p) \in Nat
          /\ \A k \in 1 .. Len(p) : q[k] = p[k]
          /\ q[Len(p) + 1] = s[n + 1]
      BY <2>2, <3>2, AppendProperties
    <3>4. Fits(p, at, n)
      BY <2>3
    <3>5. /\ \A k \in 1 .. Len(p) : to[k] = at[k]
          /\ to[Len(p) + 1] = n + 1
      BY <3>3
    <3> HIDE DEF p, q, to
    <3>6. ASSUME NEW k \in 1 .. Len(q)
          PROVE  to[k] \in 1 .. n + 1 /\ to[k] \in places /\ q[k] = s[to[k]]
      <4>1. CASE k = Len(p) + 1
        BY <2>5, <3>3, <3>5, <4>1
      <4>2. CASE k \in 1 .. Len(p)
        BY <3>3, <3>4, <3>5, <4>2
      <4>3. QED
        BY <3>3, <4>1, <4>2
    <3>7. ASSUME NEW k \in 1 .. Len(q), NEW l \in 1 .. Len(q), to[k] = to[l]
          PROVE  k = l
      <4>1. \A j \in 1 .. Len(p) : to[j] # n + 1
        BY <3>4, <3>5
      <4>2. QED
        BY <3>3, <3>4, <3>5, <3>7, <4>1
    <3>8. ASSUME NEW i \in 1 .. n + 1, i \in places
          PROVE  \E k \in 1 .. Len(q) : to[k] = i
      <4>1. CASE i = n + 1
        BY <3>3, <3>5, <4>1
      <4>2. CASE i \in 1 .. n
        BY <3>3, <3>4, <3>5, <3>8, <4>2, SMTT(30)
      <4>3. QED
        BY <4>1, <4>2
    <3>9. Fits(q, to, n + 1)
      BY <3>6, <3>7, <3>8
    <3>10. QED
      <4> HIDE DEF Fits
      <4>1. QED
        BY <3>1, <3>3, <3>9
  <2>6. QED
    BY <2>4, <2>5
<1>5. Good(Len(s))
  <2> HIDE DEF Good
  <2>1. 0 \in Numbers /\ \A n \in Nat : n \in Numbers => n + 1 \in Numbers
    BY <1>3, <1>4
  <2> HIDE DEF Numbers
  <2>2. Nat \subseteq Numbers
    BY <2>1, EveryNat
  <2>3. QED
    BY <1>1, <2>2 DEF Numbers
<1> DEFINE p == Picked(s, places)
<1>6. p \in Seq(T)
  BY <1>1, <1>2, <1>5
<1>7. PICK at : Fits(p, at, Len(s))
  <2> HIDE DEF Fits
  <2>1. QED
    BY <1>1, <1>2, <1>5
<1>8. DOMAIN p = 1 .. Len(p)
  BY <1>6
<1> HIDE DEF p
<1>9. /\ \A k \in DOMAIN p : at[k] \in DOMAIN s \cap places /\ p[k] = s[at[k]]
      /\ \A k, l \in DOMAIN p : at[k] = at[l] => k = l
      /\ \A i \in DOMAIN s \cap places : \E k \in DOMAIN p : at[k] = i
  BY <1>1, <1>7, <1>8
<1>10. QED
  BY <1>6, <1>9 DEF p

\* What is picked and what is not make up s.
LEMMA PickedOrNot ==
    ASSUME NEW T, NEW s \in Seq(T), NEW places
    PROVE  Len(Picked(s, places)) + Len(Picked(s, DOMAIN s \ places)) = Len(s)
<1> DEFINE rest == DOMAIN s \ places
<1>1. Len(s) \in Nat /\ DOMAIN s = 1 .. Len(s)
  OBVIOUS
<1>2. PICK got :
        /\ got[0] = <<>>
        /\ \A i \in 1 .. Len(s) :
              got[i] = IF i \in places THEN Append(got[i - 1], s[i]) ELSE got[i - 1]
        /\ Picked(s, places) = got[Len(s)]
  BY <1>1, PickedIs
<1>3. PICK left :
        /\ left[0] = <<>>
        /\ \A i \in 1 .. Len(s) :
              left[i] = IF i \in rest THEN Append(left[i - 1], s[i]) ELSE left[i - 1]
        /\ Picked(s, rest) = left[Len(s)]
  BY <1>1, PickedIs
<1> DEFINE Good(n) == n <= Len(s) =>
                        /\ got[n] \in Seq(T) /\ left[n] \in Seq(T)
                        /\ Len(got[n]) + Len(left[n]) = n
           Numbers == {n \in Nat : Good(n)}
<1>4. Good(0)
  BY <1>2, <1>3
<1>5. ASSUME NEW n \in Nat, Good(n)
      PROVE  Good(n + 1)
  <2>1. SUFFICES ASSUME n + 1 <= Len(s)
                 PROVE  /\ got[n + 1] \in Seq(T) /\ left[n + 1] \in Seq(T)
                        /\ Len(got[n + 1]) + Len(left[n + 1]) = n + 1
    BY <1>5
  <2>2. /\ got[n] \in Seq(T) /\ left[n] \in Seq(T)
        /\ Len(got[n]) + Len(left[n]) = n
        /\ n + 1 \in 1 .. Len(s) /\ (n + 1) - 1 = n /\ s[n + 1] \in T
    <3>1. n <= Len(s) /\ n + 1 \in 1 .. Len(s) /\ (n + 1) - 1 = n
      BY <1>1, <2>1
    <3>2. s[n + 1] \in T
      BY <3>1, <1>1
    <3>3. QED
      BY <1>5, <3>1, <3>2
  <2>3. \A q \in Seq(T) : Append(q, s[n + 1]) \in Seq(T)
                          /\ Len(Append(q, s[n + 1])) = Len(q) + 1
    BY <2>2, AppendProperties
  <2>4. CASE n + 1 \in places
    <3>1. got[n + 1] = Append(got[n], s[n + 1])
      BY <1>2, <2>2, <2>4
    <3>2. left[n + 1] = left[n]
      BY <1>3, <2>2, <2>4
    <3>3. Len(got[n]) \in Nat /\ Len(left[n]) \in Nat
      BY <2>2
    <3>4. got[n + 1] \in Seq(T) /\ Len(got[n + 1]) = Len(got[n]) + 1
      BY <2>2, <2>3, <3>1
    <3>5. Len(left[n + 1]) = Len(left[n]) /\ left[n + 1] \in Seq(T)
      BY <2>2, <3>2
    <3>6. Len(got[n]) + Len(left[n]) = n
      BY <2>2
    <3>7. Len(got[n + 1]) + Len(left[n + 1]) = n + 1
      <4>1. \A a, b \in Nat : a + b = n => (a + 1) + b = n + 1 /\ a + (b + 1) = n + 1
        OBVIOUS
      <4>2. QED
        BY <3>3, <3>4, <3>5, <3>6, <4>1, ZenonT(60)
    <3>8. QED
      BY <3>4, <3>5, <3>7
  <2>5. CASE n + 1 \notin places
    <3>1. got[n + 1] = got[n]
      BY <1>2, <2>2, <2>5
    <3>2. left[n + 1] = Append(left[n], s[n + 1])
      BY <1>1, <1>3, <2>2, <2>5
    <3>3. Len(got[n]) \in Nat /\ Len(left[n]) \in Nat
      BY <2>2
    <3>4. left[n + 1] \in Seq(T) /\ Len(left[n + 1]) = Len(left[n]) + 1
      BY <2>2, <2>3, <3>2
    <3>5. Len(got[n + 1]) = Len(got[n]) /\ got[n + 1] \in Seq(T)
      BY <2>2, <3>1
    <3>6. Len(got[n]) + Len(left[n]) = n
      BY <2>2
    <3>7. Len(got[n + 1]) + Len(left[n + 1]) = n + 1
      <4>1. \A a, b \in Nat : a + b = n => (a + 1) + b = n + 1 /\ a + (b + 1) = n + 1
        OBVIOUS
      <4>2. QED
        BY <3>3, <3>4, <3>5, <3>6, <4>1, ZenonT(60)
    <3>8. QED
      BY <3>4, <3>5, <3>7
  <2>6. QED
    BY <2>4, <2>5
<1>6. Good(Len(s))
  <2> HIDE DEF Good
  <2>1. 0 \in Numbers /\ \A n \in Nat : n \in Numbers => n + 1 \in Numbers
    BY <1>4, <1>5
  <2> HIDE DEF Numbers
  <2>2. Nat \subseteq Numbers
    BY <2>1, EveryNat
  <2>3. QED
    BY <1>1, <2>2 DEF Numbers
<1>7. Len(got[Len(s)]) + Len(left[Len(s)]) = Len(s)
  <2>1. Len(s) <= Len(s)
    BY <1>1
  <2>2. QED
    BY <1>6, <2>1
<1>8. QED
  BY <1>2, <1>3, <1>7

\* When all places from some point on are picked and none before, Picked is
\* the rest of the sequence.
LEMMA PickedRest ==
    ASSUME NEW T, NEW s \in Seq(T), NEW places, NEW m \in 0 .. Len(s),
           \A i \in DOMAIN s : i \in places <=> i > m
    PROVE  /\ Picked(s, places) \in Seq(T)
           /\ Len(Picked(s, places)) = Len(s) - m
           /\ \A k \in 1 .. Len(s) - m : Picked(s, places)[k] = s[m + k]
<1>1. Len(s) \in Nat /\ DOMAIN s = 1 .. Len(s)
  OBVIOUS
<1>2. PICK got :
        /\ got[0] = <<>>
        /\ \A i \in 1 .. Len(s) :
              got[i] = IF i \in places THEN Append(got[i - 1], s[i]) ELSE got[i - 1]
        /\ Picked(s, places) = got[Len(s)]
  BY <1>1, PickedIs
<1> DEFINE Size(n) == IF n > m THEN n - m ELSE 0
           Good(n) == n <= Len(s) =>
                        /\ got[n] \in Seq(T) /\ Len(got[n]) = Size(n)
                        /\ \A k \in 1 .. Size(n) : got[n][k] = s[m + k]
           Numbers == {n \in Nat : Good(n)}
<1>3. Good(0)
  BY <1>2
<1>4. ASSUME NEW n \in Nat, Good(n)
      PROVE  Good(n + 1)
  <2>1. SUFFICES ASSUME n + 1 <= Len(s)
                 PROVE  /\ got[n + 1] \in Seq(T) /\ Len(got[n + 1]) = Size(n + 1)
                        /\ \A k \in 1 .. Size(n + 1) : got[n + 1][k] = s[m + k]
    BY <1>4
  <2>2. /\ got[n] \in Seq(T) /\ Len(got[n]) = Size(n)
        /\ \A k \in 1 .. Size(n) : got[n][k] = s[m + k]
        /\ n + 1 \in 1 .. Len(s) /\ (n + 1) - 1 = n /\ s[n + 1] \in T
    <3>1. n <= Len(s) /\ n + 1 \in 1 .. Len(s) /\ (n + 1) - 1 = n
      BY <1>1, <2>1
    <3>2. s[n + 1] \in T
      BY <3>1
    <3> HIDE DEF Size
    <3>3. QED
      BY <1>4, <3>1, <3>2
  <2>3. CASE n + 1 <= m
    <3>1. got[n + 1] = got[n]
      BY <1>1, <1>2, <2>2, <2>3
    <3>2. QED
      BY <2>2, <2>3, <3>1
  <2>4. CASE n + 1 > m
    <3> DEFINE p == got[n]
               q == Append(p, s[n + 1])
    <3>1. got[n + 1] = q
      BY <1>1, <1>2, <2>2, <2>4
    <3>2. Len(p) = n - m /\ Size(n + 1) = n - m + 1
      BY <2>2, <2>4
    <3>3. /\ q \in Seq(T) /\ Len(q) = Len(p) + 1
          /\ \A k \in 1 .. Len(p) : q[k] = p[k]
          /\ q[Len(p) + 1] = s[n + 1]
      BY <2>2, AppendProperties
    <3>4. \A k \in 1 .. Len(p) : p[k] = s[m + k]
      BY <2>2, <2>4
    <3> HIDE DEF p, q
    <3>5. ASSUME NEW k \in 1 .. n - m + 1
          PROVE  q[k] = s[m + k]
      <4>1. CASE k \in 1 .. Len(p)
        BY <3>3, <3>4, <4>1
      <4>2. CASE k = Len(p) + 1
        <5>1. m + k = n + 1
          BY <1>1, <3>2, <4>2
        <5>2. QED
          BY <3>3, <4>2, <5>1
      <4>3. k \in 1 .. Len(p) \/ k = Len(p) + 1
        BY <1>1, <2>4, <3>2
      <4>4. QED
        BY <4>1, <4>2, <4>3
    <3>6. QED
      BY <3>1, <3>2, <3>3, <3>5
  <2>5. QED
    BY <2>3, <2>4
<1>5. Good(Len(s))
  <2> HIDE DEF Good
  <2>1. 0 \in Numbers /\ \A n \in Nat : n \in Numbers => n + 1 \in Numbers
    BY <1>3, <1>4
  <2> HIDE DEF Numbers
  <2>2. Nat \subseteq Numbers
    BY <2>1, EveryNat
  <2>3. QED
    BY <1>1, <2>2 DEF Numbers
<1>6. Len(s) <= Len(s) /\ Size(Len(s)) = Len(s) - m
  <2>1. m \in Nat /\ m <= Len(s)
    BY <1>1
  <2>2. \A l \in Nat : m <= l => l <= l /\ (IF l > m THEN l - m ELSE 0) = l - m
    BY <2>1
  <2>3. QED
    BY <1>1, <2>1, <2>2
<1> HIDE DEF Size
<1>7. /\ got[Len(s)] \in Seq(T) /\ Len(got[Len(s)]) = Len(s) - m
      /\ \A k \in 1 .. Len(s) - m : got[Len(s)][k] = s[m + k]
  BY <1>5, <1>6
<1>8. QED
  BY <1>2, <1>7

----------------------------------------------------------------------------
(* The values of the variables.                                            *)

CallIds == Samples \X Nat
Ids == CallIds \cup {NoId}
SaidNames == Names \cup {NoName}
Said == {""} \cup Finishes

Pieces == [call : CallIds, n : {1, 2}, last : BOOLEAN, shaped : BOOLEAN]
Fragments == [index : Int, id : Ids, name : SaidNames, piece : Pieces]
Buffers == [key : Int, id : Ids, name : SaidNames, args : Seq(Pieces)]
SentCalls ==
    [id : CallIds, style : Indexing, size : {1, 2}, name : Names,
     shaped : BOOLEAN, at : {1, 2}, named : BOOLEAN]

PlainChunks ==
    [from : Samples, role : BOOLEAN, body : {"none", "text", "thinking", "usage"},
     frag : {NoId}, finish : Said]
ToolChunks ==
    [from : Samples, role : BOOLEAN, body : {"tool"}, frag : Fragments, finish : Said]
Chunks == PlainChunks \cup ToolChunks

\* The blocks of a message.
Narration == [kind : {"text", "thinking"}, from : Samples]
ToolBlocks == [kind : {"tool_use"}, id : {0, 1, 2} \X Int, args : Seq(Pieces)]
Blocks == Narration \cup ToolBlocks

\* A message of which only narration has been told, and a converter that has
\* not been finalized.
Tellings ==
    [blocks : Seq(Narration), open : BOOLEAN, stop : {"none"},
     ended : {FALSE}, failed : BOOLEAN, valid : {TRUE}]
Converters ==
    [declared : BOOLEAN, cur : {"none", "text", "thinking"}, next : Nat,
     text : BOOLEAN, reasoning : BOOLEAN, tools : Seq(Buffers), minKey : Int,
     finish : Said, dropped : {<<>>}, finalized : {FALSE}, stop : {"none"},
     wire : Tellings]

\* The converter knows which block is open on its wire.
InStep(c) ==
    /\ c.next = Len(c.wire.blocks)
    /\ c.wire.open <=> c.cur # "none"
    /\ c.cur # "none" => c.next > 0 /\ c.wire.blocks[c.next].kind = c.cur

Ready(c) == c \in Converters /\ InStep(c)

----------------------------------------------------------------------------
(* What the client makes of the events of a converter.                     *)

\* A message that is still being told.
Saying(bs, open, failed) ==
    [blocks |-> bs, open |-> open, stop |-> "none", ended |-> FALSE,
     failed |-> failed, valid |-> TRUE]

\* A block is opened behind those that are complete.
LEMMA ReceiveOpened ==
    ASSUME NEW bs, NEW b, NEW failed, NEW i, i = Len(bs)
    PROVE  Receive(Saying(bs, FALSE, failed), Opened(i, b)) =
             Saying(Append(bs, b), TRUE, failed)
<1> DEFINE m == Saying(bs, FALSE, failed)
<1>1. Acceptable(m, Opened(i, b))
  BY DEF Acceptable, Opened, Streaming, Saying
<1>2. Accepted(m, Opened(i, b)) = Saying(Append(bs, b), TRUE, failed)
  BY DEF Accepted, Opened, Saying
<1>3. QED
  BY <1>1, <1>2, ReceiveIs

\* A delta of narration leaves what is recorded of the message.
LEMMA ReceiveText ==
    ASSUME NEW bs, NEW failed, NEW i, NEW piece, i = Len(bs) - 1,
           bs[Len(bs)].kind # "tool_use"
    PROVE  Receive(Saying(bs, TRUE, failed), Delta(i, piece)) = Saying(bs, TRUE, failed)
<1> DEFINE m == Saying(bs, TRUE, failed)
<1>1. Acceptable(m, Delta(i, piece))
  BY DEF Acceptable, Delta, Streaming, Saying
<1>2. Accepted(m, Delta(i, piece)) = m
  BY DEF Accepted, Delta, Grown, Last, Saying
<1>3. QED
  BY <1>1, <1>2, ReceiveIs

\* The open block is closed.
LEMMA ReceiveClosed ==
    ASSUME NEW bs, NEW failed, NEW i, i = Len(bs) - 1
    PROVE  Receive(Saying(bs, TRUE, failed), Closed(i)) = Saying(bs, FALSE, failed)
<1> DEFINE m == Saying(bs, TRUE, failed)
<1>1. Acceptable(m, Closed(i))
  BY DEF Acceptable, Closed, Streaming, Saying
<1>2. Accepted(m, Closed(i)) = Saying(bs, FALSE, failed)
  BY DEF Accepted, Closed, Saying
<1>3. QED
  BY <1>1, <1>2, ReceiveIs

\* No event, one, two and three.
LEMMA ReceivedNone ==
    ASSUME NEW m
    PROVE  Received(m, <<>>) = m
<1>1. Len(<<>>) = 0
  OBVIOUS
<1>2. QED
  BY <1>1, ReceivedIs

LEMMA ReceivedOne ==
    ASSUME NEW m, NEW a
    PROVE  Received(m, <<a>>) = Receive(m, a)
<1> DEFINE es == <<a>>
<1>1. Len(es) = 1 /\ es[1] = a /\ 1 \in 1 .. 1
  OBVIOUS
<1> HIDE DEF es
<1>2. QED
  BY <1>1, ReceivedIs DEF es

LEMMA ReceivedTwo ==
    ASSUME NEW m, NEW a, NEW b
    PROVE  Received(m, <<a, b>>) = Receive(Receive(m, a), b)
<1> DEFINE es == <<a, b>>
<1>1. Len(es) = 2 /\ es[1] = a /\ es[2] = b
  OBVIOUS
<1> HIDE DEF es
<1>2. PICK told : /\ told[0] = m
                  /\ \A i \in 1 .. Len(es) : told[i] = Receive(told[i - 1], es[i])
                  /\ Received(m, es) = told[Len(es)]
  <2>1. Len(es) \in Nat
    BY <1>1
  <2>2. QED
    BY <2>1, ReceivedIs
<1>3. told[1] = Receive(m, a)
  BY <1>1, <1>2
<1>4. told[2] = Receive(told[1], b)
  BY <1>1, <1>2
<1>5. QED
  BY <1>1, <1>2, <1>3, <1>4 DEF es

LEMMA ReceivedThree ==
    ASSUME NEW m, NEW a, NEW b, NEW c
    PROVE  Received(m, <<a, b, c>>) = Receive(Receive(Receive(m, a), b), c)
<1> DEFINE es == <<a, b, c>>
<1>1. Len(es) = 3 /\ es[1] = a /\ es[2] = b /\ es[3] = c
  OBVIOUS
<1> HIDE DEF es
<1>2. PICK told : /\ told[0] = m
                  /\ \A i \in 1 .. Len(es) : told[i] = Receive(told[i - 1], es[i])
                  /\ Received(m, es) = told[Len(es)]
  <2>1. Len(es) \in Nat
    BY <1>1
  <2>2. QED
    BY <2>1, ReceivedIs
<1>3. told[1] = Receive(m, a)
  BY <1>1, <1>2
<1>4. told[2] = Receive(told[1], b)
  BY <1>1, <1>2
<1>5. told[3] = Receive(told[2], c)
  BY <1>1, <1>2
<1>6. QED
  BY <1>1, <1>2, <1>3, <1>4, <1>5 DEF es

\* The block a buffered call becomes.
CallBlock(st) == [kind |-> "tool_use", id |-> ToolId(st), args |-> st.args]

LEMMA CallBlockType ==
    ASSUME NEW st \in Buffers
    PROVE  CallBlock(st) \in ToolBlocks
<1>1. ToolId(st) \in {0, 1, 2} \X Int
  BY DEF ToolId, Buffers, Ids, CallIds, Samples
<1>2. QED
  BY <1>1 DEF CallBlock, ToolBlocks, Buffers

\* A call is emitted whole behind what was told before.
LEMMA ReceivedCall ==
    ASSUME NEW bs \in Seq(Blocks), NEW failed, NEW st \in Buffers, NEW i, i = Len(bs)
    PROVE  Received(Saying(bs, FALSE, failed), emitBufferedTool(i, st)) =
             Saying(Append(bs, CallBlock(st)), FALSE, failed)
<1> DEFINE empty == [kind |-> "tool_use", id |-> ToolId(st), args |-> <<>>]
           with == Append(bs, empty)
           then == Append(bs, CallBlock(st))
<1>1. empty \in Blocks /\ CallBlock(st) \in Blocks
  <2>1. ToolId(st) \in {0, 1, 2} \X Int
    BY DEF ToolId, Buffers, Ids, CallIds, Samples
  <2>2. QED
    BY <2>1, CallBlockType DEF Blocks, ToolBlocks
<1>2. /\ with \in Seq(Blocks) /\ Len(with) = i + 1 /\ with[i + 1] = empty
      /\ then \in Seq(Blocks) /\ Len(then) = i + 1 /\ then[i + 1] = CallBlock(st)
      /\ \A k \in 1 .. i : with[k] = bs[k] /\ then[k] = bs[k]
  BY <1>1, AppendProperties
<1>3. i \in Nat /\ (i + 1) - 1 = i
  OBVIOUS
<1>4. Receive(Saying(bs, FALSE, failed), Opened(i, empty)) = Saying(with, TRUE, failed)
  BY ReceiveOpened
<1>5. Receive(Saying(with, TRUE, failed), Delta(i, st.args)) = Saying(then, TRUE, failed)
  <2> DEFINE m == Saying(with, TRUE, failed)
  <2>1. Acceptable(m, Delta(i, st.args))
    BY <1>2, <1>3 DEF Acceptable, Delta, Streaming, Saying
  <2>2. Accepted(m, Delta(i, st.args)) = Grown(m, st.args)
    BY DEF Accepted, Delta
  <2>3. Last(m.blocks) = empty /\ Len(m.blocks) = i + 1 /\ m.blocks = with
    BY <1>2 DEF Last, Saying
  <2>4. <<>> \o st.args = st.args
    BY DEF Buffers
  <2>5. [with EXCEPT ![i + 1].args = @ \o st.args] = then
    <3> DEFINE grown == [with EXCEPT ![i + 1].args = @ \o st.args]
    <3>1. grown = [with EXCEPT ![i + 1] = CallBlock(st)]
      <4>1. [empty EXCEPT !.args = @ \o st.args] = CallBlock(st)
        BY <2>4 DEF CallBlock
      <4> HIDE DEF with, empty
      <4>2. grown = [with EXCEPT ![i + 1] = [with[i + 1] EXCEPT !.args = @ \o st.args]]
        OBVIOUS
      <4>3. QED
        BY <1>2, <4>1, <4>2
    <3> HIDE DEF with, then, grown
    <3>2. grown \in Seq(Blocks) /\ Len(grown) = Len(with)
          /\ \A k \in 1 .. Len(with) :
                grown[k] = IF k = i + 1 THEN CallBlock(st) ELSE with[k]
      BY <1>1, <1>2, <1>3, <3>1, ExceptSeq
    <3>3. \A k \in 1 .. i + 1 : k \in 1 .. i \/ k = i + 1
      BY <1>3
    <3>4. \A k \in 1 .. i + 1 : grown[k] = then[k]
      BY <1>2, <1>3, <3>2, <3>3
    <3>5. QED
      BY <1>2, <3>2, <3>4, SeqEqual DEF grown
  <2>6. Grown(m, st.args) = [m EXCEPT !.blocks = [with EXCEPT ![i + 1].args = @ \o st.args]]
    <3> HIDE DEF with, m
    <3>1. QED
      BY <2>3 DEF Grown
  <2>7. Grown(m, st.args) = Saying(then, TRUE, failed)
    <3> HIDE DEF then
    <3>1. QED
      BY <2>5, <2>6 DEF Saying
  <2>8. QED
    BY <2>1, <2>2, <2>7, ReceiveIs
<1>6. Receive(Saying(then, TRUE, failed), Closed(i)) = Saying(then, FALSE, failed)
  BY <1>2, <1>3, ReceiveClosed
<1>7. QED
  <2> HIDE DEF with, then, empty
  <2>1. emitBufferedTool(i, st) = <<Opened(i, empty), Delta(i, st.args), Closed(i)>>
    BY DEF emitBufferedTool, empty
  <2> DEFINE m == Saying(bs, FALSE, failed)
             a == Opened(i, empty)
             b == Delta(i, st.args)
             c == Closed(i)
  <2>2. Receive(Receive(Receive(m, a), b), c) = Saying(then, FALSE, failed)
    BY <1>4, <1>5, <1>6
  <2> HIDE DEF m, a, b, c
  <2>3. Received(m, <<a, b, c>>) = Saying(then, FALSE, failed)
    <3>1. Received(m, <<a, b, c>>) = Receive(Receive(Receive(m, a), b), c)
      BY ReceivedThree
    <3>2. QED
      BY <2>2, <3>1
  <2>4. QED
    BY <2>1, <2>3 DEF m, a, b, c, then

\* What HandedOver computes, call by call.
LEMMA HandedOverIs ==
    ASSUME NEW c, NEW m, Len(Emitted(c)) \in Nat
    PROVE  \E told :
              /\ told[0] = m
              /\ \A i \in 1 .. Len(Emitted(c)) :
                    told[i] = Received(told[i - 1],
                                emitBufferedTool(c.next + i - 1, Emitted(c)[i]))
              /\ HandedOver(c, m) = told[Len(Emitted(c))]
<1> DEFINE calls == Emitted(c)
           Events(i) == emitBufferedTool(c.next + i - 1, calls[i])
           Body(g, k) ==
             [i \in 0 .. k |-> IF i = 0 THEN m ELSE Received(g[i - 1], Events(i))]
           Good == {k \in Nat : \E g : g = Body(g, k)}
           told == CHOOSE g : g = Body(g, Len(calls))
<1>1. HandedOver(c, m) = told[Len(calls)]
  BY DEF HandedOver
<1> HIDE DEF calls, Events
<1>2. 0 \in Good
  <2>1. [i \in 0 .. 0 |-> m] = Body([i \in 0 .. 0 |-> m], 0)
    OBVIOUS
  <2>2. QED
    BY <2>1
<1>3. ASSUME NEW k \in Nat, k \in Good
      PROVE  k + 1 \in Good
  <2>1. PICK g : g = Body(g, k)
    BY <1>3
  <2> DEFINE h == [i \in 0 .. k + 1 |->
                     IF i <= k THEN g[i] ELSE Received(g[k], Events(k + 1))]
  <2>2. ASSUME NEW i \in 0 .. k + 1
        PROVE  h[i] = Body(h, k + 1)[i]
    <3>1. CASE i = 0
      BY <2>1, <3>1
    <3>2. CASE i # 0 /\ i <= k
      <4>1. i - 1 \in 0 .. k + 1 /\ i - 1 <= k /\ i \in 0 .. k
        BY <3>2
      <4>2. h[i - 1] = g[i - 1] /\ h[i] = g[i]
        BY <3>2, <4>1
      <4>3. g[i] = Received(g[i - 1], Events(i))
        BY <2>1, <3>2, <4>1
      <4> HIDE DEF h
      <4>4. QED
        BY <3>2, <4>2, <4>3
    <3>3. CASE i = k + 1
      <4>1. i - 1 = k /\ i # 0 /\ ~(i <= k) /\ k \in 0 .. k + 1
        BY <3>3
      <4>2. h[i] = Received(g[k], Events(k + 1)) /\ h[i - 1] = g[k]
        BY <3>3, <4>1
      <4> HIDE DEF h
      <4>3. QED
        BY <3>3, <4>1, <4>2
    <3>4. QED
      BY <3>1, <3>2, <3>3
  <2>3. h = Body(h, k + 1)
    <3> HIDE DEF h
    <3>1. DOMAIN h = 0 .. k + 1 /\ h = [i \in 0 .. k + 1 |-> h[i]]
      BY DEF h
    <3>2. QED
      BY <2>2, <3>1
  <2>4. \E f : f = Body(f, k + 1)
    <3> HIDE DEF h, Body
    <3>1. QED
      BY <2>3
  <2> HIDE DEF h, Body
  <2>5. QED
    BY <2>4
<1>4. Nat \subseteq Good
  <2>1. \A k \in Nat : k \in Good => k + 1 \in Good
    BY <1>3
  <2> HIDE DEF Good
  <2>2. QED
    BY <1>2, <2>1, EveryNat
<1>5. told = Body(told, Len(calls))
  <2>1. \E g : g = Body(g, Len(calls))
    BY <1>4 DEF calls
  <2>2. QED
    BY <2>1
<1> HIDE DEF told
<1>6. Len(calls) \in Nat
  BY DEF calls
<1>7. told[0] = m
  BY <1>5, <1>6
<1>8. ASSUME NEW i \in 1 .. Len(calls)
      PROVE  told[i] = Received(told[i - 1], Events(i))
  <2>1. i \in 0 .. Len(calls) /\ i # 0
    BY <1>6
  <2>2. QED
    BY <1>5, <2>1
<1>9. QED
  BY <1>1, <1>7, <1>8 DEF calls, Events

\* The blocks of all are those of bs and, behind them, the calls in order.
Behind(all, bs, calls) ==
    /\ Len(all) = Len(bs) + Len(calls)
    /\ \A i \in 1 .. Len(bs) : all[i] = bs[i]
    /\ \A i \in 1 .. Len(calls) : all[Len(bs) + i] = CallBlock(calls[i])

\* The calls follow what was told before, in their order.
LEMMA HandsOver ==
    ASSUME NEW c, Emitted(c) \in Seq(Buffers),
           NEW bs \in Seq(Blocks), c.next = Len(bs), NEW failed
    PROVE  \E all \in Seq(Blocks) :
              /\ HandedOver(c, Saying(bs, FALSE, failed)) = Saying(all, FALSE, failed)
              /\ Behind(all, bs, Emitted(c))
<1> DEFINE calls == Emitted(c)
<1>1. calls \in Seq(Buffers) /\ Len(calls) \in Nat /\ Len(bs) \in Nat
      /\ \A i \in 1 .. Len(calls) : calls[i] \in Buffers
  OBVIOUS
<1>2. PICK told :
        /\ told[0] = Saying(bs, FALSE, failed)
        /\ \A i \in 1 .. Len(calls) :
              told[i] = Received(told[i - 1], emitBufferedTool(c.next + i - 1, calls[i]))
        /\ HandedOver(c, Saying(bs, FALSE, failed)) = told[Len(calls)]
  BY <1>1, HandedOverIs
<1> HIDE DEF calls
<1> DEFINE Fits(all, n) ==
             /\ all \in Seq(Blocks) /\ Len(all) = Len(bs) + n
             /\ \A i \in 1 .. Len(bs) : all[i] = bs[i]
             /\ \A i \in 1 .. n : all[Len(bs) + i] = CallBlock(calls[i])
           Good(n) == n <= Len(calls) =>
                        \E all : told[n] = Saying(all, FALSE, failed) /\ Fits(all, n)
           Numbers == {n \in Nat : Good(n)}
<1>3. Good(0)
  <2>1. Fits(bs, 0)
    BY <1>1
  <2> HIDE DEF Fits
  <2>2. QED
    BY <1>2, <2>1
<1>4. ASSUME NEW n \in Nat, Good(n)
      PROVE  Good(n + 1)
  <2>1. SUFFICES ASSUME n + 1 <= Len(calls)
                 PROVE  \E all : told[n + 1] = Saying(all, FALSE, failed) /\ Fits(all, n + 1)
    OBVIOUS
  <2>2. n <= Len(calls) /\ n + 1 \in 1 .. Len(calls) /\ (n + 1) - 1 = n
    BY <1>1, <2>1
  <2>3. PICK all : told[n] = Saying(all, FALSE, failed) /\ Fits(all, n)
    <3> HIDE DEF Fits
    <3>1. QED
      BY <1>4, <2>2
  <2> DEFINE next == Append(all, CallBlock(calls[n + 1]))
  <2>4. CallBlock(calls[n + 1]) \in Blocks
    BY <1>1, <2>2, CallBlockType DEF Blocks
  <2>5. c.next + (n + 1) - 1 = Len(all)
    BY <1>1, <2>3
  <2>6. told[n + 1] = Saying(next, FALSE, failed)
    <3>1. told[n + 1] = Received(told[n], emitBufferedTool(Len(all), calls[n + 1]))
      BY <1>2, <2>2, <2>5
    <3>2. Received(Saying(all, FALSE, failed), emitBufferedTool(Len(all), calls[n + 1]))
            = Saying(next, FALSE, failed)
      BY <1>1, <2>2, <2>3, ReceivedCall
    <3>3. QED
      BY <2>3, <3>1, <3>2
  <2>7. /\ next \in Seq(Blocks) /\ Len(next) = Len(all) + 1
        /\ \A i \in 1 .. Len(all) : next[i] = all[i]
        /\ next[Len(all) + 1] = CallBlock(calls[n + 1])
    <3> DEFINE b == CallBlock(calls[n + 1])
    <3>1. all \in Seq(Blocks) /\ b \in Blocks
      BY <2>3, <2>4
    <3> HIDE DEF b
    <3>2. /\ Append(all, b) \in Seq(Blocks) /\ Len(Append(all, b)) = Len(all) + 1
          /\ \A i \in 1 .. Len(all) : Append(all, b)[i] = all[i]
          /\ Append(all, b)[Len(all) + 1] = b
      BY <3>1, AppendProperties
    <3>3. QED
      BY <3>2 DEF b
  <2> HIDE DEF next
  <2>8. Len(next) = Len(bs) + (n + 1)
    BY <1>1, <2>3, <2>7
  <2>9. \A i \in 1 .. Len(bs) : next[i] = bs[i]
    BY <1>1, <2>3, <2>7
  <2>10. ASSUME NEW i \in 1 .. n + 1
         PROVE  next[Len(bs) + i] = CallBlock(calls[i])
    <3>1. CASE i = n + 1
      <4>1. Len(bs) + i = Len(all) + 1
        BY <1>1, <2>3, <3>1
      <4>2. QED
        BY <2>7, <3>1, <4>1
    <3>2. CASE i \in 1 .. n
      <4>1. Len(bs) + i \in 1 .. Len(all)
        BY <1>1, <2>3, <3>2
      <4>2. QED
        BY <2>3, <2>7, <3>2, <4>1
    <3>3. QED
      BY <3>1, <3>2
  <2>11. Fits(next, n + 1)
    BY <2>7, <2>8, <2>9, <2>10
  <2> HIDE DEF Fits
  <2>12. QED
    BY <2>6, <2>11
<1>5. Good(Len(calls))
  <2> HIDE DEF Good
  <2>1. 0 \in Numbers /\ \A n \in Nat : n \in Numbers => n + 1 \in Numbers
    BY <1>3, <1>4
  <2> HIDE DEF Numbers
  <2>2. Nat \subseteq Numbers
    BY <2>1, EveryNat
  <2>3. QED
    BY <1>1, <2>2 DEF Numbers
<1>6. PICK all : told[Len(calls)] = Saying(all, FALSE, failed) /\ Fits(all, Len(calls))
  <2>1. Len(calls) <= Len(calls)
    BY <1>1
  <2> HIDE DEF Fits
  <2>2. QED
    BY <1>5, <2>1
<1>7. QED
  <2>1. all \in Seq(Blocks) /\ Behind(all, bs, calls)
    BY <1>6 DEF Behind
  <2> HIDE DEF Fits
  <2>2. QED
    BY <1>2, <1>6, <2>1 DEF calls

----------------------------------------------------------------------------
(* The converter's operations.                                             *)

LEMMA TellingIs ==
    ASSUME NEW m \in Tellings
    PROVE  m = Saying(m.blocks, m.open, m.failed)
BY DEF Tellings, Saying

LEMMA ReadyWire ==
    ASSUME NEW c, Ready(c)
    PROVE  /\ c.wire = Saying(c.wire.blocks, c.cur # "none", c.wire.failed)
           /\ c.wire.blocks \in Seq(Narration)
           /\ c.wire.blocks \in Seq(Blocks)
           /\ c.next \in Nat /\ c.next = Len(c.wire.blocks)
           /\ c.wire.failed \in BOOLEAN
<1>1. c.wire \in Tellings /\ c.next \in Nat
  BY DEF Ready, Converters
<1>2. c.wire = Saying(c.wire.blocks, c.wire.open, c.wire.failed)
  BY <1>1, TellingIs
<1>3. c.wire.open \in BOOLEAN /\ (c.wire.open <=> c.cur # "none")
  BY <1>1 DEF Ready, InStep, Tellings
<1>4. c.wire.open = (c.cur # "none")
  BY <1>3
<1>5. c.wire.blocks \in Seq(Narration) /\ c.wire.failed \in BOOLEAN
  BY <1>1 DEF Tellings
<1>6. c.wire.blocks \in Seq(Blocks)
  BY <1>5 DEF Blocks
<1>7. QED
  BY <1>1, <1>2, <1>4, <1>5, <1>6 DEF Ready, InStep

\* The open block, if there is one, is closed.
LEMMA ClosesCurrent ==
    ASSUME NEW c, Ready(c)
    PROVE  Received(c.wire, closeCurrent(c)) = Saying(c.wire.blocks, FALSE, c.wire.failed)
<1> DEFINE bs == c.wire.blocks
           failed == c.wire.failed
<1>1. c.wire = Saying(bs, c.cur # "none", failed) /\ c.next = Len(bs)
  BY ReadyWire
<1>2. CASE c.cur = "none"
  <2>1. closeCurrent(c) = <<>>
    BY <1>2 DEF closeCurrent
  <2>2. (c.cur # "none") = FALSE
    BY <1>2
  <2>3. QED
    BY <1>1, <2>1, <2>2, ReceivedNone
<1>3. CASE c.cur # "none"
  <2>1. closeCurrent(c) = <<Closed(Len(bs) - 1)>>
    BY <1>1, <1>3 DEF closeCurrent
  <2>2. (c.cur # "none") = TRUE
    BY <1>3
  <2>3. Receive(Saying(bs, TRUE, failed), Closed(Len(bs) - 1)) = Saying(bs, FALSE, failed)
    BY ReceiveClosed
  <2>4. Received(c.wire, <<Closed(Len(bs) - 1)>>) = Receive(c.wire, Closed(Len(bs) - 1))
    BY ReceivedOne
  <2>5. QED
    BY <1>1, <2>1, <2>2, <2>3, <2>4
<1>4. QED
  BY <1>2, <1>3

\* The stop reason and the end.
Told(bs, stop, failed) ==
    [blocks |-> bs, open |-> FALSE, stop |-> stop, ended |-> TRUE,
     failed |-> failed, valid |-> TRUE]

LEMMA ReceivedEnd ==
    ASSUME NEW bs, NEW failed, NEW reason, reason # "none"
    PROVE  Received(Saying(bs, FALSE, failed), <<Stopping(reason), Stopped>>) =
             Told(bs, reason, failed)
<1> DEFINE m == Saying(bs, FALSE, failed)
           n == [m EXCEPT !.stop = reason]
<1>1. Receive(m, Stopping(reason)) = n
  <2>1. Acceptable(m, Stopping(reason))
    BY DEF Acceptable, Stopping, Streaming, Saying
  <2>2. Accepted(m, Stopping(reason)) = n
    BY DEF Accepted, Stopping
  <2>3. QED
    BY <2>1, <2>2, ReceiveIs
<1>2. Receive(n, Stopped) = Told(bs, reason, failed)
  <2>1. Acceptable(n, Stopped)
    BY DEF Acceptable, Stopped, Saying
  <2>2. Accepted(n, Stopped) = Told(bs, reason, failed)
    BY DEF Accepted, Stopped, Told, Saying
  <2>3. QED
    BY <2>1, <2>2, ReceiveIs
<1> HIDE DEF m, n
<1>3. Received(m, <<Stopping(reason), Stopped>>) = Receive(Receive(m, Stopping(reason)), Stopped)
  BY ReceivedTwo
<1>4. QED
  BY <1>1, <1>2, <1>3 DEF m

\* What is emitted are buffered calls.
LEMMA EmittedType ==
    ASSUME NEW c, c.tools \in Seq(Buffers)
    PROVE  Emitted(c) \in Seq(Buffers) /\ Dropped(c) \in Seq(Buffers)
BY PickedPlaces DEF Emitted, Dropped

Reason(c) == mapFinishReason(FinishReason(c))

LEMMA ReasonIs ==
    ASSUME NEW c
    PROVE  /\ Reason(c) \in {"end_turn", "max_tokens", "tool_use"}
           /\ Reason(c) = "tool_use" <=>
                c.finish \in {"", "stop", "tool_calls"} /\ Emitted(c) # <<>>
BY DEF Reason, mapFinishReason, FinishReason

\* Finalize hands over the calls and ends the message.
LEMMA FinalizeIs ==
    ASSUME NEW c, Ready(c)
    PROVE  /\ Finalize(c).finish = c.finish
           /\ Finalize(c).tools = c.tools /\ Finalize(c).minKey = c.minKey
           /\ Finalize(c).dropped = Dropped(c)
           /\ Finalize(c).stop = Reason(c)
           /\ Finalize(c).wire = Ending(c)
<1>1. c.finalized = FALSE
  BY DEF Ready, Converters
<1>2. DOMAIN c = {"declared", "cur", "next", "text", "reasoning", "tools", "minKey",
                  "finish", "dropped", "finalized", "stop", "wire"}
  BY DEF Ready, Converters
<1>3. QED
  BY <1>1, <1>2 DEF Finalize, Reason

\* What the client has when a converter is finalized: what was narrated, the
\* emitted calls behind it, and a stop reason.
LEMMA FinalWire ==
    ASSUME NEW c, Ready(c)
    PROVE  \E all \in Seq(Blocks) :
              /\ Finalize(c).wire = Told(all, Reason(c), c.wire.failed)
              /\ Behind(all, c.wire.blocks, Emitted(c))
<1> DEFINE bs == c.wire.blocks
           failed == c.wire.failed
           end == <<Stopping(Reason(c)), Stopped>>
<1>1. Emitted(c) \in Seq(Buffers)
  BY EmittedType DEF Ready, Converters
<1>2. bs \in Seq(Blocks) /\ c.next = Len(bs)
  BY ReadyWire
<1>3. PICK all \in Seq(Blocks) :
        /\ HandedOver(c, Saying(bs, FALSE, failed)) = Saying(all, FALSE, failed)
        /\ Behind(all, bs, Emitted(c))
  <2> HIDE DEF bs, failed, end
  <2>1. QED
    BY <1>1, <1>2, HandsOver
<1>4. Received(c.wire, closeCurrent(c)) = Saying(bs, FALSE, failed)
  BY ClosesCurrent
<1>5. Ending(c) = Received(Saying(all, FALSE, failed), end)
  BY <1>3, <1>4 DEF Ending, Reason
<1>6. Reason(c) # "none"
  BY ReasonIs
<1>7. Received(Saying(all, FALSE, failed), end) = Told(all, Reason(c), failed)
  BY <1>6, ReceivedEnd
<1>8. Finalize(c).wire = Told(all, Reason(c), failed)
  BY <1>5, <1>7, FinalizeIs
<1>9. QED
  BY <1>3, <1>8

\* The calls the client has then are those emitted.
LEMMA FinalCalls ==
    ASSUME NEW c, Ready(c)
    PROVE  /\ Calls(Finalize(c).wire) \in Seq(Blocks)
           /\ Len(Calls(Finalize(c).wire)) = Len(Emitted(c))
           /\ \A k \in 1 .. Len(Emitted(c)) :
                 Calls(Finalize(c).wire)[k] = CallBlock(Emitted(c)[k])
<1> DEFINE bs == c.wire.blocks
           m == Len(bs)
           calls == Emitted(c)
<1>1. PICK all \in Seq(Blocks) :
        /\ Finalize(c).wire = Told(all, Reason(c), c.wire.failed)
        /\ Len(all) = m + Len(calls)
        /\ \A i \in 1 .. m : all[i] = bs[i]
        /\ \A i \in 1 .. Len(calls) : all[m + i] = CallBlock(calls[i])
  BY FinalWire DEF Behind
<1>2. bs \in Seq(Narration) /\ m \in Nat
  BY ReadyWire
<1>3. calls \in Seq(Buffers) /\ Len(calls) \in Nat
  BY EmittedType DEF Ready, Converters
<1> DEFINE places == {i \in DOMAIN all : all[i].kind = "tool_use"}
<1>4. Calls(Finalize(c).wire) = Picked(all, places)
  BY <1>1 DEF Calls, Told
<1>5. DOMAIN all = 1 .. Len(all) /\ Len(all) \in Nat
  OBVIOUS
<1> HIDE DEF bs, m, calls
<1>6. ASSUME NEW i \in DOMAIN all
      PROVE  i \in places <=> i > m
  <2>1. CASE i > m
    <3>1. i - m \in 1 .. Len(calls) /\ m + (i - m) = i
      BY <1>1, <1>2, <1>3, <1>5, <2>1
    <3>2. all[i] = CallBlock(calls[i - m])
      BY <1>1, <3>1
    <3>3. QED
      BY <2>1, <3>2 DEF CallBlock
  <2>2. CASE ~(i > m)
    <3>1. i \in 1 .. m
      BY <1>2, <1>5, <2>2
    <3>2. all[i] = bs[i] /\ bs[i] \in Narration
      BY <1>1, <1>2, <3>1 DEF m
    <3>3. all[i].kind # "tool_use"
      BY <3>2 DEF Narration
    <3>4. QED
      BY <2>2, <3>3
  <2>3. QED
    BY <2>1, <2>2
<1>7. m \in 0 .. Len(all) /\ Len(all) - m = Len(calls)
  BY <1>1, <1>2, <1>3
<1> HIDE DEF places
<1>8. /\ Picked(all, places) \in Seq(Blocks)
      /\ Len(Picked(all, places)) = Len(calls)
      /\ \A k \in 1 .. Len(calls) : Picked(all, places)[k] = all[m + k]
  <2>1. /\ Picked(all, places) \in Seq(Blocks)
        /\ Len(Picked(all, places)) = Len(all) - m
        /\ \A k \in 1 .. Len(all) - m : Picked(all, places)[k] = all[m + k]
    BY <1>6, <1>7, PickedRest
  <2>2. QED
    BY <1>7, <2>1
<1>9. QED
  BY <1>1, <1>4, <1>8 DEF calls

----------------------------------------------------------------------------
(* Buffering.                                                              *)

\* What bufferTool reads and writes of a converter.
Box(c) == [tools |-> c.tools, minKey |-> c.minKey]
Boxes == [tools : Seq(Buffers), minKey : Int]

\* Three fields of a buffered call are replaced.
Filled(st, x, y, z) == [st EXCEPT !.id = x, !.name = y, !.args = z]

LEMMA FilledIs ==
    ASSUME NEW st, NEW x, NEW y, NEW z,
           st = [key |-> st.key, id |-> st.id, name |-> st.name, args |-> st.args]
    PROVE  Filled(st, x, y, z) = [key |-> st.key, id |-> x, name |-> y, args |-> z]
<1> DEFINE k == st.key
           a == st.id
           b == st.name
           c == st.args
<1>1. st = [key |-> k, id |-> a, name |-> b, args |-> c]
  OBVIOUS
<1>2. Filled(st, x, y, z) = [[[st EXCEPT !.id = x] EXCEPT !.name = y] EXCEPT !.args = z]
  BY DEF Filled
<1> HIDE DEF k, a, b, c
<1>3. [[key |-> k, id |-> a, name |-> b, args |-> c] EXCEPT !.id = x]
        = [key |-> k, id |-> x, name |-> b, args |-> c]
  OBVIOUS
<1>4. [[key |-> k, id |-> x, name |-> b, args |-> c] EXCEPT !.name = y]
        = [key |-> k, id |-> x, name |-> y, args |-> c]
  OBVIOUS
<1>5. [[key |-> k, id |-> x, name |-> y, args |-> c] EXCEPT !.args = z]
        = [key |-> k, id |-> x, name |-> y, args |-> z]
  OBVIOUS
<1>6. QED
  BY <1>1, <1>2, <1>3, <1>4, <1>5 DEF k

LEMMA BufferBox ==
    ASSUME NEW c \in Converters, NEW f
    PROVE  bufferTool(c, f) = [c EXCEPT !.tools = bufferTool(Box(c), f).tools,
                                        !.minKey = bufferTool(Box(c), f).minKey]
<1>1. Box(c).tools = c.tools /\ Box(c).minKey = c.minKey
  BY DEF Box
<1>2. BufferKey(Box(c), f) = BufferKey(c, f)
  BY <1>1 DEF BufferKey, Slots
<1>3. Slots(Box(c), BufferKey(c, f)) = Slots(c, BufferKey(c, f))
  BY <1>1 DEF Slots
<1> DEFINE key == BufferKey(c, f)
           known == IF Slots(c, key) # {} THEN c.tools
                    ELSE Append(c.tools, [key |-> key, id |-> NoId,
                                          name |-> NoName, args |-> <<>>])
           i == CHOOSE j \in DOMAIN known : known[j].key = key
           st == known[i]
           filled == [st EXCEPT !.id = IF @ = NoId THEN f.id ELSE @,
                                !.name = IF @ = NoName THEN f.name ELSE @,
                                !.args = Append(@, f.piece)]
           tools == ReplaceAt(known, i, filled)
           minKey == IF key < c.minKey THEN key ELSE c.minKey
<1>4. bufferTool(c, f) = [c EXCEPT !.tools = tools, !.minKey = minKey]
  BY DEF bufferTool
<1>5. bufferTool(Box(c), f) = [Box(c) EXCEPT !.tools = tools, !.minKey = minKey]
  BY <1>1, <1>2, <1>3 DEF bufferTool
<1> HIDE DEF tools, minKey
<1>6. bufferTool(Box(c), f).tools = tools /\ bufferTool(Box(c), f).minKey = minKey
  BY <1>5 DEF Box
<1>7. QED
  BY <1>4, <1>6

\* What is buffered once fragment f has begun a call under a new key.
Begun(t, f, key) ==
    [tools |-> Append(t.tools, [key |-> key, id |-> f.id, name |-> f.name,
                                args |-> <<f.piece>>]),
     minKey |-> IF key < t.minKey THEN key ELSE t.minKey]

\* A fragment whose key is new begins a buffered call.
LEMMA BufferNew ==
    ASSUME NEW t \in Boxes, NEW f \in Fragments,
           NEW key, key = BufferKey(t, f),
           \A j \in DOMAIN t.tools : t.tools[j].key # key
    PROVE  bufferTool(t, f) = Begun(t, f, key)
<1> DEFINE blank == [key |-> key, id |-> NoId, name |-> NoName, args |-> <<>>]
           full == [key |-> key, id |-> f.id, name |-> f.name, args |-> <<f.piece>>]
           known == Append(t.tools, blank)
           n == Len(t.tools)
           i == CHOOSE j \in DOMAIN known : known[j].key = key
<1>1. key \in Int
  BY DEF BufferKey, Boxes, Fragments
<1>2. t.tools \in Seq(Buffers) /\ n \in Nat
  BY DEF Boxes
<1>3. full \in Buffers /\ blank \in Buffers
  BY <1>1 DEF Buffers, Fragments, Ids, SaidNames
<1>4. /\ known \in Seq(Buffers) /\ Len(known) = n + 1
      /\ \A k \in 1 .. n : known[k] = t.tools[k]
      /\ known[n + 1] = blank
  BY <1>2, <1>3, AppendProperties
<1>5. /\ Append(t.tools, full) \in Seq(Buffers) /\ Len(Append(t.tools, full)) = n + 1
      /\ \A k \in 1 .. n : Append(t.tools, full)[k] = t.tools[k]
      /\ Append(t.tools, full)[n + 1] = full
  BY <1>2, <1>3, AppendProperties
<1>6. Slots(t, key) = {}
  BY DEF Slots
<1>7. i = n + 1
  <2> HIDE DEF known
  <2>1. DOMAIN known = 1 .. n + 1 /\ DOMAIN t.tools = 1 .. n
    BY <1>2, <1>4
  <2>2. \A j \in DOMAIN known : known[j].key = key <=> j = n + 1
    BY <1>2, <1>4, <2>1
  <2>3. QED
    BY <1>2, <2>1, <2>2
<1>8. [known[i] EXCEPT !.id = IF @ = NoId THEN f.id ELSE @,
                       !.name = IF @ = NoName THEN f.name ELSE @,
                       !.args = Append(@, f.piece)] = full
  <2>1. known[i] = blank
    BY <1>4, <1>7
  <2>2. Append(<<>>, f.piece) = <<f.piece>>
    OBVIOUS
  <2>3. [blank EXCEPT !.id = IF @ = NoId THEN f.id ELSE @,
                      !.name = IF @ = NoName THEN f.name ELSE @,
                      !.args = Append(@, f.piece)] = full
    <3>1. /\ (IF blank.id = NoId THEN f.id ELSE blank.id) = f.id
          /\ (IF blank.name = NoName THEN f.name ELSE blank.name) = f.name
          /\ Append(blank.args, f.piece) = <<f.piece>>
      BY <2>2
    <3>2. [blank EXCEPT !.id = f.id, !.name = f.name, !.args = <<f.piece>>] = full
      <4>1. blank = [key |-> blank.key, id |-> blank.id, name |-> blank.name,
                     args |-> blank.args] /\ blank.key = key
        OBVIOUS
      <4> HIDE DEF blank
      <4>2. Filled(blank, f.id, f.name, <<f.piece>>)
              = [key |-> blank.key, id |-> f.id, name |-> f.name, args |-> <<f.piece>>]
        BY <4>1, FilledIs
      <4>3. QED
        BY <4>1, <4>2 DEF Filled
    <3> HIDE DEF blank, full
    <3>3. QED
      BY <3>1, <3>2
  <2> HIDE DEF known, i, blank, full
  <2>4. QED
    BY <2>1, <2>3
<1>9. ReplaceAt(known, i, full) = Append(t.tools, full)
  <2> DEFINE to == [known EXCEPT ![n + 1] = full]
             app == Append(t.tools, full)
  <2>1. ReplaceAt(known, i, full) = to
    BY <1>7 DEF ReplaceAt
  <2> HIDE DEF known, full, app
  <2>2. to \in Seq(Buffers) /\ Len(to) = n + 1
        /\ \A k \in 1 .. n + 1 : to[k] = IF k = n + 1 THEN full ELSE known[k]
    BY <1>2, <1>3, <1>4, ExceptSeq
  <2>3. \A k \in 1 .. n + 1 : to[k] = app[k]
    <3> HIDE DEF to
    <3>1. \A k \in 1 .. n + 1 : k = n + 1 \/ k \in 1 .. n
      BY <1>2
    <3>2. QED
      BY <1>2, <1>4, <1>5, <2>2, <3>1 DEF app
  <2>4. to = app
    BY <1>5, <2>2, <2>3, SeqEqual DEF app
  <2>5. QED
    BY <2>1, <2>4 DEF app
<1>10. bufferTool(t, f) = [t EXCEPT !.tools = ReplaceAt(known, i, full),
                                    !.minKey = IF key < t.minKey THEN key ELSE t.minKey]
  <2> DEFINE key0 == BufferKey(t, f)
             known0 == IF Slots(t, key0) # {} THEN t.tools
                       ELSE Append(t.tools, [key |-> key0, id |-> NoId,
                                             name |-> NoName, args |-> <<>>])
             i0 == CHOOSE j \in DOMAIN known0 : known0[j].key = key0
             filled0 == [known0[i0] EXCEPT !.id = IF @ = NoId THEN f.id ELSE @,
                                           !.name = IF @ = NoName THEN f.name ELSE @,
                                           !.args = Append(@, f.piece)]
  <2>1. bufferTool(t, f) = [t EXCEPT !.tools = ReplaceAt(known0, i0, filled0),
                                     !.minKey = IF key0 < t.minKey THEN key0 ELSE t.minKey]
    BY DEF bufferTool
  <2>2. key0 = key
    OBVIOUS
  <2>3. known0 = known
    <3> HIDE DEF key0
    <3>1. QED
      BY <1>6, <2>2
  <2> HIDE DEF key0, known0, known
  <2>4. i0 = i
    BY <2>2, <2>3
  <2> HIDE DEF i0, i, full
  <2>5. filled0 = full
    BY <1>8, <2>3, <2>4
  <2> HIDE DEF filled0
  <2>6. QED
    BY <2>1, <2>2, <2>3, <2>4, <2>5
<1> HIDE DEF known, i, full
<1>11. QED
  BY <1>9, <1>10 DEF Boxes, full, Begun

\* Any other fragment adds to the call that has its key.
LEMMA BufferOld ==
    ASSUME NEW t \in Boxes, NEW f \in Fragments, f.id = NoId,
           NEW i \in DOMAIN t.tools, t.tools[i].key = f.index,
           \A j \in DOMAIN t.tools : t.tools[j].key = f.index => j = i,
           t.minKey <= f.index
    PROVE  bufferTool(t, f) =
             [tools |-> [t.tools EXCEPT ![i] =
                           [key |-> f.index, id |-> t.tools[i].id,
                            name |-> IF t.tools[i].name = NoName THEN f.name
                                     ELSE t.tools[i].name,
                            args |-> Append(t.tools[i].args, f.piece)]],
              minKey |-> t.minKey]
<1>1. BufferKey(t, f) = f.index
  BY DEF BufferKey
<1>2. Slots(t, f.index) # {}
  BY DEF Slots
<1>3. (CHOOSE j \in DOMAIN t.tools : t.tools[j].key = f.index) = i
  OBVIOUS
<1>4. t.tools[i] \in Buffers /\ t.minKey \in Int /\ f.index \in Int
  BY DEF Boxes, Fragments
<1> DEFINE st == t.tools[i]
           filled == [st EXCEPT !.id = IF @ = NoId THEN f.id ELSE @,
                                !.name = IF @ = NoName THEN f.name ELSE @,
                                !.args = Append(@, f.piece)]
<1>5. filled = [key |-> f.index, id |-> st.id,
                name |-> IF st.name = NoName THEN f.name ELSE st.name,
                args |-> Append(st.args, f.piece)]
  <2>1. (IF st.id = NoId THEN f.id ELSE st.id) = st.id /\ st.key = f.index
    OBVIOUS
  <2>2. st \in [key : Int, id : Ids, name : SaidNames, args : Seq(Pieces)]
    BY <1>4 DEF Buffers
  <2> HIDE DEF st
  <2>3. [st EXCEPT !.id = st.id,
                   !.name = IF @ = NoName THEN f.name ELSE @,
                   !.args = Append(@, f.piece)]
          = [key |-> f.index, id |-> st.id,
             name |-> IF st.name = NoName THEN f.name ELSE st.name,
             args |-> Append(st.args, f.piece)]
    <3> DEFINE name == IF st.name = NoName THEN f.name ELSE st.name
               args == Append(st.args, f.piece)
    <3>1. st = [key |-> st.key, id |-> st.id, name |-> st.name, args |-> st.args]
      BY <2>2
    <3> HIDE DEF name, args
    <3>2. Filled(st, st.id, name, args)
            = [key |-> st.key, id |-> st.id, name |-> name, args |-> args]
      BY <3>1, FilledIs
    <3>3. [st EXCEPT !.id = st.id, !.name = name, !.args = args]
            = [key |-> f.index, id |-> st.id, name |-> name, args |-> args]
      BY <2>1, <3>2 DEF Filled
    <3>4. QED
      BY <3>3 DEF name, args
  <2>4. QED
    BY <2>1, <2>3
<1>6. ~(f.index < t.minKey)
  BY <1>4
<1>7. bufferTool(t, f) = [t EXCEPT !.tools = ReplaceAt(t.tools, i, filled),
                                   !.minKey = t.minKey]
  BY <1>1, <1>2, <1>3, <1>6 DEF bufferTool
<1> HIDE DEF filled
<1>8. QED
  BY <1>5, <1>7 DEF Boxes, ReplaceAt

----------------------------------------------------------------------------
(* The calls of a sample and what is buffered of them.                     *)

\* The calls of sample s, as far as sent, in order.
Ordered(calls, s) ==
    \A i \in DOMAIN calls :
        /\ calls[i].id = <<s, i>>
        /\ calls[i].at <= calls[i].size
        /\ calls[i].style = "whole" => calls[i].size = 1
        /\ calls[i].style \in {"whole", "split"} => i > 1
        /\ \A j \in DOMAIN calls :
              calls[i].style = "legacy" /\ calls[j].style = "legacy" => i = j

\* The pieces of the arguments of a call.
Piece(call, n) ==
    [call |-> call.id, n |-> n, last |-> n = call.size, shaped |-> call.shaped]

\* The arguments told under the i-th call: the pieces that it holds, each
\* once, from its own first one on.
Covers(args, calls, i) ==
    /\ args # <<>> /\ args[1].call = calls[i].id /\ args[1].n = 1
    /\ {<<piece.call, piece.n>> : piece \in ToSet(args)} = Held(calls, i)
    /\ \A m, n \in DOMAIN args : args[m] = args[n] => m = n

\* The buffered call st is the i-th that was sent.
Holds(st, call, i) ==
    /\ st.id = IF call.style = "legacy" THEN NoId ELSE call.id
    /\ call.style = "own" => st.key = i
    /\ call.style = "legacy" => st.key = -1
    /\ call.style \in {"whole", "split"} => st.key = 1 \/ st.key < -1
    /\ st.args # <<>> /\ st.args[1].call = call.id

\* The buffered calls are those that were sent, one for one, their keys tell
\* them apart, and the first call of an index is kept under it.
Buffered(t, calls) ==
    /\ Len(t.tools) = Len(calls)
    /\ \A i \in DOMAIN t.tools : Holds(t.tools[i], calls[i], i)
    /\ \A i \in DOMAIN t.tools : Covers(t.tools[i].args, calls, i)
    /\ \A i \in DOMAIN t.tools : t.tools[i].key = Index(calls[i]) <=> Leads(calls, i)
    /\ \A i, j \in DOMAIN t.tools : t.tools[i].key = t.tools[j].key => i = j
    /\ \A i \in DOMAIN t.tools : t.minKey <= t.tools[i].key
    /\ t.minKey <= -1
    /\ t.tools = <<>> => t.minKey = -1
    /\ \A i \in DOMAIN t.tools : calls[i].style \in {"whole", "split"} =>
          \E j \in DOMAIN t.tools : t.tools[j].key = 1

\* The index of a call, by its style.
LEMMA IndexIs ==
    ASSUME NEW call \in SentCalls, NEW s, NEW i, call.id = <<s, i>>
    PROVE  /\ call.style \in {"own", "legacy", "whole", "split"}
           /\ call.style = "own" => Index(call) = i
           /\ call.style = "legacy" => Index(call) = -1
           /\ call.style \in {"whole", "split"} => Index(call) = 1
<1>1. call.style \in {"own", "legacy", "whole", "split"}
  BY ChatAssumption DEF SentCalls
<1>2. call.id[2] = i
  OBVIOUS
<1>3. QED
  BY <1>1, <1>2 DEF Index, legacyFunctionCallIndex

\* A call that is kept under an index, or as the legacy one, has that index.
LEMMA KeyIndex ==
    ASSUME NEW s, NEW t \in Boxes, NEW calls \in Seq(SentCalls),
           Ordered(calls, s), Buffered(t, calls),
           NEW j \in DOMAIN t.tools, t.tools[j].key >= -1
    PROVE  Index(calls[j]) = t.tools[j].key
<1>1. DOMAIN t.tools = DOMAIN calls /\ j \in DOMAIN calls
  BY DEF Boxes, Buffered
<1>2. calls[j] \in SentCalls /\ calls[j].id = <<s, j>> /\ Holds(t.tools[j], calls[j], j)
  BY <1>1 DEF Ordered, Buffered
<1>3. t.tools[j].key \in Int
  <2>1. t.tools[j] \in Buffers
    BY DEF Boxes
  <2>2. QED
    BY <2>1 DEF Buffers
<1>4. QED
  BY <1>2, <1>3, IndexIs DEF Holds

\* A call that begins is told with its first piece alone; nothing changes for
\* the calls before it.
LEMMA HeldMore ==
    ASSUME NEW calls \in Seq(SentCalls), NEW call \in SentCalls, call.at = 1,
           NEW more, more = Append(calls, call)
    PROVE  /\ \A i \in 1 .. Len(calls) : /\ Leads(more, i) <=> Leads(calls, i)
                                        /\ Held(more, i) = Held(calls, i)
           /\ Held(more, Len(calls) + 1) = {<<call.id, 1>>}
           /\ Leads(more, Len(calls) + 1) <=>
                 \A j \in 1 .. Len(calls) : Index(calls[j]) # Index(call)
<1> DEFINE n == Len(calls)
<1>1. /\ n \in Nat /\ DOMAIN calls = 1 .. n /\ DOMAIN more = 1 .. n + 1
      /\ \A k \in 1 .. n : more[k] = calls[k]
      /\ more[n + 1] = call
  BY AppendProperties
<1> HIDE DEF n
<1>2. /\ \A k \in 1 .. n + 1 : k \in 1 .. n \/ k = n + 1
      /\ \A k \in 1 .. n : k # n + 1 /\ k \in 1 .. n + 1
      /\ 1 .. (n + 1) - 1 = 1 .. n
  BY <1>1
<1>3. \A i \in 1 .. n : Leads(more, i) <=> Leads(calls, i)
  <2>1. TAKE i \in 1 .. n
  <2>2. 1 .. i - 1 \subseteq 1 .. n
    BY <1>1
  <2>3. QED
    BY <1>1, <2>2 DEF Leads
<1>4. \A i \in 1 .. n : Held(more, i) = Held(calls, i)
  <2>1. TAKE i \in 1 .. n
  <2> DEFINE Late(c, k) == c[k].at = 2 /\ Leads(calls, i) /\ Index(c[k]) = Index(calls[i])
  <2>2. \A k \in 1 .. n + 1 : Late(more, k) => k \in 1 .. n
    BY <1>1, <1>2
  <2>3. \A k \in 1 .. n : Late(more, k) <=> Late(calls, k)
    BY <1>1
  <2>4. {k \in DOMAIN more : Late(more, k)} = {k \in DOMAIN calls : Late(calls, k)}
    <3> HIDE DEF Late
    <3>1. QED
      BY <1>1, <1>2, <2>2, <2>3
  <2>5. {<<more[j].id, 2>> : j \in {k \in DOMAIN more : Late(more, k)}}
          = {<<calls[j].id, 2>> : j \in {k \in DOMAIN calls : Late(calls, k)}}
    <3> DEFINE K == {k \in DOMAIN calls : Late(calls, k)}
    <3>1. \A k \in K : more[k] = calls[k]
      BY <1>1
    <3> HIDE DEF K
    <3>2. {<<more[j].id, 2>> : j \in K} = {<<calls[j].id, 2>> : j \in K}
      BY <3>1
    <3>3. QED
      BY <2>4, <3>2 DEF K
  <2>6. more[i] = calls[i] /\ (Leads(more, i) <=> Leads(calls, i))
    BY <1>1, <1>3
  <2>7. QED
    BY <2>5, <2>6 DEF Held
<1>5. Leads(more, n + 1) <=> \A j \in 1 .. n : Index(calls[j]) # Index(call)
  BY <1>1, <1>2 DEF Leads
<1>6. Held(more, n + 1) = {<<call.id, 1>>}
  <2>1. \A k \in DOMAIN more : ~(/\ more[k].at = 2 /\ Leads(more, n + 1)
                                 /\ Index(more[k]) = Index(more[n + 1]))
    BY <1>1, <1>2, <1>5
  <2>2. {k \in DOMAIN more : more[k].at = 2 /\ Leads(more, n + 1)
                               /\ Index(more[k]) = Index(more[n + 1])} = {}
    BY <2>1
  <2>3. QED
    BY <1>1, <2>2 DEF Held
<1>7. QED
  BY <1>3, <1>4, <1>5, <1>6 DEF n

\* Another piece is told behind those that are there.
LEMMA CoversMore ==
    ASSUME NEW args \in Seq(Pieces), NEW p \in Pieces, NEW calls, NEW next, NEW i,
           Covers(args, calls, i), next[i].id = calls[i].id,
           <<p.call, p.n>> \notin Held(calls, i),
           Held(next, i) = Held(calls, i) \cup {<<p.call, p.n>>}
    PROVE  Covers(Append(args, p), next, i)
<1> DEFINE n == Len(args)
           more == Append(args, p)
<1>1. /\ n \in Nat /\ DOMAIN args = 1 .. n /\ DOMAIN more = 1 .. n + 1
      /\ \A k \in 1 .. n : more[k] = args[k]
      /\ more[n + 1] = p
  BY AppendProperties
<1>2. n # 0 /\ args[1].call = calls[i].id /\ args[1].n = 1
  BY DEF Covers
<1> HIDE DEF more, n
<1>3. 1 \in 1 .. n /\ \A k \in 1 .. n + 1 : k \in 1 .. n \/ k = n + 1
  BY <1>1, <1>2
<1>4. \A k \in 1 .. n : <<args[k].call, args[k].n>> \in Held(calls, i)
  BY <1>1 DEF Covers, ToSet
<1>5. ToSet(more) = ToSet(args) \cup {p}
  <2>1. \A k \in 1 .. n + 1 : more[k] \in ToSet(args) \cup {p}
    BY <1>1, <1>3 DEF ToSet
  <2>2. \A k \in 1 .. n : \E l \in 1 .. n + 1 : args[k] = more[l]
    BY <1>1
  <2>3. p = more[n + 1] /\ n + 1 \in 1 .. n + 1
    BY <1>1
  <2>4. QED
    BY <1>1, <2>1, <2>2, <2>3 DEF ToSet
<1>6. {<<piece.call, piece.n>> : piece \in ToSet(more)} = Held(next, i)
  <2>1. {<<piece.call, piece.n>> : piece \in ToSet(args)} = Held(calls, i)
    BY DEF Covers
  <2>2. QED
    BY <1>5, <2>1
<1>7. ASSUME NEW a \in 1 .. n + 1, NEW b \in 1 .. n + 1, more[a] = more[b]
      PROVE  a = b
  <2>1. \A k \in 1 .. n : more[k] # p
    BY <1>1, <1>4
  <2>2. CASE a \in 1 .. n /\ b \in 1 .. n
    BY <1>1, <1>7, <2>2 DEF Covers
  <2>3. QED
    BY <1>1, <1>3, <1>7, <2>1, <2>2
<1>8. more # <<>> /\ more[1].call = next[i].id /\ more[1].n = 1
  BY <1>1, <1>2, <1>3
<1>9. QED
  BY <1>1, <1>6, <1>7, <1>8 DEF Covers, more

LEMMA FragmentType ==
    ASSUME NEW call \in SentCalls, NEW n \in {1, 2}, NEW first, NEW name
    PROVE  Fragment(call, n, first, name) \in Fragments
<1>1. Index(call) \in Int
  BY ChatAssumption DEF Index, SentCalls, CallIds, legacyFunctionCallIndex
<1>2. (IF first /\ call.style # "legacy" THEN call.id ELSE NoId) \in Ids
  BY DEF SentCalls, Ids
<1>3. (IF name THEN call.name ELSE NoName) \in SaidNames
  BY DEF SentCalls, SaidNames
<1>4. Piece(call, n) \in Pieces
  BY DEF Piece, Pieces, SentCalls
<1>5. QED
  BY <1>1, <1>2, <1>3, <1>4 DEF Fragment, Fragments, Piece

\* The key of the i-th call, of which nothing is buffered in t yet.
Fresh(key, t, call, i) ==
    /\ key \in Int
    /\ \A j \in DOMAIN t.tools : t.tools[j].key # key
    /\ call.style = "own" => key = i
    /\ call.style = "legacy" => key = -1
    /\ call.style \in {"whole", "split"} =>
          key = 1 \/ (key < -1 /\ \E j \in DOMAIN t.tools : t.tools[j].key = 1)

\* A new call begins with a fragment whose key nothing has yet.
LEMMA FreshKey ==
    ASSUME NEW s \in Samples, NEW t \in Boxes, NEW calls \in Seq(SentCalls),
           NEW call \in SentCalls,
           NEW i, i = Len(calls) + 1, call.id = <<s, i>>,
           Ordered(calls, s), Buffered(t, calls),
           call.style \in {"whole", "split"} =>
             calls # <<>> /\ call.named /\ call.name # NoName,
           call.style = "legacy" => \A j \in DOMAIN calls : calls[j].style # "legacy",
           NEW f, f = Fragment(call, 1, TRUE, call.named),
           NEW key, key = BufferKey(t, f)
    PROVE  Fresh(key, t, call, i)
<1>1. /\ DOMAIN t.tools = 1 .. Len(calls) /\ DOMAIN calls = 1 .. Len(calls)
      /\ Len(calls) \in Nat
      /\ \A j \in 1 .. Len(calls) : t.tools[j] \in Buffers /\ calls[j] \in SentCalls
  BY DEF Boxes, Buffered
<1>2. \A j \in 1 .. Len(calls) : t.tools[j].key \in Int /\ calls[j].style \in Indexing
  BY <1>1 DEF Buffers, SentCalls
<1>3. \A j \in 1 .. Len(calls) :
        /\ Holds(t.tools[j], calls[j], j)
        /\ calls[j].id = <<s, j>>
        /\ t.minKey <= t.tools[j].key
        /\ calls[j].style \in {"whole", "split"} => j > 1
  BY <1>1 DEF Buffered, Ordered
<1>4. call.style \in {"own", "legacy", "whole", "split"}
      /\ \A j \in 1 .. Len(calls) : calls[j].style \in {"own", "legacy", "whole", "split"}
  BY <1>2, ChatAssumption DEF SentCalls
<1>5. f.index = Index(call) /\ f.id = (IF call.style # "legacy" THEN call.id ELSE NoId)
      /\ f.name = (IF call.named THEN call.name ELSE NoName)
  BY DEF Fragment
<1>6. t.minKey \in Int /\ t.minKey <= -1
  BY DEF Boxes, Buffered
<1>7. key \in Int
  <2>1. f \in Fragments
    BY FragmentType
  <2>2. key = t.minKey - 1 \/ key = f.index
    BY DEF BufferKey
  <2>3. f.index \in Int
    BY <2>1 DEF Fragments
  <2>4. t.minKey - 1 \in Int
    BY <1>6
  <2>5. QED
    BY <2>2, <2>3, <2>4
<1>8. CASE call.style = "own"
  <2>1. f.index = i /\ i \in Nat
    <3>1. Index(call) = call.id[2]
      BY <1>8 DEF Index
    <3>2. <<s, i>>[2] = i
      OBVIOUS
    <3>3. i \in Nat
      BY <1>1
    <3>4. QED
      BY <1>5, <3>1, <3>2, <3>3
  <2>2. \A j \in 1 .. Len(calls) : t.tools[j].key # i
    <3>1. TAKE j \in 1 .. Len(calls)
    <3>2. CASE calls[j].style = "own"
      BY <1>1, <1>3, <3>2 DEF Holds
    <3>3. CASE calls[j].style = "legacy"
      BY <1>1, <1>3, <2>1, <3>3 DEF Holds
    <3>4. CASE calls[j].style \in {"whole", "split"}
      <4>1. j > 1 /\ (t.tools[j].key = 1 \/ t.tools[j].key < -1)
        BY <1>3, <3>4 DEF Holds
      <4>2. i > 1
        BY <1>1, <4>1
      <4>3. QED
        BY <1>2, <2>1, <4>1, <4>2
    <3>5. QED
      BY <1>4, <3>2, <3>3, <3>4
  <2>3. key = i
    BY <1>1, <2>1, <2>2 DEF BufferKey, Slots
  <2>4. \A j \in DOMAIN t.tools : t.tools[j].key # key
    BY <1>1, <2>2, <2>3
  <2>5. QED
    BY <1>8, <1>7, <2>3, <2>4 DEF Fresh
<1>9. CASE call.style = "legacy"
  <2>1. f.index = -1 /\ f.id = NoId
    BY <1>5, <1>9 DEF Index, legacyFunctionCallIndex
  <2>2. key = -1
    BY <2>1 DEF BufferKey
  <2>3. \A j \in 1 .. Len(calls) : t.tools[j].key # -1
    <3>1. TAKE j \in 1 .. Len(calls)
    <3>2. CASE calls[j].style = "own"
      <4>1. t.tools[j].key = j
        BY <1>3, <3>2 DEF Holds
      <4>2. QED
        BY <1>1, <4>1
    <3>3. CASE calls[j].style \in {"whole", "split"}
      <4>1. t.tools[j].key = 1 \/ t.tools[j].key < -1
        BY <1>3, <3>3 DEF Holds
      <4>2. QED
        BY <1>2, <4>1
    <3>4. calls[j].style # "legacy"
      BY <1>1, <1>9
    <3>5. QED
      BY <1>4, <3>2, <3>3, <3>4
  <2>4. \A j \in DOMAIN t.tools : t.tools[j].key # key
    BY <1>1, <2>2, <2>3
  <2>5. QED
    BY <1>9, <1>7, <2>2, <2>4 DEF Fresh
<1>10. CASE call.style \in {"whole", "split"}
  <2>1. f.index = 1 /\ f.id = <<s, i>> /\ f.name # NoName
    BY <1>5, <1>10 DEF Index
  <2>2. f.id # NoId
    <3>1. i \in Nat
      BY <1>1
    <3>2. <<s, i>> \in Samples \X Nat
      BY <3>1
    <3>3. QED
      BY <2>1, <3>2, ChatAssumption
  <2>3. CASE \E j \in 1 .. Len(calls) : t.tools[j].key = 1
    <3>1. PICK j \in 1 .. Len(calls) : t.tools[j].key = 1
      BY <2>3
    <3>2. calls[j].style # "legacy"
      BY <1>3, <3>1 DEF Holds
    <3>3. t.tools[j].id = <<s, j>>
      BY <1>3, <3>2 DEF Holds
    <3>4. j \in Nat /\ j # i
      BY <1>1
    <3>5. <<s, j>> \in Samples \X Nat /\ <<s, j>> # <<s, i>>
      BY <3>4
    <3>6. t.tools[j].id \notin {NoId, f.id}
      BY <2>1, <3>3, <3>5, ChatAssumption
    <3>7. key = t.minKey - 1
      BY <1>1, <2>1, <2>2, <3>1, <3>6 DEF BufferKey, Slots
    <3> DEFINE low == t.minKey
    <3>8. \A k \in 1 .. Len(calls) : t.tools[k].key # low - 1
      <4>1. \A k \in 1 .. Len(calls) : t.tools[k].key \in Int /\ low <= t.tools[k].key
        BY <1>2, <1>3
      <4>2. low \in Int
        BY <1>6
      <4> HIDE DEF low
      <4>3. QED
        BY <4>1, <4>2
    <3>9. low - 1 \in Int /\ low - 1 < -1
      <4>1. low \in Int /\ low <= -1
        BY <1>6
      <4> HIDE DEF low
      <4>2. QED
        BY <4>1
    <3>10. /\ key \in Int /\ key < -1
           /\ \A k \in DOMAIN t.tools : t.tools[k].key # key
           /\ \E k \in DOMAIN t.tools : t.tools[k].key = 1
      BY <1>1, <3>1, <3>7, <3>8, <3>9
    <3>11. QED
      BY <1>10, <3>10 DEF Fresh
  <2>4. CASE \A j \in 1 .. Len(calls) : t.tools[j].key # 1
    <3>1. key = 1
      BY <1>1, <2>1, <2>4 DEF BufferKey, Slots
    <3>2. \A j \in DOMAIN t.tools : t.tools[j].key # key
      BY <1>1, <2>4, <3>1
    <3>3. QED
      BY <1>10, <1>7, <3>1, <3>2 DEF Fresh
  <2>5. QED
    BY <2>3, <2>4
<1>11. QED
  BY <1>4, <1>8, <1>9, <1>10

\* It is kept under its index if and only if no call before it has that.
LEMMA KeyLeads ==
    ASSUME NEW s \in Samples, NEW t \in Boxes, NEW calls \in Seq(SentCalls),
           NEW call \in SentCalls, NEW i, i = Len(calls) + 1, call.id = <<s, i>>,
           Ordered(calls, s), Buffered(t, calls),
           call.style \in {"whole", "split"} => calls # <<>>,
           call.style = "legacy" => \A j \in DOMAIN calls : calls[j].style # "legacy",
           NEW key, Fresh(key, t, call, i)
    PROVE  key = Index(call) <=> \A j \in 1 .. Len(calls) : Index(calls[j]) # Index(call)
<1>1. /\ DOMAIN t.tools = 1 .. Len(calls) /\ DOMAIN calls = 1 .. Len(calls)
      /\ Len(calls) \in Nat
  BY DEF Boxes, Buffered
<1>2. \A j \in 1 .. Len(calls) :
        /\ calls[j].style \in {"own", "legacy", "whole", "split"}
        /\ calls[j].style = "own" => Index(calls[j]) = j /\ t.tools[j].key = j
        /\ calls[j].style = "legacy" => Index(calls[j]) = -1 /\ t.tools[j].key = -1
        /\ calls[j].style \in {"whole", "split"} =>
              Index(calls[j]) = 1 /\ \E k \in 1 .. Len(calls) : t.tools[k].key = 1
  <2>1. TAKE j \in 1 .. Len(calls)
  <2>2. calls[j] \in SentCalls /\ calls[j].id = <<s, j>>
    BY <1>1 DEF Ordered
  <2>3. /\ Holds(t.tools[j], calls[j], j)
        /\ calls[j].style \in {"whole", "split"} =>
              \E k \in 1 .. Len(calls) : t.tools[k].key = 1
    BY <1>1 DEF Buffered
  <2>4. QED
    BY <2>2, <2>3, IndexIs DEF Holds
<1>3. /\ call.style \in {"own", "legacy", "whole", "split"}
      /\ call.style = "own" => Index(call) = i
      /\ call.style = "legacy" => Index(call) = -1
      /\ call.style \in {"whole", "split"} => Index(call) = 1
  BY IndexIs
<1>4. \A j \in 1 .. Len(calls) : j # i /\ j # -1 /\ i # -1 /\ (i = 1 => Len(calls) = 0)
  BY <1>1
<1>5. CASE call.style = "own"
  <2>1. key = Index(call) /\ Index(call) = i
    BY <1>3, <1>5 DEF Fresh
  <2>2. \A j \in 1 .. Len(calls) : Index(calls[j]) # i
    BY <1>1, <1>2, <1>4
  <2>3. QED
    BY <2>1, <2>2
<1>6. CASE call.style = "legacy"
  <2>1. key = Index(call) /\ Index(call) = -1
    BY <1>3, <1>6 DEF Fresh
  <2>2. \A j \in 1 .. Len(calls) : Index(calls[j]) # -1
    BY <1>1, <1>2, <1>4, <1>6
  <2>3. QED
    BY <2>1, <2>2
<1>7. CASE call.style \in {"whole", "split"}
  <2>1. Index(call) = 1
    BY <1>3, <1>7
  <2>2. CASE key = 1
    <3>1. \A k \in 1 .. Len(calls) : t.tools[k].key # 1
      BY <1>1, <2>2 DEF Fresh
    <3>2. \A j \in 1 .. Len(calls) : Index(calls[j]) # 1
      BY <1>2, <3>1
    <3>3. QED
      BY <2>1, <2>2, <3>2
  <2>3. CASE key # 1
    <3>1. PICK k \in 1 .. Len(calls) : t.tools[k].key = 1
      BY <1>1, <1>7, <2>3 DEF Fresh
    <3>2. Index(calls[k]) = 1
      BY <1>1, <3>1, KeyIndex
    <3>3. QED
      BY <2>1, <2>3, <3>2
  <2>4. QED
    BY <2>2, <2>3
<1>8. QED
  BY <1>3, <1>5, <1>6, <1>7

\* The first fragment of a call: it is buffered behind the others.
LEMMA BufferFirst ==
    ASSUME NEW s \in Samples, NEW t \in Boxes, NEW calls \in Seq(SentCalls),
           NEW call \in SentCalls, call.at = 1, call.id = <<s, Len(calls) + 1>>,
           Ordered(calls, s), Buffered(t, calls),
           call.style \in {"whole", "split"} =>
             calls # <<>> /\ call.named /\ call.name # NoName,
           call.style = "legacy" => \A j \in DOMAIN calls : calls[j].style # "legacy",
           NEW f, f = Fragment(call, 1, TRUE, call.named)
    PROVE  /\ bufferTool(t, f) \in Boxes
           /\ Buffered(bufferTool(t, f), Append(calls, call))
<1> DEFINE n == Len(calls)
           key == BufferKey(t, f)
           full == [key |-> key, id |-> f.id, name |-> f.name, args |-> <<f.piece>>]
           tools == Append(t.tools, full)
           minKey == IF key < t.minKey THEN key ELSE t.minKey
           more == Append(calls, call)
<1>1. /\ key \in Int
      /\ \A j \in DOMAIN t.tools : t.tools[j].key # key
      /\ call.style = "own" => key = n + 1
      /\ call.style = "legacy" => key = -1
      /\ call.style \in {"whole", "split"} =>
            key = 1 \/ (key < -1 /\ \E j \in DOMAIN t.tools : t.tools[j].key = 1)
      /\ key = Index(call) <=> \A j \in 1 .. n : Index(calls[j]) # Index(call)
  <2> DEFINE i == n + 1
  <2>1. i = Len(calls) + 1
    OBVIOUS
  <2>2. key = BufferKey(t, f)
    OBVIOUS
  <2> HIDE DEF key, i
  <2>3. Fresh(key, t, call, i)
    BY <2>1, <2>2, FreshKey
  <2>4. call.id = <<s, i>>
    BY DEF i
  <2>5. key = Index(call) <=> \A j \in 1 .. n : Index(calls[j]) # Index(call)
    BY <2>1, <2>3, <2>4, KeyLeads
  <2>6. QED
    BY <2>3, <2>5 DEF Fresh, i
<1>2. f \in Fragments
  BY FragmentType
<1>3. /\ f.id = IF call.style = "legacy" THEN NoId ELSE call.id
      /\ f.piece = Piece(call, 1)
  BY DEF Fragment, Piece
<1> HIDE DEF key
<1>4. bufferTool(t, f) = [tools |-> tools, minKey |-> minKey]
  <2>1. key = BufferKey(t, f)
    BY DEF key
  <2>2. \A j \in DOMAIN t.tools : t.tools[j].key # key
    BY <1>1
  <2>3. bufferTool(t, f) = Begun(t, f, key)
    BY <1>2, <2>1, <2>2, BufferNew
  <2>4. QED
    BY <2>3 DEF Begun
<1>5. full \in Buffers
  <2>1. /\ f.id \in Ids /\ f.name \in SaidNames /\ f.piece \in Pieces
    BY <1>2 DEF Fragments
  <2>2. \A p \in Pieces : <<p>> \in Seq(Pieces)
    OBVIOUS
  <2>3. <<f.piece>> \in Seq(Pieces)
    BY <2>1, <2>2
  <2>4. QED
    BY <1>1, <2>1, <2>3 DEF Buffers
<1>6. t.tools \in Seq(Buffers) /\ t.minKey \in Int
  BY DEF Boxes
<1>7. /\ Len(t.tools) = n /\ n \in Nat
      /\ DOMAIN t.tools = 1 .. n /\ DOMAIN calls = 1 .. n
  BY <1>6 DEF Buffered
<1> HIDE DEF full
<1>8. /\ tools \in Seq(Buffers) /\ Len(tools) = n + 1 /\ DOMAIN tools = 1 .. n + 1
      /\ \A k \in 1 .. n : tools[k] = t.tools[k]
      /\ tools[n + 1] = full
  <2>1. /\ tools \in Seq(Buffers) /\ Len(tools) = Len(t.tools) + 1
        /\ \A k \in 1 .. Len(t.tools) : tools[k] = t.tools[k]
        /\ tools[Len(t.tools) + 1] = full
    BY <1>5, <1>6, AppendProperties
  <2> HIDE DEF tools
  <2>2. QED
    BY <1>7, <2>1
<1>9. /\ more \in Seq(SentCalls) /\ Len(more) = n + 1
      /\ \A k \in 1 .. n : more[k] = calls[k]
      /\ more[n + 1] = call
  BY AppendProperties
<1> HIDE DEF tools, more
<1>10. \A k \in 1 .. n + 1 : k \in 1 .. n \/ k = n + 1
  BY <1>7
<1>11. minKey \in Int /\ minKey <= t.minKey /\ minKey <= key
  BY <1>1, <1>6
<1>12. ASSUME NEW k \in 1 .. n + 1
       PROVE  Holds(tools[k], more[k], k)
  <2>1. CASE k \in 1 .. n
    <3>1. Holds(t.tools[k], calls[k], k)
      BY <1>7, <2>1 DEF Buffered
    <3>2. QED
      BY <1>8, <1>9, <2>1, <3>1
  <2>2. CASE k = n + 1
    <3>1. full.id = (IF call.style = "legacy" THEN NoId ELSE call.id)
          /\ full.key = key /\ full.args = <<Piece(call, 1)>>
      BY <1>3 DEF full
    <3>2. <<Piece(call, 1)>> # <<>> /\ <<Piece(call, 1)>>[1].call = call.id
      BY DEF Piece
    <3>4. Holds(full, call, n + 1)
      BY <1>1, <3>1, <3>2 DEF Holds
    <3>5. QED
      BY <1>8, <1>9, <2>2, <3>4
  <2>3. QED
    BY <1>10, <2>1, <2>2
<1>13. ASSUME NEW k \in 1 .. n + 1, NEW l \in 1 .. n + 1, tools[k].key = tools[l].key
       PROVE  k = l
  <2>1. full.key = key
    BY DEF full
  <2>2. \A j \in 1 .. n : tools[j].key # key
    BY <1>1, <1>7, <1>8
  <2>3. k \in 1 .. n /\ l \in 1 .. n => k = l
    BY <1>7, <1>8, <1>13, SMTT(30) DEF Buffered
  <2>4. QED
    BY <1>8, <1>10, <1>13, <2>1, <2>2, <2>3
<1>14. ASSUME NEW k \in 1 .. n + 1
       PROVE  minKey <= tools[k].key
  <2>1. CASE k \in 1 .. n
    <3>1. t.minKey <= t.tools[k].key /\ tools[k] = t.tools[k]
      BY <1>7, <1>8, <2>1 DEF Buffered
    <3>2. t.tools[k] \in Buffers
      BY <1>6, <1>7, <2>1
    <3>3. t.tools[k].key \in Int
      BY <3>2 DEF Buffers
    <3> HIDE DEF minKey
    <3>4. QED
      BY <1>6, <1>11, <3>1, <3>3
  <2>2. CASE k = n + 1
    BY <1>8, <1>11, <2>2 DEF full
  <2>3. QED
    BY <1>10, <2>1, <2>2
<1>15. minKey <= -1
  <2>1. t.minKey <= -1
    BY DEF Buffered
  <2> HIDE DEF minKey
  <2>2. QED
    BY <1>6, <1>11, <2>1
<1>16. tools # <<>>
  BY <1>7, <1>8
<1>17. ASSUME NEW k \in 1 .. n + 1, more[k].style \in {"whole", "split"}
       PROVE  \E j \in 1 .. n + 1 : tools[j].key = 1
  <2>1. CASE k \in 1 .. n
    <3>1. calls[k].style \in {"whole", "split"}
      BY <1>9, <1>17, <2>1
    <3>2. PICK j \in 1 .. n : t.tools[j].key = 1
      BY <1>7, <2>1, <3>1 DEF Buffered
    <3>3. QED
      BY <1>7, <1>8, <3>2
  <2>2. CASE k = n + 1
    <3>1. call.style \in {"whole", "split"}
      BY <1>9, <1>17, <2>2
    <3>2. CASE key = 1
      BY <1>7, <1>8, <3>2 DEF full
    <3>3. CASE \E j \in DOMAIN t.tools : t.tools[j].key = 1
      BY <1>7, <1>8, <3>3
    <3>4. QED
      BY <1>1, <3>1, <3>2, <3>3
  <2>3. QED
    BY <1>10, <2>1, <2>2
<1>18. /\ \A k \in 1 .. n : (Leads(more, k) <=> Leads(calls, k)) /\ Held(more, k) = Held(calls, k)
       /\ Held(more, n + 1) = {<<call.id, 1>>}
       /\ Leads(more, n + 1) <=> \A j \in 1 .. n : Index(calls[j]) # Index(call)
  BY HeldMore DEF more
<1>19. ASSUME NEW k \in 1 .. n + 1
       PROVE  Covers(tools[k].args, more, k)
  <2>1. CASE k \in 1 .. n
    <3>1. Covers(t.tools[k].args, calls, k)
      BY <1>7, <2>1 DEF Buffered
    <3>2. QED
      BY <1>8, <1>9, <1>18, <2>1, <3>1 DEF Covers
  <2>2. CASE k = n + 1
    <3> DEFINE p == Piece(call, 1)
    <3>1. tools[k].args = <<p>>
      <4>1. full.args = <<p>>
        BY <1>3 DEF full
      <4> HIDE DEF p
      <4>2. QED
        BY <1>8, <2>2, <4>1
    <3>2. p.call = call.id /\ p.n = 1
      BY DEF Piece
    <3> HIDE DEF p
    <3>3. ToSet(<<p>>) = {p}
      BY DEF ToSet
    <3>4. {<<piece.call, piece.n>> : piece \in {p}} = {<<call.id, 1>>}
      BY <3>2
    <3>5. Held(more, k) = {<<call.id, 1>>} /\ more[k].id = call.id
      BY <1>9, <1>18, <2>2
    <3>6. /\ <<p>> # <<>> /\ <<p>>[1] = p
          /\ \A a, b \in DOMAIN <<p>> : <<p>>[a] = <<p>>[b] => a = b
      OBVIOUS
    <3>7. Covers(<<p>>, more, k)
      BY <3>2, <3>3, <3>4, <3>5, <3>6 DEF Covers
    <3>8. QED
      BY <3>1, <3>7
  <2>3. QED
    BY <1>10, <2>1, <2>2
<1>20. ASSUME NEW k \in 1 .. n + 1
       PROVE  tools[k].key = Index(more[k]) <=> Leads(more, k)
  <2>1. CASE k \in 1 .. n
    <3>1. t.tools[k].key = Index(calls[k]) <=> Leads(calls, k)
      BY <1>7, <2>1 DEF Buffered
    <3>2. QED
      BY <1>8, <1>9, <1>18, <2>1, <3>1
  <2>2. CASE k = n + 1
    <3>1. tools[k].key = key /\ more[k] = call
      BY <1>8, <1>9, <2>2 DEF full
    <3>2. QED
      BY <1>1, <1>18, <2>2, <3>1
  <2>3. QED
    BY <1>10, <2>1, <2>2
<1>21. [tools |-> tools, minKey |-> minKey] \in Boxes
  <2> HIDE DEF minKey
  <2>1. QED
    BY <1>8, <1>11 DEF Boxes
<1>22. Buffered([tools |-> tools, minKey |-> minKey], more)
  <2> HIDE DEF minKey
  <2>1. QED
    BY <1>8, <1>9, <1>12, <1>13, <1>14, <1>15, <1>16, <1>17, <1>19, <1>20, ZenonT(60) DEF Buffered
<1>23. QED
  BY <1>4, <1>21, <1>22 DEF more

\* The record of a call of which another fragment is sent.
Continued(calls, i) == [calls EXCEPT ![i].at = 2, ![i].named = TRUE]

Called(call, x) == [call EXCEPT !.named = x]

LEMMA NamedIs ==
    ASSUME NEW a, NEW b, NEW c, NEW d, NEW e, NEW f, NEW g, NEW h
    PROVE  Called([id |-> a, style |-> b, size |-> c, name |-> d, shaped |-> e,
                   at |-> f, named |-> g], h)
             = [id |-> a, style |-> b, size |-> c, name |-> d, shaped |-> e, at |-> f,
                named |-> h]
BY DEF Called

LEMMA ContinuedIs ==
    ASSUME NEW calls \in Seq(SentCalls), NEW i \in DOMAIN calls
    PROVE  /\ Continued(calls, i) \in Seq(SentCalls)
           /\ Len(Continued(calls, i)) = Len(calls)
           /\ Continued(calls, i)[i] =
                [id |-> calls[i].id, style |-> calls[i].style, size |-> calls[i].size,
                 name |-> calls[i].name, shaped |-> calls[i].shaped, at |-> 2,
                 named |-> TRUE]
           /\ \A k \in DOMAIN calls : k # i => Continued(calls, i)[k] = calls[k]
<1> DEFINE c == calls[i]
           on == [id |-> c.id, style |-> c.style, size |-> c.size,
                  name |-> c.name, shaped |-> c.shaped, at |-> 2, named |-> TRUE]
<1>1. c \in SentCalls
  OBVIOUS
<1>2. on \in SentCalls
  BY <1>1 DEF SentCalls
<1>3. [[c EXCEPT !.at = 2] EXCEPT !.named = TRUE] = on
  <2>1. c = [id |-> c.id, style |-> c.style, size |-> c.size,
             name |-> c.name, shaped |-> c.shaped, at |-> c.at, named |-> c.named]
    BY <1>1 DEF SentCalls
  <2> DEFINE d == [id |-> c.id, style |-> c.style, size |-> c.size,
                   name |-> c.name, shaped |-> c.shaped, at |-> 2, named |-> c.named]
  <2> HIDE DEF c
  <2>2. [c EXCEPT !.at = 2] = d
    BY <2>1
  <2>3. [d EXCEPT !.named = TRUE] = on
    <3>1. \A x : Called(d, x) = [id |-> c.id, style |-> c.style, size |-> c.size,
                                 name |-> c.name, shaped |-> c.shaped, at |-> 2,
                                 named |-> x]
      BY NamedIs
    <3>2. Called(d, TRUE) = on
      BY <3>1
    <3> HIDE DEF d, on
    <3>3. QED
      BY <3>2 DEF Called
  <2> HIDE DEF d, on
  <2>4. QED
    BY <2>2, <2>3
<1>4. Continued(calls, i) = [calls EXCEPT ![i] = on]
  <2>1. Continued(calls, i)
          = [[calls EXCEPT ![i].at = 2] EXCEPT ![i].named = TRUE]
    BY DEF Continued
  <2> DEFINE mid == [calls EXCEPT ![i] = [c EXCEPT !.at = 2]]
  <2>2. [calls EXCEPT ![i].at = 2] = mid
    OBVIOUS
  <2>3. mid[i] = [c EXCEPT !.at = 2] /\ DOMAIN mid = DOMAIN calls
        /\ \A k \in DOMAIN calls : k # i => mid[k] = calls[k]
    OBVIOUS
  <2> HIDE DEF mid, on, c
  <2>4. [mid EXCEPT ![i].named = TRUE] = [mid EXCEPT ![i] = on]
    BY <1>3, <2>3
  <2>5. [mid EXCEPT ![i] = on] = [calls EXCEPT ![i] = on]
    BY <2>3
  <2>6. QED
    BY <2>1, <2>2, <2>4, <2>5
<1> HIDE DEF on
<1>5. QED
  BY <1>2, <1>4, ExceptSeq DEF on

\* May the upstream add call to calls of sample s?
Adds(calls, call, s) ==
    /\ call.at = 1 /\ call.id = <<s, Len(calls) + 1>>
    /\ call.style \in {"whole", "split"} =>
          calls # <<>> /\ call.named /\ call.name # NoName
    /\ call.style = "whole" => call.size = 1
    /\ call.style = "legacy" => \A j \in DOMAIN calls : calls[j].style # "legacy"

LEMMA OrderedMore ==
    ASSUME NEW s \in Samples, NEW calls \in Seq(SentCalls), NEW call \in SentCalls,
           Ordered(calls, s), Adds(calls, call, s)
    PROVE  Append(calls, call) \in Seq(SentCalls) /\ Ordered(Append(calls, call), s)
<1> DEFINE n == Len(calls)
           more == Append(calls, call)
<1>1. /\ more \in Seq(SentCalls) /\ Len(more) = n + 1 /\ n \in Nat
      /\ \A k \in 1 .. n : more[k] = calls[k]
      /\ more[n + 1] = call
  BY AppendProperties
<1>2. DOMAIN more = 1 .. n + 1 /\ DOMAIN calls = 1 .. n
  BY <1>1
<1> HIDE DEF more
<1>3. \A k \in 1 .. n + 1 : k \in 1 .. n \/ k = n + 1
  BY <1>1
<1>4. /\ call.at = 1 /\ call.size \in {1, 2} /\ call.id = <<s, n + 1>>
      /\ call.style = "whole" => call.size = 1
      /\ call.style \in {"whole", "split"} => n > 0
      /\ call.style = "legacy" => \A j \in 1 .. n : calls[j].style # "legacy"
  BY <1>1, <1>2 DEF Adds, SentCalls
<1>5. ASSUME NEW i \in 1 .. n + 1
      PROVE  /\ more[i].id = <<s, i>>
             /\ more[i].at <= more[i].size
             /\ more[i].style = "whole" => more[i].size = 1
             /\ more[i].style \in {"whole", "split"} => i > 1
             /\ \A j \in 1 .. n + 1 :
                   more[i].style = "legacy" /\ more[j].style = "legacy" => i = j
  <2>1. CASE i \in 1 .. n
    <3>1. \A j \in 1 .. n + 1 :
            more[i].style = "legacy" /\ more[j].style = "legacy" => i = j
      BY <1>1, <1>2, <1>3, <1>4, <2>1 DEF Ordered
    <3>2. QED
      BY <1>1, <1>2, <2>1, <3>1 DEF Ordered
  <2>2. CASE i = n + 1
    <3>1. call.style \in {"whole", "split"} => n + 1 > 1
      BY <1>1, <1>4
    <3>2. \A j \in 1 .. n + 1 :
            more[i].style = "legacy" /\ more[j].style = "legacy" => i = j
      BY <1>1, <1>3, <1>4, <2>2
    <3>3. QED
      BY <1>1, <1>4, <2>2, <3>1, <3>2
  <2>3. QED
    BY <1>3, <2>1, <2>2
<1>6. Ordered(more, s)
  BY <1>2, <1>5 DEF Ordered
<1>7. QED
  BY <1>1, <1>6 DEF more

LEMMA OrderedOn ==
    ASSUME NEW s \in Samples, NEW calls \in Seq(SentCalls), NEW i \in DOMAIN calls,
           Ordered(calls, s), calls[i].at < calls[i].size
    PROVE  Ordered(Continued(calls, i), s)
<1> DEFINE next == Continued(calls, i)
<1>1. /\ DOMAIN next = DOMAIN calls
      /\ next[i].id = calls[i].id /\ next[i].style = calls[i].style
      /\ next[i].size = calls[i].size /\ next[i].at = 2
      /\ \A k \in DOMAIN calls : k # i => next[k] = calls[k]
  <2> DEFINE call == calls[i]
  <2>1. next[i] = [id |-> call.id, style |-> call.style, size |-> call.size,
                   name |-> call.name, shaped |-> call.shaped, at |-> 2,
                   named |-> TRUE]
    BY ContinuedIs
  <2>2. /\ next \in Seq(SentCalls) /\ Len(next) = Len(calls)
        /\ \A k \in DOMAIN calls : k # i => next[k] = calls[k]
    BY ContinuedIs
  <2> HIDE DEF next, call
  <2>3. /\ next[i].id = call.id /\ next[i].style = call.style
        /\ next[i].size = call.size /\ next[i].at = 2
    BY <2>1
  <2>4. QED
    BY <2>2, <2>3 DEF call
<1>2. calls[i].size = 2
  <2>1. calls[i] \in SentCalls
    OBVIOUS
  <2>2. calls[i].at \in {1, 2} /\ calls[i].size \in {1, 2}
    BY <2>1 DEF SentCalls
  <2>3. QED
    BY <2>2
<1> HIDE DEF next
<1>3. \A k \in DOMAIN calls : /\ next[k].id = calls[k].id
                              /\ next[k].style = calls[k].style
                              /\ next[k].size = calls[k].size
                              /\ next[k].at <= next[k].size
  BY <1>1, <1>2 DEF Ordered
<1>4. QED
  BY <1>1, <1>3 DEF Ordered, next

\* The slot a second fragment of call i goes to.
LEMMA OldKey ==
    ASSUME NEW s \in Samples, NEW t \in Boxes, NEW calls \in Seq(SentCalls),
           NEW i \in DOMAIN calls, calls[i].at < calls[i].size,
           Ordered(calls, s), Buffered(t, calls)
    PROVE  /\ Index(calls[i]) >= -1
           /\ \E j \in DOMAIN t.tools : t.tools[j].key = Index(calls[i])
<1>1. /\ DOMAIN t.tools = 1 .. Len(calls) /\ DOMAIN calls = 1 .. Len(calls)
  BY DEF Boxes, Buffered
<1>2. calls[i] \in SentCalls
  OBVIOUS
<1>3. /\ calls[i].style \in {"own", "legacy", "whole", "split"}
      /\ calls[i].size = 2
  <2>1. calls[i].at \in {1, 2} /\ calls[i].size \in {1, 2} /\ calls[i].style \in Indexing
    BY <1>2 DEF SentCalls
  <2>2. calls[i].style \in {"own", "legacy", "whole", "split"}
    BY <2>1, ChatAssumption
  <2>3. \A a, b \in {1, 2} : a < b => b = 2
    OBVIOUS
  <2>4. QED
    BY <2>1, <2>2, <2>3
<1>4. calls[i].style # "whole" /\ calls[i].id = <<s, i>>
  BY <1>3 DEF Ordered
<1>5. Holds(t.tools[i], calls[i], i)
  BY <1>1 DEF Buffered
<1>6. /\ calls[i].style = "own" => Index(calls[i]) = i
      /\ calls[i].style = "legacy" => Index(calls[i]) = -1
      /\ calls[i].style = "split" => Index(calls[i]) = 1
  <2> DEFINE call == calls[i]
  <2>1. call \in SentCalls /\ call.id = <<s, i>>
    BY <1>2, <1>4
  <2> HIDE DEF call
  <2>2. /\ call.style = "own" => Index(call) = i
        /\ call.style = "legacy" => Index(call) = -1
        /\ call.style \in {"whole", "split"} => Index(call) = 1
    BY <2>1, IndexIs
  <2>3. QED
    BY <2>2 DEF call
<1>7. CASE calls[i].style = "own"
  BY <1>1, <1>5, <1>6, <1>7 DEF Holds
<1>8. CASE calls[i].style = "legacy"
  BY <1>1, <1>5, <1>6, <1>8 DEF Holds
<1>9. CASE calls[i].style = "split"
  BY <1>1, <1>6, <1>9 DEF Buffered
<1>10. QED
  BY <1>3, <1>4, <1>7, <1>8, <1>9

\* The record of a call of which another fragment is sent: its second piece
\* is held by the first call of its index.
LEMMA HeldContinued ==
    ASSUME NEW s, NEW calls \in Seq(SentCalls), Ordered(calls, s),
           NEW i \in DOMAIN calls, calls[i].at = 1,
           NEW next, next = Continued(calls, i), NEW k \in DOMAIN calls
    PROVE  /\ next[k].id = calls[k].id /\ Index(next[k]) = Index(calls[k])
           /\ Leads(next, k) <=> Leads(calls, k)
           /\ <<calls[i].id, 2>> \notin Held(calls, k)
           /\ Leads(calls, k) /\ Index(calls[k]) = Index(calls[i]) =>
                 Held(next, k) = Held(calls, k) \cup {<<calls[i].id, 2>>}
           /\ ~(Leads(calls, k) /\ Index(calls[k]) = Index(calls[i])) =>
                 Held(next, k) = Held(calls, k)
<1>1. /\ DOMAIN calls = 1 .. Len(calls) /\ Len(calls) \in Nat
      /\ Len(next) = Len(calls) /\ next \in Seq(SentCalls)
  <2>1. Continued(calls, i) \in Seq(SentCalls) /\ Len(Continued(calls, i)) = Len(calls)
    BY ContinuedIs
  <2>2. QED
    BY <2>1
<1>2. DOMAIN next = DOMAIN calls
  BY <1>1
<1>3. \A l \in DOMAIN calls :
        /\ next[l].id = calls[l].id /\ next[l].style = calls[l].style
        /\ next[l].at = IF l = i THEN 2 ELSE calls[l].at
  <2>1. /\ next[i] = [id |-> calls[i].id, style |-> calls[i].style, size |-> calls[i].size,
                      name |-> calls[i].name, shaped |-> calls[i].shaped, at |-> 2,
                      named |-> TRUE]
        /\ \A l \in DOMAIN calls : l # i => next[l] = calls[l]
    BY ContinuedIs
  <2>2. next[i].id = calls[i].id /\ next[i].style = calls[i].style /\ next[i].at = 2
    BY <2>1
  <2>3. QED
    BY <2>1, <2>2
<1>4. \A l \in DOMAIN calls : Index(next[l]) = Index(calls[l])
  BY <1>3 DEF Index
<1>5. Leads(next, k) <=> Leads(calls, k)
  <2>1. 1 .. k - 1 \subseteq DOMAIN calls
    BY <1>1
  <2>2. QED
    BY <1>4, <2>1 DEF Leads
<1>6. <<calls[i].id, 2>> \notin Held(calls, k)
  <2>1. \A l \in DOMAIN calls : calls[l].id = <<s, l>>
    BY DEF Ordered
  <2>2. \A l \in DOMAIN calls : <<calls[l].id, 2>> = <<calls[i].id, 2>> => l = i
    BY <2>1
  <2>3. <<calls[k].id, 1>> # <<calls[i].id, 2>>
    OBVIOUS
  <2>4. QED
    BY <2>2, <2>3 DEF Held
<1> DEFINE Late(c) == {l \in DOMAIN calls : c[l].at = 2 /\ Leads(calls, k)
                                             /\ Index(calls[l]) = Index(calls[k])}
           Seconds(K) == {<<calls[l].id, 2>> : l \in K}
<1>7. Held(calls, k) = {<<calls[k].id, 1>>} \cup Seconds(Late(calls))
  BY DEF Held
<1>8. Held(next, k) = {<<calls[k].id, 1>>} \cup Seconds(Late(next))
  <2>1. {l \in DOMAIN next : next[l].at = 2 /\ Leads(next, k)
                              /\ Index(next[l]) = Index(next[k])} = Late(next)
    BY <1>2, <1>4, <1>5
  <2>2. {<<next[l].id, 2>> : l \in Late(next)} = Seconds(Late(next))
    BY <1>3
  <2>3. QED
    BY <1>3, <2>1, <2>2 DEF Held
<1>9. CASE Leads(calls, k) /\ Index(calls[k]) = Index(calls[i])
  <2>1. Late(next) = Late(calls) \cup {i}
    BY <1>3, <1>9
  <2>2. \A K : Seconds(K \cup {i}) = Seconds(K) \cup {<<calls[i].id, 2>>}
    OBVIOUS
  <2>3. Seconds(Late(next)) = Seconds(Late(calls)) \cup {<<calls[i].id, 2>>}
    <3> HIDE DEF Seconds, Late
    <3>1. QED
      BY <2>1, <2>2
  <2> HIDE DEF Seconds, Late
  <2>4. QED
    BY <1>3, <1>4, <1>5, <1>6, <1>7, <1>8, <1>9, <2>3
<1>10. CASE ~(Leads(calls, k) /\ Index(calls[k]) = Index(calls[i]))
  <2>1. Late(next) = Late(calls)
    BY <1>3, <1>10
  <2> HIDE DEF Seconds, Late
  <2>2. QED
    BY <1>3, <1>4, <1>5, <1>6, <1>7, <1>8, <1>10, <2>1
<1>11. QED
  BY <1>9, <1>10

\* A second fragment of a call: it is added to what is buffered of the first
\* call of its index.
LEMMA BufferSecond ==
    ASSUME NEW s \in Samples, NEW t \in Boxes, NEW calls \in Seq(SentCalls),
           NEW i \in DOMAIN calls, calls[i].at < calls[i].size,
           Ordered(calls, s), Buffered(t, calls),
           NEW f, f = Fragment(calls[i], 2, FALSE, ~calls[i].named)
    PROVE  /\ bufferTool(t, f) \in Boxes
           /\ Buffered(bufferTool(t, f), Continued(calls, i))
<1> DEFINE next == Continued(calls, i)
           call == calls[i]
<1>1. f.index = Index(calls[i])
  BY DEF Fragment
<1>2. /\ Index(calls[i]) >= -1
       /\ \E j \in DOMAIN t.tools : t.tools[j].key = Index(calls[i])
  BY OldKey, ZenonT(60)
<1>3. PICK j \in DOMAIN t.tools : t.tools[j].key = f.index
  BY <1>1, <1>2
<1>4. call \in SentCalls
  OBVIOUS
<1>5. call.at = 1 /\ call.size = 2 /\ call.style \in Indexing
  <2>1. call.at \in {1, 2} /\ call.size \in {1, 2} /\ call.style \in Indexing
    BY <1>4 DEF SentCalls
  <2>2. QED
    BY <2>1
<1>6. f \in Fragments /\ f.id = NoId /\ f.piece = Piece(call, 2)
  <2>1. f \in Fragments
    BY <1>4, FragmentType
  <2>2. f.id = NoId /\ f.piece = Piece(call, 2)
    BY DEF Fragment, Piece
  <2>3. QED
    BY <2>1, <2>2
<1>7. /\ t.tools \in Seq(Buffers) /\ t.minKey \in Int
      /\ DOMAIN t.tools = 1 .. Len(calls) /\ Len(calls) \in Nat
      /\ Len(t.tools) = Len(calls) /\ DOMAIN calls = 1 .. Len(calls)
  BY DEF Boxes, Buffered
<1> DEFINE st == t.tools[j]
           name == IF st.name = NoName THEN f.name ELSE st.name
           args == Append(st.args, f.piece)
           full == [key |-> f.index, id |-> st.id, name |-> name, args |-> args]
           tools == [t.tools EXCEPT ![j] = full]
<1>8. bufferTool(t, f) = [tools |-> tools, minKey |-> t.minKey]
  <2>1. \A k \in DOMAIN t.tools : t.tools[k].key = f.index => k = j
    BY <1>3 DEF Buffered
  <2>2. t.minKey <= f.index
    BY <1>3 DEF Buffered
  <2>3. QED
    BY <1>3, <1>6, <2>1, <2>2, BufferOld
<1>9. st \in Buffers /\ f.index \in Int /\ f.name \in SaidNames /\ f.piece \in Pieces
  <2>1. st \in Buffers
    BY <1>3, <1>7
  <2>2. f.index \in Int /\ f.name \in SaidNames /\ f.piece \in Pieces
    BY <1>6 DEF Fragments
  <2>3. QED
    BY <2>1, <2>2
<1>10. full \in Buffers
  <2>1. st.id \in Ids /\ st.name \in SaidNames /\ st.args \in Seq(Pieces)
    BY <1>9 DEF Buffers
  <2>2. args \in Seq(Pieces)
    BY <1>9, <2>1, AppendProperties
  <2>3. name \in SaidNames
    BY <1>9, <2>1
  <2> HIDE DEF args, name, st
  <2>4. QED
    BY <1>9, <2>1, <2>2, <2>3 DEF Buffers
<1>11. full.key = f.index /\ full.id = st.id /\ full.args = args
  <2> HIDE DEF args, name, st
  <2>1. QED
    OBVIOUS
<1> HIDE DEF full
<1>12. /\ tools \in Seq(Buffers) /\ Len(tools) = Len(calls)
      /\ DOMAIN tools = 1 .. Len(calls)
      /\ tools[j] = full
      /\ \A k \in 1 .. Len(calls) : k # j => tools[k] = t.tools[k]
  <2>1. /\ tools \in Seq(Buffers) /\ Len(tools) = Len(t.tools)
        /\ \A k \in 1 .. Len(t.tools) : tools[k] = IF k = j THEN full ELSE t.tools[k]
    BY <1>3, <1>7, <1>10, ExceptSeq
  <2> HIDE DEF tools
  <2>2. QED
    BY <1>3, <1>7, <2>1
<1> HIDE DEF tools
<1>13. /\ Len(next) = Len(calls)
       /\ next[i].id = call.id /\ next[i].style = call.style
       /\ next[i].size = call.size /\ next[i].shaped = call.shaped /\ next[i].at = 2
       /\ \A k \in DOMAIN calls : k # i => next[k] = calls[k]
  <2>1. next[i] = [id |-> call.id, style |-> call.style, size |-> call.size,
                   name |-> call.name, shaped |-> call.shaped, at |-> 2,
                   named |-> TRUE]
    BY ContinuedIs
  <2>2. Len(next) = Len(calls) /\ \A k \in DOMAIN calls : k # i => next[k] = calls[k]
    BY ContinuedIs
  <2> HIDE DEF next, call
  <2>3. /\ next[i].id = call.id /\ next[i].style = call.style
        /\ next[i].size = call.size /\ next[i].shaped = call.shaped /\ next[i].at = 2
    BY <2>1
  <2>4. QED
    BY <2>2, <2>3
<1> HIDE DEF next
<1>14. \A k \in 1 .. Len(calls) : /\ next[k].id = calls[k].id
                                  /\ next[k].style = calls[k].style
  BY <1>7, <1>13
<1>15. \A k \in 1 .. Len(calls) : /\ tools[k].key = t.tools[k].key
                                  /\ tools[k].id = t.tools[k].id
  BY <1>3, <1>12, <1>11
<1>16. \A k \in 1 .. Len(calls) : /\ tools[k].args # <<>>
                                  /\ tools[k].args[1].call = calls[k].id
  <2>1. TAKE k \in 1 .. Len(calls)
  <2>2. t.tools[k].args # <<>> /\ t.tools[k].args[1].call = calls[k].id
    BY <1>7 DEF Buffered, Holds
  <2>3. CASE k # j
    BY <1>12, <2>2, <2>3
  <2>4. CASE k = j
    <3>1. st.args \in Seq(Pieces) /\ st.args # <<>>
      BY <1>9, <2>2, <2>4 DEF Buffers
    <3>2. args # <<>> /\ args[1] = st.args[1]
      <4>1. \A a \in Seq(Pieces), p \in Pieces :
              a # <<>> => Append(a, p) # <<>> /\ Append(a, p)[1] = a[1]
        OBVIOUS
      <4> HIDE DEF st
      <4>2. QED
        BY <1>9, <3>1, <4>1
    <3>3. tools[k].args = args
      <4> HIDE DEF args
      <4>1. QED
        BY <1>12, <1>11, <2>4
    <3>4. QED
      BY <2>2, <2>4, <3>2, <3>3
  <2>5. QED
    BY <2>3, <2>4
<1>17. /\ \A k \in 1 .. Len(calls) : t.tools[k].key = Index(calls[k]) <=> Leads(calls, k)
       /\ \A k \in 1 .. Len(calls) : Covers(t.tools[k].args, calls, k)
       /\ \A k, l \in 1 .. Len(calls) : t.tools[k].key = t.tools[l].key => k = l
  BY <1>7 DEF Buffered
<1>18. Index(calls[j]) = f.index /\ Leads(calls, j) /\ Index(calls[i]) = f.index
  <2>1. f.index = Index(calls[i]) /\ f.index >= -1
    BY <1>1, <1>2
  <2>2. Index(calls[j]) = f.index
    BY <1>3, <2>1, KeyIndex
  <2>3. QED
    BY <1>3, <1>7, <1>17, <2>1, <2>2
<1>19. \A k \in 1 .. Len(calls) :
         Leads(calls, k) /\ Index(calls[k]) = Index(calls[i]) <=> k = j
  BY <1>3, <1>7, <1>17, <1>18
<1>20. \A k \in 1 .. Len(calls) :
         /\ next[k].id = calls[k].id /\ Index(next[k]) = Index(calls[k])
         /\ Leads(next, k) <=> Leads(calls, k)
         /\ <<call.id, 2>> \notin Held(calls, k)
         /\ Held(next, k) = IF k = j THEN Held(calls, k) \cup {<<call.id, 2>>}
                            ELSE Held(calls, k)
  <2>1. TAKE k \in 1 .. Len(calls)
  <2>2. next = Continued(calls, i) /\ calls[i].at = 1 /\ k \in DOMAIN calls
    BY <1>5, <1>7 DEF next
  <2>3. QED
    BY <1>19, <2>2, HeldContinued
<1>21. ASSUME NEW k \in 1 .. Len(calls)
       PROVE  Covers(tools[k].args, next, k)
  <2>1. CASE k # j
    <3>1. tools[k] = t.tools[k] /\ Held(next, k) = Held(calls, k)
      BY <1>12, <1>20, <2>1
    <3>2. QED
      BY <1>17, <1>20, <3>1 DEF Covers
  <2>2. CASE k = j
    <3> DEFINE p == Piece(call, 2)
    <3>1. st.args \in Seq(Pieces) /\ p \in Pieces /\ p.call = call.id /\ p.n = 2
      <4>1. st.args \in Seq(Pieces)
        BY <1>9 DEF Buffers
      <4>2. p \in Pieces
        BY <1>6, <1>9
      <4>3. p.call = call.id /\ p.n = 2
        BY DEF Piece
      <4>4. QED
        BY <4>1, <4>2, <4>3
    <3>2. Covers(st.args, calls, k)
      BY <1>17, <2>2
    <3>3. tools[k].args = Append(st.args, p)
      <4>1. args = Append(st.args, p)
        BY <1>6
      <4> HIDE DEF args, p, st
      <4>2. QED
        BY <1>12, <1>11, <2>2, <4>1
    <3> HIDE DEF p, st
    <3>4. Held(next, k) = Held(calls, k) \cup {<<p.call, p.n>>}
          /\ <<p.call, p.n>> \notin Held(calls, k) /\ next[k].id = calls[k].id
      BY <1>20, <2>2, <3>1
    <3>5. Covers(Append(st.args, p), next, k)
      BY <3>1, <3>2, <3>4, CoversMore
    <3>6. QED
      BY <3>3, <3>5
  <2>3. QED
    BY <2>1, <2>2
<1>22. ASSUME NEW k \in 1 .. Len(calls)
       PROVE  tools[k].key = Index(next[k]) <=> Leads(next, k)
  BY <1>15, <1>17, <1>20
<1>23. ASSUME NEW k \in 1 .. Len(calls)
       PROVE  Holds(tools[k], next[k], k)
  <2>1. Holds(t.tools[k], calls[k], k)
    BY <1>7 DEF Buffered
  <2>2. QED
    BY <1>14, <1>15, <1>16, <2>1 DEF Holds
<1>24. /\ \A k, l \in 1 .. Len(calls) : tools[k].key = tools[l].key => k = l
       /\ \A k \in 1 .. Len(calls) : t.minKey <= tools[k].key
       /\ t.minKey <= -1
       /\ \A k \in 1 .. Len(calls) : next[k].style \in {"whole", "split"} =>
             \E l \in 1 .. Len(calls) : tools[l].key = 1
  <2>1. /\ \A k, l \in 1 .. Len(calls) : t.tools[k].key = t.tools[l].key => k = l
        /\ \A k \in 1 .. Len(calls) : t.minKey <= t.tools[k].key
        /\ t.minKey <= -1
        /\ \A k \in 1 .. Len(calls) : calls[k].style \in {"whole", "split"} =>
              \E l \in 1 .. Len(calls) : t.tools[l].key = 1
    BY <1>7 DEF Buffered
  <2>2. QED
    BY <1>14, <1>15, <2>1
<1>25. tools # <<>>
  BY <1>3, <1>7, <1>12
<1>26. [tools |-> tools, minKey |-> t.minKey] \in Boxes
  BY <1>7, <1>12 DEF Boxes
<1>27. Buffered([tools |-> tools, minKey |-> t.minKey], next)
  BY <1>12, <1>13, <1>21, <1>23, <1>24, <1>25, <1>22 DEF Buffered
<1>28. QED
  BY <1>8, <1>26, <1>27 DEF next

----------------------------------------------------------------------------
(* A chunk is handled.                                                     *)

\* A converter that knows what it has narrated, and no error was told.
Remembers(c) ==
    \A i \in DOMAIN c.wire.blocks :
        /\ c.wire.blocks[i].kind = "text" => c.text
        /\ c.wire.blocks[i].kind = "thinking" => c.reasoning

Live(c) == Ready(c) /\ Remembers(c) /\ ~c.wire.failed

\* What a chunk does to what is buffered.
Fed(t, ch) == IF ch.body = "tool" THEN bufferTool(t, ch.frag) ELSE t

\* What the client sees of a delta: nothing new, or one more block.
Grows(m, n, kind, s) ==
    \/ n = m
    \/ /\ kind \in {"text", "thinking"}
       /\ m.open => m.blocks[Len(m.blocks)].kind # kind
       /\ n = Saying(Append(m.blocks, [kind |-> kind, from |-> s]), TRUE, FALSE)

\* Converter d is what c becomes by handling chunk ch.
Handled(d, c, ch) ==
    /\ Live(d)
    /\ Box(d) = Fed(Box(c), ch)
    /\ d.text <=> c.text \/ ch.body = "text"
    /\ d.reasoning <=> c.reasoning \/ ch.body = "thinking"
    /\ Grows(c.wire, d.wire, ch.body, ch.from)

LEMMA NarratedFields ==
    ASSUME NEW c \in Converters, NEW kind, NEW s
    PROVE  /\ Narrated(c, kind, s).declared = c.declared
           /\ Narrated(c, kind, s).text = c.text
           /\ Narrated(c, kind, s).reasoning = c.reasoning
           /\ Narrated(c, kind, s).tools = c.tools
           /\ Narrated(c, kind, s).minKey = c.minKey
           /\ Narrated(c, kind, s).finish = c.finish
           /\ Narrated(c, kind, s).dropped = c.dropped
           /\ Narrated(c, kind, s).finalized = c.finalized
           /\ Narrated(c, kind, s).stop = c.stop
<1>1. DOMAIN c = {"declared", "cur", "next", "text", "reasoning", "tools", "minKey",
                  "finish", "dropped", "finalized", "stop", "wire"}
  BY DEF Converters
<1>2. CASE c.cur = kind
  BY <1>1, <1>2 DEF Narrated
<1>3. CASE c.cur # kind
  BY <1>1, <1>3 DEF Narrated
<1>4. QED
  BY <1>2, <1>3

LEMMA AppendedTwo ==
    ASSUME NEW x, NEW y
    PROVE  Append(<<x>>, y) = <<x, y>>
<1> DEFINE T == {x, y}
           one == <<x>>
           two == <<x, y>>
<1>1. /\ one \in Seq(T) /\ Len(one) = 1 /\ one[1] = x
      /\ two \in Seq(T) /\ Len(two) = 2 /\ two[1] = x /\ two[2] = y
      /\ x \in T /\ y \in T
  OBVIOUS
<1> HIDE DEF T, one, two
<1>2. /\ Append(one, y) \in Seq(T) /\ Len(Append(one, y)) = 2
      /\ Append(one, y)[1] = x /\ Append(one, y)[2] = y
  <2> DEFINE app == Append(one, y)
  <2>1. /\ app \in Seq(T) /\ Len(app) = Len(one) + 1
        /\ \A i \in 1 .. Len(one) : app[i] = one[i]
        /\ app[Len(one) + 1] = y
    <3>1. \A q \in Seq(T), e \in T :
            /\ Append(q, e) \in Seq(T) /\ Len(Append(q, e)) = Len(q) + 1
            /\ \A i \in 1 .. Len(q) : Append(q, e)[i] = q[i]
            /\ Append(q, e)[Len(q) + 1] = e
      BY AppendProperties
    <3>2. QED
      BY <1>1, <3>1
  <2> HIDE DEF app
  <2>2. app \in Seq(T) /\ Len(app) = 2 /\ app[1] = x /\ app[2] = y
    BY <1>1, <2>1
  <2>3. QED
    BY <2>2 DEF app
<1>3. Append(one, y) = two
  BY <1>1, <1>2, SeqEqual
<1>4. QED
  BY <1>3 DEF one, two

LEMMA AppendedThree ==
    ASSUME NEW x, NEW y, NEW z
    PROVE  Append(<<x, y>>, z) = <<x, y, z>>
<1> DEFINE T == {x, y, z}
           two == <<x, y>>
           three == <<x, y, z>>
<1>1. /\ two \in Seq(T) /\ Len(two) = 2 /\ two[1] = x /\ two[2] = y
      /\ three \in Seq(T) /\ Len(three) = 3
      /\ three[1] = x /\ three[2] = y /\ three[3] = z
      /\ x \in T /\ y \in T /\ z \in T
  OBVIOUS
<1> HIDE DEF T, two, three
<1>2. /\ Append(two, z) \in Seq(T) /\ Len(Append(two, z)) = 3
      /\ Append(two, z)[1] = x /\ Append(two, z)[2] = y /\ Append(two, z)[3] = z
  <2> DEFINE app == Append(two, z)
  <2>1. /\ app \in Seq(T) /\ Len(app) = Len(two) + 1
        /\ \A i \in 1 .. Len(two) : app[i] = two[i]
        /\ app[Len(two) + 1] = z
    <3>1. \A q \in Seq(T), e \in T :
            /\ Append(q, e) \in Seq(T) /\ Len(Append(q, e)) = Len(q) + 1
            /\ \A i \in 1 .. Len(q) : Append(q, e)[i] = q[i]
            /\ Append(q, e)[Len(q) + 1] = e
      BY AppendProperties
    <3>2. QED
      BY <1>1, <3>1
  <2> HIDE DEF app
  <2>2. app \in Seq(T) /\ Len(app) = 3 /\ app[1] = x /\ app[2] = y /\ app[3] = z
    BY <1>1, <2>1
  <2>3. QED
    BY <2>2 DEF app
<1>3. Append(two, z) = three
  BY <1>1, <1>2, SeqEqual
<1>4. QED
  BY <1>3 DEF two, three

LEMMA TwoEvents ==
    ASSUME NEW x, NEW y
    PROVE  Append(<<>> \o <<x>>, y) = <<x, y>>
<1>1. <<x>> \in Seq({x})
  OBVIOUS
<1>2. <<>> \o <<x>> = <<x>>
  BY <1>1, ConcatEmptySeq
<1>3. Append(<<x>>, y) = <<x, y>>
  BY AppendedTwo
<1>4. QED
  BY <1>2, <1>3

LEMMA ThreeEvents ==
    ASSUME NEW x, NEW y, NEW z
    PROVE  Append(<<z>> \o <<x>>, y) = <<z, x, y>>
<1>1. <<z>> \in Seq({x, z}) /\ x \in {x, z}
  OBVIOUS
<1>2. <<z>> \o <<x>> = Append(<<z>>, x)
  BY <1>1, AppendIsConcat
<1>3. Append(Append(<<z>>, x), y) = <<z, x, y>>
  <2>1. Append(<<z>>, x) = <<z, x>>
    BY AppendedTwo
  <2>2. Append(<<z, x>>, y) = <<z, x, y>>
    BY AppendedThree
  <2>3. QED
    BY <2>1, <2>2
<1>4. QED
  BY <1>2, <1>3

\* The block a delta goes to, and the message that has it.
LEMMA NarratedWire ==
    ASSUME NEW c, Ready(c), NEW kind \in {"text", "thinking"}, NEW s \in Samples
    PROVE  /\ Narrated(c, kind, s).cur = kind
           /\ \/ /\ c.cur = kind
                 /\ Narrated(c, kind, s).next = c.next
                 /\ Narrated(c, kind, s).wire = c.wire
              \/ /\ c.cur # kind
                 /\ Narrated(c, kind, s).next = c.next + 1
                 /\ Narrated(c, kind, s).wire =
                      Saying(Append(c.wire.blocks, [kind |-> kind, from |-> s]), TRUE,
                             c.wire.failed)
<1> DEFINE bs == c.wire.blocks
           failed == c.wire.failed
           b == [kind |-> kind, from |-> s]
<1>1. /\ c.wire = Saying(bs, c.cur # "none", failed)
      /\ bs \in Seq(Narration) /\ c.next \in Nat /\ c.next = Len(bs)
  BY ReadyWire
<1>2. DOMAIN c = {"declared", "cur", "next", "text", "reasoning", "tools", "minKey",
                  "finish", "dropped", "finalized", "stop", "wire"}
      /\ c.cur \in {"none", "text", "thinking"}
  BY DEF Ready, Converters
<1>3. CASE c.cur = kind
  <2>1. c.next > 0 /\ bs[Len(bs)].kind = kind
    BY <1>1, <1>3 DEF Ready, InStep
  <2>2. c.wire = Saying(bs, TRUE, failed)
    BY <1>1, <1>3
  <2>3. Receive(c.wire, Delta(c.next - 1, <<>>)) = c.wire
    <3> DEFINE i == c.next - 1
    <3>1. i = Len(bs) - 1 /\ bs[Len(bs)].kind # "tool_use"
      BY <1>1, <2>1
    <3> HIDE DEF i, bs, failed
    <3>2. Receive(Saying(bs, TRUE, failed), Delta(i, <<>>)) = Saying(bs, TRUE, failed)
      BY <3>1, ReceiveText
    <3>3. QED
      BY <2>2, <3>2 DEF i
  <2>4. Narrated(c, kind, s) = [c EXCEPT !.wire = Receive(c.wire, Delta(c.next - 1, <<>>))]
    BY <1>3 DEF Narrated
  <2>5. QED
    BY <1>2, <1>3, <2>3, <2>4
<1>4. CASE c.cur # kind
  <2> DEFINE events == Append(Block(c, kind, s), Delta(c.next, <<>>))
             more == Append(bs, b)
  <2>1. /\ Narrated(c, kind, s).cur = kind
        /\ Narrated(c, kind, s).next = c.next + 1
        /\ Narrated(c, kind, s).wire = Received(c.wire, events)
    BY <1>2, <1>4 DEF Narrated
  <2>2. Receive(Saying(bs, FALSE, failed), Opened(c.next, b)) = Saying(more, TRUE, failed)
    <3> DEFINE i == c.next
    <3>1. i = Len(bs)
      BY <1>1
    <3> HIDE DEF i, bs, failed, b
    <3>2. Receive(Saying(bs, FALSE, failed), Opened(i, b)) = Saying(Append(bs, b), TRUE, failed)
      BY <3>1, ReceiveOpened
    <3>3. QED
      BY <3>2 DEF i
  <2>3. Receive(Saying(more, TRUE, failed), Delta(c.next, <<>>)) = Saying(more, TRUE, failed)
    <3>1. Len(more) = Len(bs) + 1 /\ more[Len(more)] = b
      BY <1>1
    <3>2. c.next = Len(more) - 1 /\ more[Len(more)].kind # "tool_use"
      BY <1>1, <3>1
    <3> HIDE DEF more
    <3>3. QED
      BY <3>2, ReceiveText
  <2>4. Received(c.wire, events) = Saying(more, TRUE, failed)
    <3> DEFINE open == Opened(c.next, b)
               delta == Delta(c.next, <<>>)
    <3>1. CASE c.cur = "none"
      <4>1. c.wire = Saying(bs, FALSE, failed)
        BY <1>1, <3>1
      <4>2. events = <<open, delta>>
        <5>1. events = Append(<<>> \o <<open>>, delta)
          BY <3>1 DEF Block, closeCurrent
        <5> HIDE DEF events, open, delta
        <5>2. QED
          BY <5>1, TwoEvents
      <4> HIDE DEF events, open, delta
      <4>3. Received(c.wire, events) = Receive(Receive(c.wire, open), delta)
        BY <4>2, ReceivedTwo
      <4>4. QED
        BY <2>2, <2>3, <4>1, <4>3 DEF open, delta
    <3>2. CASE c.cur # "none"
      <4> DEFINE close == Closed(c.next - 1)
      <4>1. c.wire = Saying(bs, TRUE, failed)
        BY <1>1, <3>2
      <4>2. events = <<close, open, delta>>
        <5>1. events = Append(<<close>> \o <<open>>, delta)
          BY <3>2 DEF Block, closeCurrent
        <5> HIDE DEF events, open, delta, close
        <5>2. QED
          BY <5>1, ThreeEvents
      <4>3. Receive(c.wire, close) = Saying(bs, FALSE, failed)
        <5> DEFINE i == c.next - 1
        <5>1. i = Len(bs) - 1
          BY <1>1
        <5> HIDE DEF i, bs, failed
        <5>2. Receive(Saying(bs, TRUE, failed), Closed(i)) = Saying(bs, FALSE, failed)
          BY <5>1, ReceiveClosed
        <5>3. QED
          BY <4>1, <5>2 DEF i
      <4> HIDE DEF events, open, delta, close
      <4>4. Received(c.wire, events) = Receive(Receive(Receive(c.wire, close), open), delta)
        BY <4>2, ReceivedThree
      <4>5. QED
        BY <2>2, <2>3, <4>3, <4>4 DEF open, delta
    <3>3. QED
      BY <3>1, <3>2
  <2>5. QED
    BY <1>4, <2>1, <2>4
<1>5. QED
  BY <1>3, <1>4

\* Converter d has said kind, once more, for sample s, and is otherwise c.
Says(d, c, kind, s) ==
    /\ d \in Converters /\ InStep(d)
    /\ Box(d) = Box(c) /\ d.wire.failed = c.wire.failed
    /\ \/ d.wire = c.wire /\ c.cur = kind
       \/ /\ c.cur # kind
          /\ d.wire = Saying(Append(c.wire.blocks, [kind |-> kind, from |-> s]), TRUE,
                             c.wire.failed)

LEMMA NarratedSays ==
    ASSUME NEW c, Ready(c), NEW kind \in {"text", "thinking"}, NEW s \in Samples
    PROVE  Says(Narrated(c, kind, s), c, kind, s)
<1> DEFINE d == Narrated(c, kind, s)
           bs == c.wire.blocks
           b == [kind |-> kind, from |-> s]
           more == Append(bs, b)
           failed == c.wire.failed
<1>1. c \in Converters /\ InStep(c)
  BY DEF Ready
<1>2. /\ c.wire = Saying(bs, c.cur # "none", failed)
      /\ bs \in Seq(Narration) /\ c.next \in Nat /\ c.next = Len(bs)
      /\ failed \in BOOLEAN
  BY ReadyWire
<1>3. /\ more \in Seq(Narration) /\ Len(more) = c.next + 1 /\ more[c.next + 1] = b
  <2>1. b \in Narration
    BY DEF Narration
  <2> HIDE DEF b, bs
  <2>2. QED
    BY <1>2, <2>1, AppendProperties
<1>4. /\ d.declared = c.declared /\ d.text = c.text /\ d.reasoning = c.reasoning
      /\ d.tools = c.tools /\ d.minKey = c.minKey /\ d.finish = c.finish
      /\ d.dropped = c.dropped /\ d.finalized = c.finalized /\ d.stop = c.stop
  BY <1>1, NarratedFields
<1>5. /\ d.cur = kind
      /\ \/ c.cur = kind /\ d.next = c.next /\ d.wire = c.wire
         \/ c.cur # kind /\ d.next = c.next + 1 /\ d.wire = Saying(more, TRUE, failed)
  BY NarratedWire
<1>6. d = [declared |-> d.declared, cur |-> d.cur, next |-> d.next, text |-> d.text,
           reasoning |-> d.reasoning, tools |-> d.tools, minKey |-> d.minKey,
           finish |-> d.finish, dropped |-> d.dropped, finalized |-> d.finalized,
           stop |-> d.stop, wire |-> d.wire]
  <2>1. c = [declared |-> c.declared, cur |-> c.cur, next |-> c.next, text |-> c.text,
             reasoning |-> c.reasoning, tools |-> c.tools, minKey |-> c.minKey,
             finish |-> c.finish, dropped |-> c.dropped, finalized |-> c.finalized,
             stop |-> c.stop, wire |-> c.wire]
    BY <1>1 DEF Converters
  <2>2. CASE c.cur = kind
    <3> DEFINE z == Receive(c.wire, Delta(c.next - 1, <<>>))
    <3>1. d = [c EXCEPT !.wire = z]
      BY <2>2 DEF Narrated
    <3> HIDE DEF d, z
    <3>2. QED
      BY <2>1, <3>1
  <2>3. CASE c.cur # kind
    <3> DEFINE z == Received(c.wire, Append(Block(c, kind, s), Delta(c.next, <<>>)))
    <3>1. d = [c EXCEPT !.cur = kind, !.next = c.next + 1, !.wire = z]
      BY <2>3 DEF Narrated
    <3> HIDE DEF d, z
    <3>2. QED
      BY <2>1, <3>1
  <2>4. QED
    BY <2>2, <2>3
<1>7. d.wire \in Tellings
  <2>1. c.wire \in Tellings
    BY <1>1 DEF Converters
  <2>2. Saying(more, TRUE, failed) \in Tellings
    <3> HIDE DEF more, failed
    <3>1. QED
      BY <1>2, <1>3 DEF Saying, Tellings
  <2>3. QED
    BY <1>5, <2>1, <2>2
<1> HIDE DEF d
<1>8. d.next \in Nat
  <2>1. d.next = c.next \/ d.next = c.next + 1
    BY <1>5
  <2>2. QED
    BY <1>2, <2>1
<1>9. d \in Converters
  <2>1. /\ d.declared \in BOOLEAN /\ d.text \in BOOLEAN /\ d.reasoning \in BOOLEAN
        /\ d.tools \in Seq(Buffers) /\ d.minKey \in Int /\ d.finish \in Said
        /\ d.dropped = <<>> /\ d.finalized = FALSE /\ d.stop = "none"
    BY <1>1, <1>4 DEF Converters
  <2>2. QED
    BY <1>5, <1>6, <1>7, <1>8, <2>1 DEF Converters
<1>10. InStep(d)
  <2>1. CASE c.cur = kind
    BY <1>1, <1>5, <2>1 DEF InStep
  <2>2. CASE c.cur # kind
    <3>1. d.wire.blocks = more /\ d.wire.open = TRUE /\ d.next = c.next + 1
      BY <1>5, <2>2 DEF Saying
    <3>2. b.kind = kind
      OBVIOUS
    <3> HIDE DEF more, b
    <3>3. QED
      BY <1>2, <1>3, <1>5, <3>1, <3>2 DEF InStep
  <2>3. QED
    BY <2>1, <2>2
<1>11. Box(d) = Box(c)
  BY <1>4 DEF Box
<1>12. d.wire.failed = failed
  BY <1>5 DEF Saying
<1>13. QED
  BY <1>5, <1>9, <1>10, <1>11, <1>12 DEF Says, d

\* What handling a chunk that says something does to a converter.
LEMMA SaysHandled ==
    ASSUME NEW c, Live(c), NEW s \in Samples, NEW kind \in {"text", "thinking"},
           NEW d, Says(d, c, kind, s),
           NEW e, e \in Converters, e.cur = d.cur, e.next = d.next, e.wire = d.wire,
           Box(e) = Box(d),
           e.text <=> c.text \/ kind = "text",
           e.reasoning <=> c.reasoning \/ kind = "thinking",
           NEW ch, ch.body = kind, ch.from = s
    PROVE  Handled(e, c, ch)
<1> DEFINE bs == c.wire.blocks
           b == [kind |-> kind, from |-> s]
           more == Append(bs, b)
<1>1. /\ c.wire = Saying(bs, c.cur # "none", FALSE)
      /\ bs \in Seq(Narration) /\ c.next = Len(bs)
      /\ c.wire.failed = FALSE
  <2>1. Ready(c) /\ ~c.wire.failed
    BY DEF Live
  <2>2. /\ c.wire = Saying(bs, c.cur # "none", c.wire.failed)
        /\ bs \in Seq(Narration) /\ c.next = Len(bs) /\ c.wire.failed \in BOOLEAN
    BY <2>1, ReadyWire
  <2>3. c.wire.failed = FALSE
    BY <2>1, <2>2
  <2>4. QED
    BY <2>2, <2>3
<1>2. InStep(e)
  BY DEF Says, InStep
<1>3. Grows(c.wire, e.wire, kind, s)
  <2>1. CASE d.wire = c.wire
    BY <2>1 DEF Grows
  <2>2. CASE c.cur # kind /\ d.wire = Saying(more, TRUE, c.wire.failed)
    <3>1. c.wire.open => c.cur # "none" /\ c.wire.blocks[Len(c.wire.blocks)].kind = c.cur
      BY <1>1 DEF Live, Ready, InStep
    <3>2. e.wire = Saying(Append(c.wire.blocks, [kind |-> kind, from |-> s]), TRUE, FALSE)
      BY <1>1, <2>2
    <3>3. c.wire.open => c.wire.blocks[Len(c.wire.blocks)].kind # kind
      BY <2>2, <3>1
    <3>4. QED
      BY <3>2, <3>3 DEF Grows
  <2>3. QED
    BY <2>1, <2>2 DEF Says
<1>4. Remembers(e)
  <2>1. CASE d.wire = c.wire
    BY <2>1 DEF Live, Remembers
  <2>2. CASE d.wire = Saying(more, TRUE, c.wire.failed)
    <3>1. e.wire.blocks = more
      BY <2>2 DEF Saying
    <3>2. b \in Narration
      BY DEF Narration
    <3>3. /\ DOMAIN more = 1 .. Len(bs) + 1 /\ Len(bs) \in Nat
          /\ \A i \in 1 .. Len(bs) : more[i] = bs[i]
          /\ more[Len(bs) + 1] = b
      <4> HIDE DEF bs, b
      <4>1. QED
        BY <1>1, <3>2, AppendProperties
    <3>4. ASSUME NEW i \in DOMAIN more
          PROVE  /\ more[i].kind = "text" => e.text
                 /\ more[i].kind = "thinking" => e.reasoning
      <4>1. CASE i \in 1 .. Len(bs)
        <5>1. i \in DOMAIN bs /\ more[i] = bs[i]
          BY <1>1, <3>3, <4>1
        <5>2. QED
          BY <5>1 DEF Live, Remembers
      <4>2. CASE i = Len(bs) + 1
        <5>1. more[i].kind = kind
          BY <3>3, <4>2
        <5>2. QED
          BY <5>1
      <4>3. QED
        BY <3>3, <4>1, <4>2
    <3> HIDE DEF more
    <3>5. QED
      BY <3>1, <3>4 DEF Remembers
  <2>3. QED
    BY <2>1, <2>2 DEF Says
<1>5. ~e.wire.failed
  BY <1>1 DEF Says
<1>6. Box(e) = Fed(Box(c), ch)
  BY DEF Says, Fed
<1>7. QED
  BY <1>2, <1>3, <1>4, <1>5, <1>6 DEF Handled, Live, Ready

\* The finish reason of a chunk is all the rest of it.
LEMMA FinishHandled ==
    ASSUME NEW c, NEW d, NEW ch, Handled(d, c, ch), NEW x \in Said
    PROVE  Handled([d EXCEPT !.finish = x], c, ch)
<1> DEFINE e == [d EXCEPT !.finish = x]
<1>1. d \in Converters
  BY DEF Handled, Live, Ready
<1>2. d = [declared |-> d.declared, cur |-> d.cur, next |-> d.next, text |-> d.text,
           reasoning |-> d.reasoning, tools |-> d.tools, minKey |-> d.minKey,
           finish |-> d.finish, dropped |-> d.dropped, finalized |-> d.finalized,
           stop |-> d.stop, wire |-> d.wire]
  BY <1>1 DEF Converters
<1>3. e \in Converters
  BY <1>1 DEF Converters
<1>4. /\ e.cur = d.cur /\ e.next = d.next /\ e.text = d.text
      /\ e.reasoning = d.reasoning /\ e.tools = d.tools /\ e.minKey = d.minKey
      /\ e.wire = d.wire
  BY <1>1 DEF Converters
<1> HIDE DEF e
<1>5. InStep(e) /\ Remembers(e)
  BY <1>4 DEF Handled, Live, Ready, InStep, Remembers
<1>6. Box(e) = Box(d)
  BY <1>4 DEF Box
<1>7. QED
  BY <1>3, <1>4, <1>5, <1>6 DEF Handled, Live, Ready, e

LEMMA ThinkingHandled ==
    ASSUME NEW c, Live(c), NEW s \in Samples, NEW ch, ch.body = "thinking", ch.from = s
    PROVE  Handled(handleThinking(c, s), c, ch)
<1> DEFINE d == Narrated(c, "thinking", s)
           e == handleThinking(c, s)
<1>1. Says(d, c, "thinking", s)
  BY NarratedSays DEF Live
<1>2. d \in Converters
  BY <1>1 DEF Says
<1>3. c \in Converters
  BY DEF Live, Ready
<1>4. d.text = c.text
  BY <1>3, NarratedFields
<1> HIDE DEF d
<1>5. e = [d EXCEPT !.reasoning = TRUE]
  BY DEF handleThinking, d
<1> HIDE DEF e
<1>6. /\ e \in Converters /\ e.cur = d.cur /\ e.next = d.next /\ e.wire = d.wire
      /\ e.tools = d.tools /\ e.minKey = d.minKey /\ e.text = d.text /\ e.reasoning
  BY <1>2, <1>5 DEF Converters
<1>7. Box(e) = Box(d)
  BY <1>6 DEF Box
<1>8. (e.text <=> c.text \/ "thinking" = "text")
      /\ (e.reasoning <=> c.reasoning \/ "thinking" = "thinking")
  BY <1>4, <1>6
<1>9. Handled(e, c, ch)
  BY <1>1, <1>6, <1>7, <1>8, SaysHandled
<1>10. QED
  BY <1>9 DEF e

LEMMA TextHandled ==
    ASSUME NEW c, Live(c), NEW s \in Samples, NEW ch, ch.body = "text", ch.from = s
    PROVE  Handled(handleText(c, s), c, ch)
<1> DEFINE d == Narrated(c, "text", s)
           e == handleText(c, s)
<1>1. Says(d, c, "text", s)
  BY NarratedSays DEF Live
<1>2. d \in Converters
  BY <1>1 DEF Says
<1>3. c \in Converters
  BY DEF Live, Ready
<1>4. d.reasoning = c.reasoning
  BY <1>3, NarratedFields
<1> HIDE DEF d
<1>5. e = [d EXCEPT !.text = TRUE]
  BY DEF handleText, d
<1> HIDE DEF e
<1>6. /\ e \in Converters /\ e.cur = d.cur /\ e.next = d.next /\ e.wire = d.wire
      /\ e.tools = d.tools /\ e.minKey = d.minKey /\ e.text /\ e.reasoning = d.reasoning
  BY <1>2, <1>5 DEF Converters
<1>7. Box(e) = Box(d)
  BY <1>6 DEF Box
<1>8. (e.text <=> c.text \/ "text" = "text")
      /\ (e.reasoning <=> c.reasoning \/ "text" = "thinking")
  BY <1>4, <1>6
<1>9. Handled(e, c, ch)
  BY <1>1, <1>6, <1>7, <1>8, SaysHandled
<1>10. QED
  BY <1>9 DEF e

LEMMA ToolHandled ==
    ASSUME NEW c, Live(c), NEW ch, ch.body = "tool",
           bufferTool(Box(c), ch.frag) \in Boxes
    PROVE  Handled(bufferTool(c, ch.frag), c, ch)
<1> DEFINE t == bufferTool(Box(c), ch.frag)
           d == bufferTool(c, ch.frag)
<1>1. c \in Converters
  BY DEF Live, Ready
<1>2. d = [c EXCEPT !.tools = t.tools, !.minKey = t.minKey]
  BY <1>1, BufferBox
<1>3. t.tools \in Seq(Buffers) /\ t.minKey \in Int
      /\ t = [tools |-> t.tools, minKey |-> t.minKey]
  BY DEF Boxes
<1> HIDE DEF t, d
<1>4. /\ d \in Converters /\ d.cur = c.cur /\ d.next = c.next /\ d.wire = c.wire
      /\ d.tools = t.tools /\ d.minKey = t.minKey
      /\ d.text = c.text /\ d.reasoning = c.reasoning
  BY <1>1, <1>2, <1>3 DEF Converters
<1>5. Box(d) = Fed(Box(c), ch)
  BY <1>3, <1>4 DEF Box, Fed, t
<1>6. InStep(d) /\ Remembers(d) /\ ~d.wire.failed
  BY <1>4 DEF Live, Ready, InStep, Remembers
<1>7. Grows(c.wire, d.wire, ch.body, ch.from)
  BY <1>4 DEF Grows
<1>8. d.text <=> c.text \/ ch.body = "text"
  BY <1>4
<1>9. d.reasoning <=> c.reasoning \/ ch.body = "thinking"
  BY <1>4
<1>10. QED
  BY <1>4, <1>5, <1>6, <1>7, <1>8, <1>9 DEF Handled, Live, Ready, d

\* What HandleChunk does, in as far as the properties can see it.
LEMMA HandlesChunk ==
    ASSUME NEW c, Live(c), NEW ch \in Chunks,
           ch.body = "tool" => bufferTool(Box(c), ch.frag) \in Boxes
    PROVE  Handled(HandleChunk(c, ch), c, ch)
<1> DEFINE told == CASE ch.body = "thinking" -> handleThinking(c, ch.from)
                     [] ch.body = "text" -> handleText(c, ch.from)
                     [] ch.body = "tool" -> bufferTool(c, ch.frag)
                     [] ch.body \in {"none", "usage"} -> c
<1>1. /\ ch.from \in Samples /\ ch.finish \in Said
      /\ ch.body \in {"none", "text", "thinking", "usage", "tool"}
  BY DEF Chunks, PlainChunks, ToolChunks
<1>2. Handled(told, c, ch)
  <2>1. CASE ch.body = "thinking"
    BY <1>1, <2>1, ThinkingHandled
  <2>2. CASE ch.body = "text"
    BY <1>1, <2>2, TextHandled
  <2>3. CASE ch.body = "tool"
    BY <2>3, ToolHandled
  <2>4. CASE ch.body \in {"none", "usage"}
    <3>1. told = c
      BY <2>4
    <3>2. Handled(c, c, ch)
      BY <2>4 DEF Handled, Fed, Grows
    <3>3. QED
      BY <3>1, <3>2
  <2>5. QED
    BY <1>1, <2>1, <2>2, <2>3, <2>4
<1>3. HandleChunk(c, ch) = IF Stripped(c, ch) \/ ch.finish = "" THEN told
                           ELSE [told EXCEPT !.finish = ch.finish]
  BY DEF HandleChunk
<1> HIDE DEF told
<1>4. Handled([told EXCEPT !.finish = ch.finish], c, ch)
  BY <1>1, <1>2, FinishHandled
<1>5. QED
  BY <1>2, <1>3, <1>4

----------------------------------------------------------------------------
(* What the upstream sends next.                                           *)

Sendings == [Samples -> Seq(SentCalls)]

LEMMA NewCallAdds ==
    ASSUME sent \in Sendings, NEW s \in Samples,
           NEW call \in NewCalls(s), Plausible(s, call)
    PROVE  call \in SentCalls /\ Adds(sent[s], call, s)
<1>1. sent[s] \in Seq(SentCalls)
  BY DEF Sendings
<1>2. PICK style \in Indexing, size \in {1, 2}, name \in Names,
           shaped \in BOOLEAN, named \in BOOLEAN :
        call = [id |-> <<s, Len(sent[s]) + 1>>, style |-> style, size |-> size,
                name |-> name, shaped |-> shaped, at |-> 1, named |-> named]
  BY DEF NewCalls
<1>3. <<s, Len(sent[s]) + 1>> \in CallIds
  <2>1. Len(sent[s]) + 1 \in Nat
    BY <1>1
  <2>2. QED
    BY <2>1 DEF CallIds
<1>4. call \in SentCalls
  BY <1>2, <1>3 DEF SentCalls
<1>5. call.at = 1 /\ call.id = <<s, Len(sent[s]) + 1>>
  BY <1>2
<1>6. \A j \in DOMAIN sent[s] : sent[s][j] \in ToSet(sent[s])
  BY DEF ToSet
<1>7. Adds(sent[s], call, s)
  BY <1>5, <1>6 DEF Adds, Plausible
<1>8. QED
  BY <1>4, <1>7

\* What is sent with offer o of sample s, when t is buffered of the sample.
Offered(o, s, t) ==
    /\ Chunk(s, o) \in Chunks /\ Chunk(s, o).from = s
    /\ o.delta.calls \in Seq(SentCalls) /\ Ordered(o.delta.calls, s)
    /\ Fed(t, Chunk(s, o)) \in Boxes
    /\ Buffered(Fed(t, Chunk(s, o)), o.delta.calls)

LEMMA OfferedPlain ==
    ASSUME sent \in Sendings, NEW s \in Samples, Ordered(sent[s], s),
           NEW t \in Boxes, Buffered(t, sent[s]), NEW o, o.finish \in Said,
           o.delta.body \in {"none", "text", "thinking", "usage"},
           o.delta.frag = NoId, o.delta.calls = sent[s]
    PROVE  Offered(o, s, t)
<1>1. sent[s] \in Seq(SentCalls)
  BY DEF Sendings
<1>2. (count[s] = 0) \in BOOLEAN
  OBVIOUS
<1>3. Chunk(s, o) \in PlainChunks
  BY <1>2 DEF Chunk, PlainChunks
<1>4. Chunk(s, o).from = s /\ Chunk(s, o).body # "tool"
  BY DEF Chunk
<1>5. QED
  BY <1>1, <1>3, <1>4 DEF Offered, Chunks, Fed

LEMMA OfferedTool ==
    ASSUME NEW s \in Samples, NEW t, NEW o, o.finish \in Said,
           o.delta.body = "tool", o.delta.frag \in Fragments,
           o.delta.calls \in Seq(SentCalls), Ordered(o.delta.calls, s),
           bufferTool(t, o.delta.frag) \in Boxes,
           Buffered(bufferTool(t, o.delta.frag), o.delta.calls)
    PROVE  Offered(o, s, t)
<1>1. (count[s] = 0) \in BOOLEAN
  OBVIOUS
<1>2. Chunk(s, o) \in ToolChunks
  BY <1>1 DEF Chunk, ToolChunks
<1>3. /\ Chunk(s, o).from = s /\ Chunk(s, o).body = "tool"
      /\ Chunk(s, o).frag = o.delta.frag
  BY DEF Chunk
<1>4. QED
  BY <1>2, <1>3 DEF Offered, Chunks, Fed

\* Whatever is offered, the record of calls and the buffer stay in step.
LEMMA EveryOffer ==
    ASSUME sent \in Sendings, NEW s \in Samples, Ordered(sent[s], s),
           NEW t \in Boxes, Buffered(t, sent[s]), NEW o \in Offers(s)
    PROVE  Offered(o, s, t)
<1> DEFINE d == o.delta
           calls == sent[s]
<1>1. d \in Deltas(s) /\ o.finish \in Said
  BY DEF Offers, Said
<1>2. calls \in Seq(SentCalls)
  BY DEF Sendings
<1>3. CASE \E b \in {"none", "text", "thinking", "usage"} :
             d = [body |-> b, frag |-> NoId, calls |-> calls]
  BY <1>1, <1>3, OfferedPlain
<1>4. CASE \E c \in NewCalls(s) :
             /\ Plausible(s, c)
             /\ d = [body |-> "tool", frag |-> Fragment(c, 1, TRUE, c.named),
                     calls |-> Append(calls, c)]
  <2>1. PICK c \in NewCalls(s) :
             /\ Plausible(s, c)
             /\ d = [body |-> "tool", frag |-> Fragment(c, 1, TRUE, c.named),
                     calls |-> Append(calls, c)]
    BY <1>4
  <2>2. c \in SentCalls /\ Adds(calls, c, s)
    BY <2>1, NewCallAdds
  <2> DEFINE f == Fragment(c, 1, TRUE, c.named)
             more == Append(calls, c)
  <2>3. f \in Fragments
    BY <2>2, FragmentType
  <2>4. f = Fragment(c, 1, TRUE, c.named)
    OBVIOUS
  <2>5. d.body = "tool" /\ d.frag = f /\ d.calls = more
    BY <2>1
  <2> HIDE DEF f, calls, d
  <2>6. more \in Seq(SentCalls) /\ Ordered(more, s)
    BY <1>2, <2>2, OrderedMore DEF calls
  <2>7. bufferTool(t, f) \in Boxes /\ Buffered(bufferTool(t, f), more)
    <3>1. /\ c.at = 1 /\ c.id = <<s, Len(calls) + 1>>
          /\ c.style \in {"whole", "split"} =>
                calls # <<>> /\ c.named /\ c.name # NoName
          /\ c.style = "legacy" => \A j \in DOMAIN calls : calls[j].style # "legacy"
      BY <2>2 DEF Adds
    <3>2. Ordered(calls, s) /\ Buffered(t, calls)
      BY DEF calls
    <3>3. QED
      BY <1>2, <2>2, <2>4, <3>1, <3>2, BufferFirst
  <2> HIDE DEF more
  <2>8. QED
    BY <1>1, <2>3, <2>5, <2>6, <2>7, OfferedTool DEF d
<1>5. CASE \E i \in DOMAIN calls :
             /\ calls[i].at < calls[i].size
             /\ d = [body |-> "tool", frag |-> Fragment(calls[i], 2, FALSE, ~calls[i].named),
                     calls |-> Continued(calls, i)]
  <2>1. PICK i \in DOMAIN calls :
             /\ calls[i].at < calls[i].size
             /\ d = [body |-> "tool", frag |-> Fragment(calls[i], 2, FALSE, ~calls[i].named),
                     calls |-> Continued(calls, i)]
    BY <1>5
  <2> DEFINE f == Fragment(calls[i], 2, FALSE, ~calls[i].named)
             next == Continued(calls, i)
  <2>2. f \in Fragments
    <3>1. calls[i] \in SentCalls
      BY <1>2
    <3>2. QED
      BY <3>1, FragmentType
  <2>3. f = Fragment(calls[i], 2, FALSE, ~calls[i].named)
    OBVIOUS
  <2>4. d.body = "tool" /\ d.frag = f /\ d.calls = next
    BY <2>1
  <2>5. Ordered(calls, s) /\ Buffered(t, calls)
    OBVIOUS
  <2> HIDE DEF f, calls, d
  <2>6. next \in Seq(SentCalls) /\ Ordered(next, s)
    BY <1>2, <2>1, <2>5, ContinuedIs, OrderedOn
  <2>7. bufferTool(t, f) \in Boxes /\ Buffered(bufferTool(t, f), next)
    BY <1>2, <2>1, <2>3, <2>5, BufferSecond
  <2> HIDE DEF next
  <2>8. QED
    BY <1>1, <2>2, <2>4, <2>6, <2>7, OfferedTool DEF d
<1>6. QED
  BY <1>1, <1>3, <1>4, <1>5 DEF Deltas, Continued

----------------------------------------------------------------------------
(* The end of a turn.                                                      *)

\* Every buffered call is emitted or dropped, once, with its arguments.
LEMMA FinalDelivers ==
    ASSUME NEW c, Ready(c),
           NEW delivered, delivered = Calls(Finalize(c).wire) \o Finalize(c).dropped
    PROVE  /\ Len(delivered) = Len(c.tools)
           /\ \A i \in DOMAIN c.tools :
                 \E b \in ToSet(delivered) : b.args = c.tools[i].args
<1> DEFINE tools == c.tools
           calls == Calls(Finalize(c).wire)
           emitted == Emitted(c)
           dropped == Dropped(c)
           T == Blocks \cup Buffers
<1>1. tools \in Seq(Buffers)
  BY DEF Ready, Converters
<1>2. emitted \in Seq(Buffers) /\ dropped \in Seq(Buffers)
  BY <1>1, EmittedType
<1>3. /\ calls \in Seq(Blocks) /\ Len(calls) = Len(emitted)
      /\ \A k \in 1 .. Len(emitted) : calls[k] = CallBlock(emitted[k])
  BY FinalCalls
<1>4. Finalize(c).dropped = dropped
  BY FinalizeIs
<1>5. Len(emitted) + Len(dropped) = Len(tools)
  BY <1>1, PickedOrNot DEF Emitted, Dropped
<1>6. \A i \in DOMAIN tools \cap Usable(c) :
        \E k \in DOMAIN emitted : emitted[k] = tools[i]
  <2> DEFINE places == Usable(c)
  <2>1. emitted = Picked(tools, places)
    BY DEF Emitted
  <2> HIDE DEF emitted, tools, places
  <2>2. PICK at :
          /\ \A k \in DOMAIN Picked(tools, places) :
                at[k] \in DOMAIN tools \cap places /\ Picked(tools, places)[k] = tools[at[k]]
          /\ \A k, l \in DOMAIN Picked(tools, places) : at[k] = at[l] => k = l
          /\ \A i \in DOMAIN tools \cap places :
                \E k \in DOMAIN Picked(tools, places) : at[k] = i
    BY <1>1, PickedPlaces
  <2>3. \A i \in DOMAIN tools \cap places : \E k \in DOMAIN emitted : emitted[k] = tools[i]
    BY <2>1, <2>2
  <2>4. QED
    BY <2>3 DEF places
<1>7. \A i \in DOMAIN tools \ Usable(c) :
        \E k \in DOMAIN dropped : dropped[k] = tools[i]
  <2> DEFINE places == DOMAIN tools \ Usable(c)
  <2>1. dropped = Picked(tools, places)
    BY DEF Dropped
  <2>2. \A i \in places : i \in DOMAIN tools \cap places
    OBVIOUS
  <2> HIDE DEF dropped, tools, places
  <2>3. PICK at :
          /\ \A k \in DOMAIN Picked(tools, places) :
                at[k] \in DOMAIN tools \cap places /\ Picked(tools, places)[k] = tools[at[k]]
          /\ \A k, l \in DOMAIN Picked(tools, places) : at[k] = at[l] => k = l
          /\ \A i \in DOMAIN tools \cap places :
                \E k \in DOMAIN Picked(tools, places) : at[k] = i
    BY <1>1, PickedPlaces
  <2>4. \A i \in places : \E k \in DOMAIN dropped : dropped[k] = tools[i]
    BY <2>1, <2>2, <2>3
  <2>5. QED
    BY <2>4 DEF places
<1> HIDE DEF calls, emitted, dropped, tools
<1>8. delivered = calls \o dropped
  BY <1>4 DEF calls
<1>9. calls \in Seq(T) /\ dropped \in Seq(T)
  BY <1>2, <1>3
<1>10. /\ Len(delivered) = Len(calls) + Len(dropped)
       /\ DOMAIN delivered = 1 .. Len(delivered)
       /\ \A k \in 1 .. Len(calls) : delivered[k] = calls[k]
       /\ \A k \in 1 .. Len(dropped) : delivered[Len(calls) + k] = dropped[k]
  <2> HIDE DEF T
  <2>1. \A p, q \in Seq(T) :
          /\ p \o q \in Seq(T) /\ Len(p \o q) = Len(p) + Len(q)
          /\ \A k \in 1 .. Len(p) : (p \o q)[k] = p[k]
          /\ \A k \in 1 .. Len(q) : (p \o q)[Len(p) + k] = q[k]
    OBVIOUS
  <2>2. QED
    BY <1>8, <1>9, <2>1
<1>11. Len(calls) \in Nat /\ Len(dropped) \in Nat
  BY <1>9
<1>12. \A k \in 1 .. Len(calls) : calls[k] \in ToSet(delivered)
  <2>1. \A k \in 1 .. Len(calls) : k \in DOMAIN delivered
    BY <1>10, <1>11
  <2>2. QED
    BY <1>10, <2>1 DEF ToSet
<1>13. \A k \in 1 .. Len(dropped) : dropped[k] \in ToSet(delivered)
  <2>1. \A k \in 1 .. Len(dropped) : Len(calls) + k \in DOMAIN delivered
    BY <1>10, <1>11
  <2>2. QED
    BY <1>10, <2>1 DEF ToSet
<1>14. ASSUME NEW i \in DOMAIN tools
       PROVE  \E b \in ToSet(delivered) : b.args = tools[i].args
  <2>1. CASE i \in Usable(c)
    <3>1. PICK k \in DOMAIN emitted : emitted[k] = tools[i]
      BY <1>6, <2>1
    <3>2. k \in 1 .. Len(emitted) /\ k \in 1 .. Len(calls)
      BY <1>2, <1>3, <3>1
    <3>3. calls[k] = CallBlock(tools[i])
      BY <1>3, <3>1, <3>2
    <3>4. CallBlock(tools[i]).args = tools[i].args
      BY DEF CallBlock
    <3>5. QED
      BY <1>12, <3>2, <3>3, <3>4
  <2>2. CASE i \notin Usable(c)
    <3>1. PICK k \in DOMAIN dropped : dropped[k] = tools[i]
      BY <1>7, <2>2
    <3>2. k \in 1 .. Len(dropped)
      BY <1>2
    <3>3. QED
      BY <1>13, <3>1, <3>2
  <2>3. QED
    BY <2>1, <2>2
<1>15. Len(delivered) = Len(tools)
  BY <1>3, <1>5, <1>10
<1>16. QED
  BY <1>14, <1>15 DEF tools

\* A block of the finished message was narrated, or is one of the calls.
LEMMA FinalBlocks ==
    ASSUME NEW c, Ready(c), NEW i \in DOMAIN Finalize(c).wire.blocks,
           NEW b, b = Finalize(c).wire.blocks[i]
    PROVE  \/ \E k \in DOMAIN c.wire.blocks : b = c.wire.blocks[k]
           \/ \E k \in DOMAIN c.tools : b = CallBlock(c.tools[k])
<1> DEFINE bs == c.wire.blocks
           m == Len(bs)
           emitted == Emitted(c)
<1>1. PICK all \in Seq(Blocks) :
        /\ Finalize(c).wire = Told(all, Reason(c), c.wire.failed)
        /\ Len(all) = m + Len(emitted)
        /\ \A k \in 1 .. m : all[k] = bs[k]
        /\ \A k \in 1 .. Len(emitted) : all[m + k] = CallBlock(emitted[k])
  BY FinalWire DEF Behind
<1>2. Finalize(c).wire.blocks = all
  BY <1>1 DEF Told
<1>3. bs \in Seq(Narration) /\ m \in Nat /\ DOMAIN bs = 1 .. m
  BY ReadyWire
<1>4. c.tools \in Seq(Buffers) /\ emitted \in Seq(Buffers)
  BY EmittedType DEF Ready, Converters
<1>5. \A k \in DOMAIN emitted : \E j \in DOMAIN c.tools : emitted[k] = c.tools[j]
  <2> DEFINE tools == c.tools
             places == Usable(c)
  <2>1. emitted = Picked(tools, places) /\ tools \in Seq(Buffers)
    BY <1>4 DEF Emitted
  <2> HIDE DEF emitted, tools, places
  <2>2. PICK at :
          \A k \in DOMAIN Picked(tools, places) :
             at[k] \in DOMAIN tools \cap places /\ Picked(tools, places)[k] = tools[at[k]]
    BY <2>1, PickedPlaces
  <2>3. \A k \in DOMAIN emitted : \E j \in DOMAIN tools : emitted[k] = tools[j]
    BY <2>1, <2>2
  <2>4. QED
    BY <2>3 DEF tools
<1>6. i \in 1 .. Len(all) /\ Len(all) \in Nat /\ b = all[i]
  BY <1>2
<1>7. DOMAIN emitted = 1 .. Len(emitted) /\ Len(emitted) \in Nat
  BY <1>4
<1> HIDE DEF bs, m, emitted
<1>8. CASE i \in 1 .. m
  BY <1>1, <1>3, <1>6, <1>8 DEF bs
<1>9. CASE i \notin 1 .. m
  <2>1. i - m \in 1 .. Len(emitted) /\ m + (i - m) = i
    BY <1>1, <1>3, <1>6, <1>7, <1>9
  <2>2. b = CallBlock(emitted[i - m])
    BY <1>1, <1>6, <2>1
  <2>3. QED
    BY <1>5, <1>7, <2>1, <2>2
<1>10. QED
  BY <1>8, <1>9

\* Every call is among those delivered, with as much of it as was sent.
AllThere(delivered, calls) ==
    /\ Len(delivered) = Len(calls)
    /\ \A i \in DOMAIN calls : \E b \in ToSet(delivered) : Covers(b.args, calls, i)

\* Each call of the sample that is buffered reaches the client or is dropped,
\* with the pieces it holds.
LEMMA FinalOnce ==
    ASSUME NEW c, Ready(c), NEW calls \in Seq(SentCalls), Buffered(Box(c), calls),
           NEW delivered, delivered = Calls(Finalize(c).wire) \o Finalize(c).dropped
    PROVE  AllThere(delivered, calls)
<1>1. /\ Len(delivered) = Len(c.tools)
      /\ \A i \in DOMAIN c.tools : \E b \in ToSet(delivered) : b.args = c.tools[i].args
  BY FinalDelivers
<1>2. c.tools \in Seq(Buffers)
  BY DEF Ready, Converters
<1>3. /\ Len(c.tools) = Len(calls)
      /\ \A i \in DOMAIN c.tools : Covers(c.tools[i].args, calls, i)
  BY DEF Box, Buffered
<1>4. DOMAIN calls = DOMAIN c.tools
  BY <1>2, <1>3
<1>5. ASSUME NEW i \in DOMAIN calls
      PROVE  \E b \in ToSet(delivered) : Covers(b.args, calls, i)
  <2>1. PICK b \in ToSet(delivered) : b.args = c.tools[i].args
    BY <1>1, <1>4
  <2>2. QED
    BY <1>3, <1>4, <2>1
<1>6. QED
  BY <1>1, <1>3, <1>5 DEF AllThere

\* The stop reason tells of the calls, unless the upstream says it was cut off.
LEMMA FinalReason ==
    ASSUME NEW c, Ready(c)
    PROVE  /\ Finalize(c).wire.stop \in {"end_turn", "max_tokens", "tool_use"}
           /\ Finalize(c).wire.stop = "tool_use" <=>
                /\ Calls(Finalize(c).wire) # <<>>
                /\ Finalize(c).finish \notin {"length", "content_filter"}
           /\ Finalize(c).stop = Finalize(c).wire.stop
           /\ Finalize(c).wire.valid /\ Finalize(c).wire.ended /\ ~Finalize(c).wire.open
<1>1. PICK all \in Seq(Blocks) :
        Finalize(c).wire = Told(all, Reason(c), c.wire.failed)
  BY FinalWire
<1>2. /\ Finalize(c).wire.stop = Reason(c)
      /\ Finalize(c).wire.valid /\ Finalize(c).wire.ended /\ ~Finalize(c).wire.open
  BY <1>1 DEF Told
<1>3. Finalize(c).finish = c.finish /\ Finalize(c).stop = Reason(c)
  BY FinalizeIs
<1>4. c.finish \in {"", "stop", "length", "tool_calls", "content_filter"}
  <2>1. c.finish \in {""} \cup Finishes
    BY DEF Ready, Converters, Said
  <2>2. Finishes \subseteq {"stop", "length", "tool_calls", "content_filter"}
    BY ChatAssumption
  <2>3. QED
    BY <2>1, <2>2
<1>5. Calls(Finalize(c).wire) # <<>> <=> Emitted(c) # <<>>
  <2>1. Emitted(c) \in Seq(Buffers)
    BY EmittedType DEF Ready, Converters
  <2>2. /\ Calls(Finalize(c).wire) \in Seq(Blocks)
        /\ Len(Calls(Finalize(c).wire)) = Len(Emitted(c))
    BY FinalCalls
  <2>3. QED
    BY <2>1, <2>2
<1>6. Reason(c) = "tool_use" <=>
        c.finish \in {"", "stop", "tool_calls"} /\ Emitted(c) # <<>>
  BY ReasonIs
<1>7. Reason(c) \in {"end_turn", "max_tokens", "tool_use"}
  BY ReasonIs
<1>8. QED
  BY <1>2, <1>3, <1>4, <1>5, <1>6, <1>7

\* The arguments of a buffered call name the sample it came from.
LEMMA FinalOrigin ==
    ASSUME NEW t, NEW n \in Samples, NEW calls,
           Ordered(calls, n), Buffered(t, calls), DOMAIN calls = DOMAIN t.tools,
           NEW k \in DOMAIN t.tools
    PROVE  CallBlock(t.tools[k]).kind = "tool_use" /\ Origin(CallBlock(t.tools[k])) = n
<1>1. Holds(t.tools[k], calls[k], k) /\ calls[k].id = <<n, k>>
  BY DEF Buffered, Ordered
<1>2. t.tools[k].args[1].call = <<n, k>>
  BY <1>1 DEF Holds
<1>3. <<n, k>>[1] = n
  OBVIOUS
<1>4. QED
  BY <1>2, <1>3 DEF CallBlock, Origin

\* The buffered calls have ids of their own, minted ones too.
LEMMA ToolIdsDiffer ==
    ASSUME NEW t \in Boxes, NEW n \in Samples, NEW calls \in Seq(SentCalls),
           Ordered(calls, n), Buffered(t, calls),
           NEW k \in DOMAIN t.tools, NEW l \in DOMAIN t.tools,
           ToolId(t.tools[k]) = ToolId(t.tools[l])
    PROVE  k = l
<1>1. DOMAIN calls = DOMAIN t.tools /\ DOMAIN calls \subseteq Nat
  BY DEF Boxes, Buffered
<1>2. ASSUME NEW i \in DOMAIN t.tools
      PROVE  \/ t.tools[i].id = NoId /\ ToolId(t.tools[i]) = <<0, -1>>
             \/ ToolId(t.tools[i]) = <<n, i>>
  <2>1. Holds(t.tools[i], calls[i], i) /\ calls[i].id = <<n, i>>
    BY <1>1 DEF Buffered, Ordered
  <2>2. CASE calls[i].style = "legacy"
    <3>1. t.tools[i].id = NoId /\ t.tools[i].key = -1
      BY <2>1, <2>2 DEF Holds
    <3>2. QED
      BY <3>1 DEF ToolId
  <2>3. CASE calls[i].style # "legacy"
    <3>1. t.tools[i].id = <<n, i>>
      BY <2>1, <2>3 DEF Holds
    <3>2. <<n, i>> \in Samples \X Nat
      BY <1>1
    <3>3. t.tools[i].id # NoId
      BY <3>1, <3>2, ChatAssumption
    <3>4. QED
      BY <3>1, <3>3 DEF ToolId
  <2>4. QED
    BY <2>2, <2>3
<1>3. ASSUME NEW i \in DOMAIN t.tools, t.tools[i].id = NoId
      PROVE  t.tools[i].key = -1
  <2>1. Holds(t.tools[i], calls[i], i) /\ calls[i].id = <<n, i>>
    BY <1>1 DEF Buffered, Ordered
  <2>2. <<n, i>> \in Samples \X Nat
    BY <1>1
  <2>3. calls[i].style = "legacy"
    BY <1>3, <2>1, <2>2, ChatAssumption DEF Holds
  <2>4. QED
    BY <2>1, <2>3 DEF Holds
<1>4. n # 0
  BY DEF Samples
<1>5. CASE ToolId(t.tools[k]) = <<n, k>> /\ ToolId(t.tools[l]) = <<n, l>>
  <2>1. <<n, k>> = <<n, l>>
    BY <1>5
  <2>2. QED
    BY <2>1
<1>6. CASE t.tools[k].id = NoId /\ t.tools[l].id = NoId
  <2>1. t.tools[k].key = t.tools[l].key
    BY <1>3, <1>6
  <2>2. QED
    BY <2>1 DEF Buffered
<1>7. \A i : <<0, -1>> # <<n, i>>
  BY <1>4
<1>8. QED
  BY <1>2, <1>5, <1>6, <1>7

LEMMA FinalDistinct ==
    ASSUME NEW c, Ready(c), NEW n \in Samples, NEW calls \in Seq(SentCalls),
           Ordered(calls, n), Buffered(Box(c), calls),
           NEW i \in DOMAIN Calls(Finalize(c).wire),
           NEW j \in DOMAIN Calls(Finalize(c).wire),
           Calls(Finalize(c).wire)[i].id = Calls(Finalize(c).wire)[j].id
    PROVE  i = j
<1> DEFINE tools == c.tools
           places == Usable(c)
           emitted == Emitted(c)
<1>1. tools \in Seq(Buffers) /\ emitted \in Seq(Buffers)
  BY EmittedType DEF Ready, Converters
<1>2. /\ Calls(Finalize(c).wire) \in Seq(Blocks)
      /\ Len(Calls(Finalize(c).wire)) = Len(emitted)
      /\ \A k \in 1 .. Len(emitted) : Calls(Finalize(c).wire)[k] = CallBlock(emitted[k])
  BY FinalCalls
<1>3. i \in DOMAIN emitted /\ j \in DOMAIN emitted
  BY <1>1, <1>2
<1>4. ToolId(emitted[i]) = ToolId(emitted[j])
  <2>1. i \in 1 .. Len(emitted) /\ j \in 1 .. Len(emitted)
    BY <1>1, <1>3
  <2>2. CallBlock(emitted[i]).id = CallBlock(emitted[j]).id
    BY <1>2, <2>1
  <2>3. QED
    BY <2>2 DEF CallBlock
<1>5. emitted = Picked(tools, places)
  BY DEF Emitted
<1> HIDE DEF tools, places, emitted
<1>6. PICK at :
        /\ \A k \in DOMAIN Picked(tools, places) :
              at[k] \in DOMAIN tools \cap places /\ Picked(tools, places)[k] = tools[at[k]]
        /\ \A k, l \in DOMAIN Picked(tools, places) : at[k] = at[l] => k = l
  BY <1>1, PickedPlaces
<1>7. /\ at[i] \in DOMAIN tools /\ at[j] \in DOMAIN tools
      /\ emitted[i] = tools[at[i]] /\ emitted[j] = tools[at[j]]
      /\ at[i] = at[j] => i = j
  BY <1>3, <1>5, <1>6
<1> DEFINE t == Box(c)
<1>8. t \in Boxes /\ t.tools = tools /\ Buffered(t, calls)
  BY DEF Ready, Converters, Box, Boxes, tools
<1> HIDE DEF t
<1>9. at[i] = at[j]
  <2> DEFINE k == at[i]
             l == at[j]
  <2>1. k \in DOMAIN t.tools /\ l \in DOMAIN t.tools
        /\ ToolId(t.tools[k]) = ToolId(t.tools[l])
    BY <1>4, <1>7, <1>8
  <2> HIDE DEF k, l
  <2>2. k = l
    BY <1>8, <2>1, ToolIdsDiffer
  <2>3. QED
    BY <2>2 DEF k, l
<1>10. QED
  BY <1>7, <1>9

\* An error changes what the client has been told, and nothing else.
LEMMA ErrorTold ==
    ASSUME NEW c, Live(c)
    PROVE  /\ Ready(EmitError(c)) /\ Box(EmitError(c)) = Box(c)
           /\ EmitError(c).wire.blocks = c.wire.blocks
<1> DEFINE d == EmitError(c)
           m == [c.wire EXCEPT !.failed = TRUE]
<1>1. c \in Converters /\ InStep(c)
  BY DEF Live, Ready
<1>2. c.wire \in Tellings
  BY <1>1 DEF Converters
<1>3. Receive(c.wire, Error) = m
  <2>1. Acceptable(c.wire, Error)
    BY <1>2 DEF Acceptable, Error, Tellings
  <2>2. Accepted(c.wire, Error) = m
    BY DEF Accepted, Error
  <2>3. QED
    BY <2>1, <2>2, ReceiveIs
<1>4. m \in Tellings /\ m.blocks = c.wire.blocks /\ m.open = c.wire.open
  BY <1>2 DEF Tellings
<1>5. d = [c EXCEPT !.wire = m]
  BY <1>3 DEF EmitError
<1> HIDE DEF m, d
<1>6. /\ d \in Converters /\ d.wire = m /\ d.next = c.next /\ d.cur = c.cur
      /\ d.tools = c.tools /\ d.minKey = c.minKey
  BY <1>1, <1>4, <1>5 DEF Converters
<1>7. InStep(d)
  BY <1>1, <1>4, <1>6 DEF InStep
<1>8. Box(d) = Box(c)
  BY <1>6 DEF Box
<1>9. QED
  BY <1>4, <1>6, <1>7, <1>8 DEF Ready, d

----------------------------------------------------------------------------
(* The replay: chunks lead from what is buffered before to what is after.  *)

Trail(before, chs, after) ==
    \E trail \in [0 .. Len(chs) -> Boxes] :
        /\ trail[0] = before
        /\ trail[Len(chs)] = after
        /\ \A i \in 1 .. Len(chs) : trail[i] = Fed(trail[i - 1], chs[i])

LEMMA TrailNone ==
    ASSUME NEW before, NEW after
    PROVE  /\ before = after /\ before \in Boxes => Trail(before, <<>>, after)
           /\ Trail(before, <<>>, after) => before = after
<1>1. Len(<<>>) = 0 /\ 0 .. 0 = {0} /\ 1 .. 0 = {}
  OBVIOUS
<1>2. ASSUME before = after, before \in Boxes
      PROVE  Trail(before, <<>>, after)
  <2> DEFINE trail == [i \in 0 .. Len(<<>>) |-> before]
  <2>1. trail \in [0 .. Len(<<>>) -> Boxes]
    BY <1>2
  <2>2. trail[0] = before /\ trail[Len(<<>>)] = after
    BY <1>1, <1>2
  <2> HIDE DEF trail
  <2>3. QED
    BY <1>1, <2>1, <2>2 DEF Trail
<1>3. QED
  BY <1>1, <1>2 DEF Trail

LEMMA TrailMore ==
    ASSUME NEW before, NEW chs \in Seq(Chunks), NEW after, NEW ch \in Chunks,
           Trail(before, chs, after), Fed(after, ch) \in Boxes
    PROVE  Trail(before, Append(chs, ch), Fed(after, ch))
<1> DEFINE n == Len(chs)
           more == Append(chs, ch)
           last == Fed(after, ch)
<1>1. PICK trail \in [0 .. n -> Boxes] :
        /\ trail[0] = before /\ trail[n] = after
        /\ \A i \in 1 .. n : trail[i] = Fed(trail[i - 1], chs[i])
  BY DEF Trail
<1>2. /\ n \in Nat /\ Len(more) = n + 1
      /\ \A i \in 1 .. n : more[i] = chs[i]
      /\ more[n + 1] = ch
  BY AppendProperties
<1> DEFINE next == [i \in 0 .. n + 1 |-> IF i \in 0 .. n THEN trail[i] ELSE last]
<1> HIDE DEF n, more, last
<1>3. next \in [0 .. n + 1 -> Boxes]
  <2>1. \A i \in 0 .. n + 1 : (IF i \in 0 .. n THEN trail[i] ELSE last) \in Boxes
    BY <1>1 DEF last
  <2>2. QED
    BY <2>1
<1>4. next[0] = before /\ next[n + 1] = last
      /\ \A i \in 0 .. n : next[i] = trail[i]
  BY <1>1, <1>2
<1> HIDE DEF next
<1>5. ASSUME NEW i \in 1 .. n + 1
      PROVE  next[i] = Fed(next[i - 1], more[i])
  <2>1. CASE i \in 1 .. n
    <3>1. i \in 0 .. n /\ i - 1 \in 0 .. n
      BY <1>2, <2>1
    <3>2. QED
      BY <1>1, <1>2, <1>4, <2>1, <3>1
  <2>2. CASE i = n + 1
    <3>1. i - 1 = n /\ n \in 0 .. n
      BY <1>2, <2>2
    <3>2. next[i - 1] = after
      BY <1>1, <1>4, <3>1
    <3>3. QED
      BY <1>2, <1>4, <2>2, <3>2 DEF last
  <2>3. QED
    BY <1>2, <2>1, <2>2
<1>6. Trail(before, more, last)
  BY <1>2, <1>3, <1>4, <1>5 DEF Trail
<1>7. QED
  BY <1>6 DEF more, last

LEMMA TrailRest ==
    ASSUME NEW before, NEW chs \in Seq(Chunks), NEW after, chs # <<>>,
           Trail(before, chs, after)
    PROVE  /\ Fed(before, Head(chs)) \in Boxes
           /\ Trail(Fed(before, Head(chs)), Tail(chs), after)
<1> DEFINE n == Len(chs)
           rest == Tail(chs)
           first == Head(chs)
<1>1. PICK trail \in [0 .. n -> Boxes] :
        /\ trail[0] = before /\ trail[n] = after
        /\ \A i \in 1 .. n : trail[i] = Fed(trail[i - 1], chs[i])
  BY DEF Trail
<1>2. /\ n \in Nat /\ n > 0 /\ Len(rest) = n - 1
      /\ \A i \in 1 .. n - 1 : rest[i] = chs[i + 1]
      /\ first = chs[1]
  <2>1. /\ Len(rest) = Len(chs) - 1 /\ Len(chs) \in Nat /\ Len(chs) # 0
        /\ first = chs[1]
    BY EmptySeq
  <2>2. \A i \in 1 .. Len(chs) - 1 : rest[i] = chs[i + 1]
    OBVIOUS
  <2>3. QED
    BY <2>1, <2>2
<1> HIDE DEF n, rest, first
<1>3. trail[1] = Fed(before, first) /\ trail[1] \in Boxes
  <2>1. 1 \in 1 .. n /\ 1 \in 0 .. n /\ 1 - 1 = 0
    BY <1>2
  <2>2. QED
    BY <1>1, <1>2, <2>1
<1> DEFINE next == [i \in 0 .. n - 1 |-> trail[i + 1]]
<1>4. next \in [0 .. n - 1 -> Boxes]
  <2>1. \A i \in 0 .. n - 1 : i + 1 \in 0 .. n
    BY <1>2
  <2>2. QED
    BY <1>1, <2>1
<1>5. next[0] = Fed(before, first) /\ next[n - 1] = after
  <2>1. 0 \in 0 .. n - 1 /\ n - 1 \in 0 .. n - 1 /\ (n - 1) + 1 = n /\ 0 + 1 = 1
    BY <1>2
  <2>2. QED
    BY <1>1, <1>3, <2>1
<1>6. ASSUME NEW i \in 1 .. n - 1
      PROVE  next[i] = Fed(next[i - 1], rest[i])
  <2>1. /\ i \in 0 .. n - 1 /\ i - 1 \in 0 .. n - 1
        /\ i + 1 \in 1 .. n /\ (i + 1) - 1 = i /\ (i - 1) + 1 = i
    BY <1>2
  <2>2. next[i] = trail[i + 1] /\ next[i - 1] = trail[i]
    BY <2>1
  <2>3. trail[i + 1] = Fed(trail[i], chs[i + 1])
    BY <1>1, <2>1
  <2>4. QED
    BY <1>2, <2>2, <2>3
<1> HIDE DEF next
<1>7. Trail(Fed(before, first), rest, after)
  BY <1>2, <1>4, <1>5, <1>6 DEF Trail
<1>8. QED
  BY <1>3, <1>7 DEF rest, first

----------------------------------------------------------------------------
(* The inductive invariant.                                                *)

TypeOK ==
    /\ pc \in {"first", "second", "replay", "done"}
    /\ why \in {"none", "aborted", "toolless"}
    /\ enabled \in BOOLEAN /\ keepText \in BOOLEAN /\ big \in BOOLEAN
    /\ chunks \in Seq(Chunks)
    /\ sent \in Sendings
    /\ count \in [Samples -> 0 .. MaxChunks]
    /\ ended \subseteq Samples

\* The blocks of the given kind on the wire of c are from sample s.
From(c, kind, s) ==
    \A i \in DOMAIN c.wire.blocks :
        c.wire.blocks[i].kind = kind => c.wire.blocks[i].from = s

FromSecond == \A i \in DOMAIN chunks : chunks[i].from = 2

\* The first sample is relayed; of the second there is nothing.
WhileFirst ==
    pc = "first" =>
        /\ Live(conv) /\ Live(candidate)
        /\ From(conv, "text", 1) /\ From(conv, "thinking", 1)
        /\ Buffered(Box(conv), sent[1])
        /\ Buffered(Box(candidate), sent[2])
        /\ candidate.tools = <<>>
        /\ chunks = <<>>

\* The first sample made no calls and did not think; the kept chunks hold
\* what the candidate has buffered.
WhileSecond ==
    pc = "second" =>
        /\ Live(conv) /\ Live(candidate)
        /\ From(conv, "text", 1) /\ ~conv.reasoning
        /\ conv.tools = <<>>
        /\ Buffered(Box(conv), sent[1])
        /\ Buffered(Box(candidate), sent[2])
        /\ FromSecond
        /\ Trail(Box(conv), chunks, Box(candidate))

\* The second sample has calls, and the chunks that are left lead to them.
WhileReplay ==
    pc = "replay" =>
        /\ Live(conv)
        /\ From(conv, "text", IF keepText THEN 2 ELSE 1)
        /\ From(conv, "thinking", 2)
        /\ Won
        /\ candidate.tools # <<>>
        /\ Buffered(Box(candidate), sent[2])
        /\ FromSecond
        /\ Trail(Box(conv), chunks, Box(candidate))

WhenDone ==
    pc = "done" =>
        /\ CallsExactlyOnce
        /\ StopReasonHonest
        /\ OneSample

Calling == \A s \in Samples : Ordered(sent[s], s)

IInv == TypeOK /\ Calling /\ WhileFirst /\ WhileSecond /\ WhileReplay /\ WhenDone

\* A converter's buffer has its type.
LEMMA BoxType ==
    ASSUME NEW c, Ready(c)
    PROVE  Box(c) \in Boxes /\ Box(c).tools = c.tools
BY DEF Ready, Converters, Box, Boxes

\* What is told has an origin: the sample its chunk is from.
LEMMA FromKept ==
    ASSUME NEW c, Live(c), NEW d, NEW ch, Handled(d, c, ch),
           NEW kind, NEW s, From(c, kind, s), ch.body = kind => ch.from = s
    PROVE  From(d, kind, s)
<1>1. CASE d.wire = c.wire
  BY <1>1 DEF From
<1>2. CASE d.wire = Saying(Append(c.wire.blocks, [kind |-> ch.body, from |-> ch.from]),
                           TRUE, FALSE)
           /\ ch.body \in {"text", "thinking"}
  <2> DEFINE bs == c.wire.blocks
             b == [kind |-> ch.body, from |-> ch.from]
             more == Append(bs, b)
  <2>1. bs \in Seq(Narration)
    BY ReadyWire DEF Live
  <2>2. d.wire.blocks = more
    BY <1>2 DEF Saying
  <2>3. b.kind = kind => b.from = s
    OBVIOUS
  <2>4. /\ DOMAIN more = 1 .. Len(bs) + 1 /\ DOMAIN bs = 1 .. Len(bs)
        /\ \A i \in 1 .. Len(bs) : more[i] = bs[i]
        /\ more[Len(bs) + 1] = b
        /\ Len(bs) \in Nat
    <3> HIDE DEF bs, b
    <3>1. QED
      BY <2>1
  <2>5. ASSUME NEW i \in DOMAIN more, more[i].kind = kind
        PROVE  more[i].from = s
    <3>1. CASE i \in 1 .. Len(bs)
      BY <2>4, <2>5, <3>1 DEF From
    <3>2. CASE i = Len(bs) + 1
      BY <2>3, <2>4, <2>5, <3>2
    <3>3. QED
      BY <2>4, <3>1, <3>2
  <2>6. QED
    BY <2>2, <2>5 DEF From
<1>3. QED
  BY <1>1, <1>2 DEF Handled, Grows

\* The message that ends the turn: what finalizing converter c makes true,
\* when its buffered calls are those of sample n and n is the one that counts.
LEMMA ConcludeDone ==
    ASSUME TypeOK, Calling, UNCHANGED sent, Won' \in BOOLEAN,
           NEW c, Ready(c), conv' = Finalize(c),
           NEW n, n = IF Won' THEN 2 ELSE 1,
           Buffered(Box(c), sent[n]), From(c, "thinking", n),
           NEW x \in Samples, From(c, "text", x), ~Won' => x = 1
    PROVE  WhenDone'
<1> DEFINE calls == sent[n]
           d == Finalize(c)
           t == Box(c)
<1>1. n \in Samples
  BY DEF Samples
<1>2. calls \in Seq(SentCalls) /\ Ordered(calls, n) /\ Buffered(t, calls)
  BY <1>1 DEF TypeOK, Sendings, Calling
<1>3. t \in Boxes /\ t.tools = c.tools
  BY BoxType
<1>4. sent'[IF Won' THEN 2 ELSE 1] = calls
  OBVIOUS
<1>5. CallsExactlyOnce'
  <2> DEFINE delivered == Calls(d.wire) \o d.dropped
  <2>1. delivered = Calls(Finalize(c).wire) \o Finalize(c).dropped
    OBVIOUS
  <2> HIDE DEF delivered, calls
  <2>2. AllThere(delivered, calls)
    BY <1>2, <2>1, FinalOnce
  <2>3. Delivered' = delivered
    BY DEF Delivered, wire, delivered
  <2>4. Source' = calls
    BY <1>4 DEF Source
  <2>5. QED
    BY <2>2, <2>3, <2>4 DEF CallsExactlyOnce, AllThere, Covers
<1>6. StopReasonHonest'
  BY FinalReason DEF StopReasonHonest, wire
<1>7. OneSample'
  <2>1. ASSUME NEW b \in ToSet(d.wire.blocks)
        PROVE  /\ b.kind = "text" => Origin(b) = x
               /\ b.kind # "text" => Origin(b) = n
    <3>1. PICK i \in DOMAIN d.wire.blocks : b = d.wire.blocks[i]
      BY <2>1 DEF ToSet
    <3>2. \/ \E k \in DOMAIN c.wire.blocks : b = c.wire.blocks[k]
          \/ \E k \in DOMAIN c.tools : b = CallBlock(c.tools[k])
      BY <3>1, FinalBlocks
    <3>3. CASE \E k \in DOMAIN c.wire.blocks : b = c.wire.blocks[k]
      <4>1. PICK k \in DOMAIN c.wire.blocks : b = c.wire.blocks[k]
        BY <3>3
      <4>2. b \in Narration
        <5>1. c.wire.blocks \in Seq(Narration)
          BY ReadyWire
        <5>2. QED
          BY <4>1, <5>1
      <4>3. b.kind \in {"text", "thinking"} /\ Origin(b) = b.from
        BY <4>2 DEF Narration, Origin
      <4>4. /\ b.kind = "text" => b.from = x
            /\ b.kind = "thinking" => b.from = n
        BY <4>1 DEF From
      <4>5. QED
        BY <4>3, <4>4
    <3>4. CASE \E k \in DOMAIN c.tools : b = CallBlock(c.tools[k])
      <4>1. PICK k \in DOMAIN t.tools : b = CallBlock(t.tools[k])
        BY <1>3, <3>4
      <4>2. DOMAIN calls = DOMAIN t.tools
        BY <1>2, <1>3 DEF Boxes, Buffered
      <4>3. b.kind = "tool_use" /\ Origin(b) = n
        BY <1>1, <1>2, <4>1, <4>2, FinalOrigin, ZenonT(60)
      <4>4. QED
        BY <4>3
    <3>5. QED
      BY <3>2, <3>3, <3>4
  <2>2. wire' = d.wire
    BY DEF wire
  <2> HIDE DEF d
  <2>3. QED
    BY <2>1, <2>2 DEF OneSample
<1>8. QED
  BY <1>5, <1>6, <1>7 DEF WhenDone

----------------------------------------------------------------------------
(* The initial states, and the actions one by one.                         *)

LEMMA FreshConverter ==
    ASSUME NEW names \in BOOLEAN
    PROVE  /\ Live(NewStreamConverter(names))
           /\ NewStreamConverter(names).tools = <<>>
           /\ NewStreamConverter(names).wire = NoMessage
           /\ \A kind, s : From(NewStreamConverter(names), kind, s)
           /\ Buffered(Box(NewStreamConverter(names)), <<>>)
<1> DEFINE c == NewStreamConverter(names)
<1>1. c \in Converters
  <2>1. NoMessage \in Tellings
    BY DEF NoMessage, Tellings
  <2>2. legacyFunctionCallIndex \in Int /\ "" \in Said
    BY DEF legacyFunctionCallIndex, Said
  <2>3. <<>> \in Seq(Buffers)
    OBVIOUS
  <2> DEFINE none == <<>>
             key == legacyFunctionCallIndex
             message == NoMessage
  <2>4. none \in Seq(Buffers) /\ none \in {<<>>} /\ key \in Int /\ message \in Tellings
    BY <2>1, <2>2, <2>3
  <2>5. c = [declared |-> names, cur |-> "none", next |-> 0, text |-> FALSE,
             reasoning |-> FALSE, tools |-> none, minKey |-> key, finish |-> "",
             dropped |-> none, finalized |-> FALSE, stop |-> "none",
             wire |-> message]
    BY DEF NewStreamConverter
  <2> DEFINE cur == "none"
             empty == ""
             stop == "none"
             no == FALSE
  <2>6. /\ cur \in {"none", "text", "thinking"} /\ empty \in Said /\ stop \in {"none"}
        /\ no \in BOOLEAN /\ no \in {FALSE} /\ 0 \in Nat
    BY <2>2
  <2>7. c = [declared |-> names, cur |-> cur, next |-> 0, text |-> no,
             reasoning |-> no, tools |-> none, minKey |-> key, finish |-> empty,
             dropped |-> none, finalized |-> no, stop |-> stop, wire |-> message]
    BY <2>5
  <2> HIDE DEF none, key, message, cur, empty, stop, no, c
  <2>8. QED
    BY <2>4, <2>6, <2>7 DEF Converters
<1>2. /\ c.tools = <<>> /\ c.minKey = -1 /\ c.wire = NoMessage
      /\ c.cur = "none" /\ c.next = 0
  BY DEF NewStreamConverter, legacyFunctionCallIndex
<1>3. NoMessage.blocks = <<>> /\ NoMessage.open = FALSE /\ NoMessage.failed = FALSE
  BY DEF NoMessage
<1> HIDE DEF c
<1>4. Live(c)
  BY <1>1, <1>2, <1>3 DEF Live, Ready, InStep, Remembers
<1>5. \A kind, s : From(c, kind, s)
  BY <1>2, <1>3 DEF From
<1>6. Buffered(Box(c), <<>>)
  BY <1>2 DEF Box, Buffered
<1>7. QED
  BY <1>2, <1>4, <1>5, <1>6 DEF c

LEMMA InitInv == Init => IInv
<1> SUFFICES ASSUME Init
             PROVE  IInv
  OBVIOUS
<1>1. PICK names \in BOOLEAN : /\ conv = NewStreamConverter(names)
                               /\ candidate = NewStreamConverter(names)
  BY DEF Init
<1>2. sent \in Sendings /\ sent[1] = <<>> /\ sent[2] = <<>>
  <2>1. <<>> \in Seq(SentCalls)
    OBVIOUS
  <2>2. QED
    BY <2>1 DEF Init, Sendings, Samples
<1>3. count \in [Samples -> 0 .. MaxChunks]
  <2>1. 0 \in 0 .. MaxChunks
    BY ChatAssumption
  <2>2. QED
    BY <2>1 DEF Init
<1>4. TypeOK
  <2>1. chunks \in Seq(Chunks)
    BY DEF Init
  <2>2. pc = "first" /\ why = "none" /\ enabled \in BOOLEAN /\ keepText = FALSE
        /\ big = FALSE /\ ended = {}
    BY DEF Init
  <2>3. QED
    BY <1>2, <1>3, <2>1, <2>2 DEF TypeOK
<1>5. Calling
  BY <1>2 DEF Calling, Samples, Ordered
<1>6. /\ Live(conv) /\ conv.tools = <<>> /\ Buffered(Box(conv), <<>>)
      /\ From(conv, "text", 1) /\ From(conv, "thinking", 1)
  BY <1>1, FreshConverter
<1>7. Live(candidate) /\ candidate.tools = <<>> /\ Buffered(Box(candidate), <<>>)
  BY <1>1, FreshConverter
<1>8. WhileFirst
  BY <1>2, <1>6, <1>7 DEF Init, WhileFirst
<1>9. WhileSecond /\ WhileReplay /\ WhenDone
  BY DEF Init, WhileSecond, WhileReplay, WhenDone
<1>10. QED
  BY <1>4, <1>5, <1>8, <1>9 DEF IInv

\* What sending offer o of sample s leaves of the upstream.
LEMMA Sends ==
    ASSUME TypeOK, Calling, NEW s \in Samples, NEW o \in Offers(s), Send(s, o),
           NEW t \in Boxes, Buffered(t, sent[s])
    PROVE  /\ Offered(o, s, t)
           /\ sent' \in Sendings /\ sent'[s] = o.delta.calls
           /\ \A r \in Samples : r # s => sent'[r] = sent[r]
           /\ Calling'
           /\ count' \in [Samples -> 0 .. MaxChunks] /\ ended' \subseteq Samples
<1>1. sent \in Sendings /\ Ordered(sent[s], s)
  BY DEF TypeOK, Calling
<1>2. Offered(o, s, t)
  BY <1>1, EveryOffer
<1>3. o.delta.calls \in Seq(SentCalls) /\ Ordered(o.delta.calls, s)
  BY <1>2 DEF Offered
<1>4. /\ sent' \in Sendings /\ sent'[s] = o.delta.calls
      /\ \A r \in Samples : r # s => sent'[r] = sent[r]
  BY <1>1, <1>3 DEF Send, Sendings
<1>5. Calling'
  BY <1>3, <1>4 DEF Calling
<1>6. count' \in [Samples -> 0 .. MaxChunks]
  <2>1. count[s] \in 0 .. MaxChunks /\ count[s] < MaxChunks /\ MaxChunks \in Nat
    BY ChatAssumption DEF TypeOK, Send
  <2>2. count[s] + 1 \in 0 .. MaxChunks
    BY <2>1
  <2>3. QED
    BY <2>2 DEF TypeOK, Send
<1>7. ended' \subseteq Samples
  BY DEF TypeOK, Send
<1>8. QED
  BY <1>2, <1>4, <1>5, <1>6, <1>7

\* A chunk of the first sample is told, and what is sent stays in step with
\* what is buffered.
LEMMA RelayTells ==
    ASSUME IInv, RelayChunk
    PROVE  /\ \E ch \in Chunks : /\ ch.from = 1 /\ Handled(conv', conv, ch)
                                 /\ Buffered(Fed(Box(conv), ch), sent'[1])
           /\ sent' \in Sendings /\ sent'[2] = sent[2] /\ Calling'
           /\ count' \in [Samples -> 0 .. MaxChunks] /\ ended' \subseteq Samples
           /\ big' \in BOOLEAN
<1>1. PICK o \in Offers(1) :
        /\ Send(1, o)
        /\ conv' = HandleChunk(conv, Chunk(1, o))
        /\ big' = (big \/ o.delta.body = "usage")
  BY DEF RelayChunk
<1>2. pc = "first" /\ UNCHANGED <<pc, why, enabled, candidate, chunks, keepText>>
  BY DEF RelayChunk
<1>3. TypeOK /\ Calling /\ WhileFirst
  BY DEF IInv
<1> DEFINE ch == Chunk(1, o)
           t == Box(conv)
<1>4. /\ Live(conv) /\ From(conv, "text", 1) /\ From(conv, "thinking", 1)
      /\ Buffered(t, sent[1]) /\ t \in Boxes
  BY <1>2, <1>3, BoxType DEF WhileFirst, Live
<1>5. 1 \in Samples /\ 2 \in Samples
  BY DEF Samples
<1> HIDE DEF t
<1>6. /\ Offered(o, 1, t)
      /\ sent' \in Sendings /\ sent'[1] = o.delta.calls
      /\ sent'[2] = sent[2]
      /\ Calling'
      /\ count' \in [Samples -> 0 .. MaxChunks] /\ ended' \subseteq Samples
  BY <1>1, <1>3, <1>4, <1>5, Sends
<1>7. /\ ch \in Chunks /\ ch.from = 1
      /\ Fed(t, ch) \in Boxes /\ Buffered(Fed(t, ch), sent'[1])
  BY <1>6 DEF Offered
<1> HIDE DEF ch
<1>8. Handled(conv', conv, ch)
  <2>1. ch.body = "tool" => bufferTool(Box(conv), ch.frag) \in Boxes
    BY <1>7 DEF Fed, t
  <2>2. QED
    BY <1>1, <1>4, <1>7, <2>1, HandlesChunk DEF ch
<1>9. big' \in BOOLEAN
  BY <1>1, <1>3 DEF TypeOK
<1>10. QED
  BY <1>6, <1>7, <1>8, <1>9 DEF t

LEMMA RelayChunkKeeps == IInv /\ RelayChunk => IInv'
<1> SUFFICES ASSUME IInv, RelayChunk
             PROVE  IInv'
  OBVIOUS
<1>1. PICK ch \in Chunks : /\ ch.from = 1 /\ Handled(conv', conv, ch)
                           /\ Buffered(Fed(Box(conv), ch), sent'[1])
  BY RelayTells
<1>2. /\ sent' \in Sendings /\ sent'[2] = sent[2] /\ Calling'
      /\ count' \in [Samples -> 0 .. MaxChunks] /\ ended' \subseteq Samples
      /\ big' \in BOOLEAN
  BY RelayTells
<1>3. pc = "first" /\ UNCHANGED <<pc, why, enabled, candidate, chunks, keepText>>
  BY DEF RelayChunk
<1>4. TypeOK /\ WhileFirst
  BY DEF IInv
<1>5. Live(conv) /\ From(conv, "text", 1) /\ From(conv, "thinking", 1)
  BY <1>3, <1>4 DEF WhileFirst
<1>6. /\ Live(conv') /\ From(conv', "text", 1) /\ From(conv', "thinking", 1)
      /\ Buffered(Box(conv'), sent'[1])
  BY <1>1, <1>5, FromKept DEF Handled
<1>7. WhileFirst'
  BY <1>2, <1>3, <1>4, <1>6 DEF WhileFirst
<1>8. TypeOK'
  BY <1>2, <1>3, <1>4 DEF TypeOK
<1>9. WhileSecond' /\ WhileReplay' /\ WhenDone'
  BY <1>3 DEF WhileSecond, WhileReplay, WhenDone
<1>10. QED
  BY <1>2, <1>7, <1>8, <1>9 DEF IInv

LEMMA BufferChunkKeeps == IInv /\ BufferChunk => IInv'
<1> SUFFICES ASSUME IInv, BufferChunk
             PROVE  IInv'
  OBVIOUS
<1>1. PICK o \in Offers(2) :
        /\ Send(2, o)
        /\ candidate' = HandleChunk(candidate, Chunk(2, o))
        /\ chunks' = Append(chunks, Chunk(2, o))
  BY DEF BufferChunk
<1>2. pc = "second" /\ UNCHANGED <<pc, why, enabled, conv, keepText, big>>
  BY DEF BufferChunk
<1>3. TypeOK /\ Calling /\ WhileSecond
  BY DEF IInv
<1> DEFINE ch == Chunk(2, o)
           t == Box(candidate)
<1>4. /\ Live(candidate) /\ FromSecond
      /\ Buffered(t, sent[2]) /\ t \in Boxes
      /\ Trail(Box(conv), chunks, t)
  BY <1>2, <1>3, BoxType DEF WhileSecond, Live
<1>5. 1 \in Samples /\ 2 \in Samples
  BY DEF Samples
<1> HIDE DEF t
<1>6. /\ Offered(o, 2, t)
      /\ sent' \in Sendings /\ sent'[2] = o.delta.calls
      /\ sent'[1] = sent[1]
      /\ Calling'
      /\ count' \in [Samples -> 0 .. MaxChunks] /\ ended' \subseteq Samples
  BY <1>1, <1>3, <1>4, <1>5, Sends
<1>7. /\ ch \in Chunks /\ ch.from = 2
      /\ Fed(t, ch) \in Boxes /\ Buffered(Fed(t, ch), sent'[2])
  BY <1>6 DEF Offered
<1> HIDE DEF ch
<1>8. Handled(candidate', candidate, ch)
  <2>1. ch.body = "tool" => bufferTool(Box(candidate), ch.frag) \in Boxes
    BY <1>7 DEF Fed, t
  <2>2. QED
    BY <1>1, <1>4, <1>7, <2>1, HandlesChunk DEF ch
<1>9. Live(candidate') /\ Box(candidate') = Fed(t, ch)
  BY <1>8 DEF Handled, t
<1>10. chunks \in Seq(Chunks) /\ chunks' = Append(chunks, ch)
  BY <1>1, <1>3 DEF TypeOK, ch
<1>11. chunks' \in Seq(Chunks) /\ FromSecond'
  <2>1. /\ chunks' \in Seq(Chunks) /\ Len(chunks') = Len(chunks) + 1
        /\ \A i \in 1 .. Len(chunks) : chunks'[i] = chunks[i]
        /\ chunks'[Len(chunks) + 1] = ch
    BY <1>7, <1>10, AppendProperties
  <2>2. DOMAIN chunks' = 1 .. Len(chunks) + 1 /\ DOMAIN chunks = 1 .. Len(chunks)
        /\ Len(chunks) \in Nat
    BY <1>10, <2>1
  <2>3. \A i \in 1 .. Len(chunks) + 1 : i \in 1 .. Len(chunks) \/ i = Len(chunks) + 1
    BY <2>2
  <2>4. QED
    BY <1>4, <1>7, <2>1, <2>2, <2>3 DEF FromSecond
<1>12. Trail(Box(conv), chunks', Box(candidate'))
  <2> DEFINE before == Box(conv)
  <2> HIDE DEF before
  <2>1. Trail(before, chunks, t)
    BY <1>4 DEF before
  <2>2. Trail(before, Append(chunks, ch), Fed(t, ch))
    BY <1>7, <1>10, <2>1, TrailMore
  <2>3. QED
    BY <1>9, <1>10, <2>2 DEF before
<1>13. WhileSecond'
  BY <1>2, <1>3, <1>6, <1>7, <1>9, <1>11, <1>12 DEF WhileSecond
<1>14. TypeOK'
  BY <1>1, <1>2, <1>3, <1>6, <1>11 DEF TypeOK
<1>15. WhileFirst' /\ WhileReplay' /\ WhenDone'
  BY <1>2 DEF WhileFirst, WhileReplay, WhenDone
<1>16. QED
  BY <1>6, <1>13, <1>14, <1>15 DEF IInv

\* The turn stays with the first sample: what is concluded is conv, with or
\* without an error.
LEMMA FirstConcludes ==
    ASSUME TypeOK, Calling, Live(conv),
           From(conv, "text", 1), From(conv, "thinking", 1),
           Buffered(Box(conv), sent[1]),
           NEW c, c = conv \/ c = EmitError(conv), Conclude(c),
           UNCHANGED sent, ~Won', Won' \in BOOLEAN
    PROVE  WhenDone'
<1>1. /\ Ready(c) /\ Box(c) = Box(conv) /\ c.wire.blocks = conv.wire.blocks
  BY ErrorTold DEF Live
<1>2. From(c, "text", 1) /\ From(c, "thinking", 1)
  BY <1>1 DEF From
<1>3. Buffered(Box(c), sent[1])
  BY <1>1
<1> DEFINE n == 1
<1>4. n = IF Won' THEN 2 ELSE 1
  OBVIOUS
<1>5. conv' = Finalize(c)
  BY DEF Conclude
<1>6. n \in Samples /\ Buffered(Box(c), sent[n])
      /\ From(c, "thinking", n) /\ From(c, "text", n) /\ (~Won' => n = 1)
  BY <1>2, <1>3 DEF Samples
<1> HIDE DEF n
<1>7. QED
  BY <1>1, <1>4, <1>5, <1>6, ConcludeDone

\* A second sample begins where nothing is buffered and nothing was thought.
LEMMA ResampleKeeps ==
    ASSUME IInv, pc = "first", conv.tools = <<>>, ~conv.reasoning,
           NEW reason \in {"aborted", "toolless"}, Resample(reason),
           UNCHANGED <<conv, enabled, candidate, chunks, keepText, big, upstream>>
    PROVE  IInv'
<1>1. TypeOK /\ Calling /\ WhileFirst
  BY DEF IInv
<1>2. /\ Live(conv) /\ Live(candidate) /\ From(conv, "text", 1)
      /\ Buffered(Box(conv), sent[1]) /\ Buffered(Box(candidate), sent[2])
      /\ candidate.tools = <<>> /\ chunks = <<>>
  BY <1>1 DEF WhileFirst
<1>3. UNCHANGED <<sent, count, ended>> /\ pc' = "second" /\ why' = reason
  BY DEF upstream, Resample
<1>4. TypeOK' /\ Calling'
  BY <1>1, <1>3 DEF TypeOK, Calling
<1>5. Box(conv) = Box(candidate)
  BY <1>2 DEF Box, Buffered
<1>6. Trail(Box(conv), <<>>, Box(candidate))
  <2>1. Box(conv) \in Boxes
    BY <1>2, BoxType DEF Live
  <2>2. QED
    BY <1>5, <2>1, TrailNone
<1>7. FromSecond'
  BY <1>2 DEF FromSecond
<1>8. WhileSecond'
  BY <1>2, <1>3, <1>6, <1>7 DEF WhileSecond
<1>9. WhileFirst' /\ WhileReplay' /\ WhenDone'
  BY <1>3 DEF WhileFirst, WhileReplay, WhenDone
<1>10. QED
  BY <1>4, <1>8, <1>9 DEF IInv

\* Nothing but the end is left to be said of a turn that is done.
LEMMA DoneKeeps ==
    ASSUME TypeOK', Calling', pc' = "done", WhenDone'
    PROVE  IInv'
BY DEF IInv, WhileFirst, WhileSecond, WhileReplay

LEMMA FirstEndsKeeps == IInv /\ FirstEnds => IInv'
<1> SUFFICES ASSUME IInv, FirstEnds
             PROVE  IInv'
  OBVIOUS
<1>1. pc = "first" /\ Verdict
      /\ UNCHANGED <<enabled, candidate, chunks, keepText, big, upstream>>
  BY DEF FirstEnds
<1>2. TypeOK /\ Calling /\ WhileFirst
  BY DEF IInv
<1>3. CASE MayResampleToolless /\ Resample("toolless") /\ UNCHANGED conv
  <2>1. conv.tools = <<>> /\ ~conv.reasoning
    BY <1>3 DEF MayResampleToolless, HasToolUse
  <2>2. QED
    BY <1>1, <1>3, <2>1, ResampleKeeps
<1>4. CASE Conclude(conv) /\ UNCHANGED why
  <2>1. /\ Live(conv) /\ Live(candidate)
        /\ From(conv, "text", 1) /\ From(conv, "thinking", 1)
        /\ Buffered(Box(conv), sent[1])
    BY <1>1, <1>2 DEF WhileFirst
  <2>2. ~Won' /\ Won' \in BOOLEAN
    BY <1>1, <2>1 DEF Won, Live, Ready, Converters
  <2>3. UNCHANGED <<sent, count, ended>> /\ pc' = "done"
    BY <1>1, <1>4 DEF upstream, Conclude
  <2>4. WhenDone'
    BY <1>2, <1>4, <2>1, <2>2, <2>3, FirstConcludes
  <2>5. TypeOK' /\ Calling'
    BY <1>1, <1>2, <1>4, <2>3 DEF TypeOK, Calling
  <2>6. QED
    BY <2>3, <2>4, <2>5, DoneKeeps
<1>5. QED
  BY <1>1, <1>3, <1>4 DEF Verdict

LEMMA FirstBreaksKeeps == IInv /\ FirstBreaks => IInv'
<1> SUFFICES ASSUME IInv, FirstBreaks
             PROVE  IInv'
  OBVIOUS
<1>1. pc = "first" /\ UNCHANGED <<enabled, candidate, chunks, keepText, big, upstream>>
  BY DEF FirstBreaks
<1>2. TypeOK /\ Calling /\ WhileFirst
  BY DEF IInv
<1>3. CASE MayResampleAborted /\ Resample("aborted") /\ UNCHANGED conv
  <2>1. conv.tools = <<>> /\ ~conv.reasoning
    BY <1>3 DEF MayResampleAborted, HasToolUse
  <2>2. QED
    BY <1>1, <1>3, <2>1, ResampleKeeps
<1>4. CASE Conclude(EmitError(conv)) /\ UNCHANGED why
  <2>1. /\ Live(conv) /\ Live(candidate)
        /\ From(conv, "text", 1) /\ From(conv, "thinking", 1)
        /\ Buffered(Box(conv), sent[1])
    BY <1>1, <1>2 DEF WhileFirst
  <2>2. ~Won' /\ Won' \in BOOLEAN
    BY <1>1, <2>1 DEF Won, Live, Ready, Converters
  <2>3. UNCHANGED <<sent, count, ended>> /\ pc' = "done"
    BY <1>1, <1>4 DEF upstream, Conclude
  <2>4. WhenDone'
    BY <1>2, <1>4, <2>1, <2>2, <2>3, FirstConcludes
  <2>5. TypeOK' /\ Calling'
    BY <1>1, <1>2, <1>4, <2>3 DEF TypeOK, Calling
  <2>6. QED
    BY <2>3, <2>4, <2>5, DoneKeeps
<1>5. QED
  BY <1>3, <1>4 DEF FirstBreaks

\* The second sample is given up.
LEMMA UnrescuedKeeps ==
    ASSUME IInv, pc = "second", Unrescued, ~Won', Won' \in BOOLEAN
    PROVE  IInv'
<1>1. TypeOK /\ Calling /\ WhileSecond
  BY DEF IInv
<1>2. /\ Live(conv) /\ From(conv, "text", 1) /\ ~conv.reasoning
      /\ Buffered(Box(conv), sent[1])
  BY <1>1 DEF WhileSecond
<1>3. From(conv, "thinking", 1)
  BY <1>2 DEF Live, Remembers, From
<1> DEFINE c == IF why = "aborted" THEN EmitError(conv) ELSE conv
<1>4. Conclude(c) /\ (c = conv \/ c = EmitError(conv))
  BY DEF Unrescued
<1>5. /\ UNCHANGED <<sent, count, ended>> /\ chunks' = <<>>
      /\ UNCHANGED <<why, enabled, keepText, big>> /\ pc' = "done"
  BY DEF Unrescued, upstream, Conclude
<1> HIDE DEF c
<1>6. WhenDone'
  BY <1>1, <1>2, <1>3, <1>4, <1>5, FirstConcludes
<1>7. TypeOK' /\ Calling'
  <2>1. chunks' \in Seq(Chunks)
    BY <1>5
  <2>2. QED
    BY <1>1, <1>5, <2>1 DEF TypeOK, Calling
<1>8. QED
  BY <1>5, <1>6, <1>7, DoneKeeps

LEMMA SecondFailsKeeps == IInv /\ SecondFails => IInv'
<1> SUFFICES ASSUME IInv, SecondFails
             PROVE  IInv'
  OBVIOUS
<1>1. pc = "second" /\ Unrescued /\ UNCHANGED candidate
  BY DEF SecondFails
<1>2. Live(candidate)
  BY <1>1 DEF IInv, WhileSecond
<1>3. ~Won' /\ Won' \in BOOLEAN
  BY <1>1, <1>2 DEF Won, Live, Ready, Converters
<1>4. QED
  BY <1>1, <1>3, UnrescuedKeeps

LEMMA SecondEndsKeeps == IInv /\ SecondEnds => IInv'
<1> SUFFICES ASSUME IInv, SecondEnds
             PROVE  IInv'
  OBVIOUS
<1>1. pc = "second" /\ candidate' = Finalize(candidate)
  BY DEF SecondEnds
<1>2. TypeOK /\ Calling /\ WhileSecond
  BY DEF IInv
<1>3. /\ Live(conv) /\ Live(candidate) /\ From(conv, "text", 1) /\ ~conv.reasoning
      /\ Buffered(Box(candidate), sent[2]) /\ FromSecond
      /\ Trail(Box(conv), chunks, Box(candidate))
  BY <1>1, <1>2 DEF WhileSecond
<1>4. /\ Finalize(candidate).tools = candidate.tools
      /\ Finalize(candidate).minKey = candidate.minKey
      /\ Finalize(candidate).stop = Reason(candidate)
  BY <1>3, FinalizeIs DEF Live
<1>5. CASE candidate'.stop # "tool_use" /\ Unrescued
  <2>1. ~Won' /\ Won' \in BOOLEAN
    BY <1>5 DEF Won
  <2>2. QED
    BY <1>1, <1>5, <2>1, UnrescuedKeeps
<1>6. CASE /\ candidate'.stop = "tool_use"
           /\ pc' = "replay" /\ keepText' = ~conv.text
           /\ UNCHANGED <<why, enabled, conv, chunks, big, upstream>>
  <2>1. UNCHANGED <<sent, count, ended>>
    BY <1>6 DEF upstream
  <2>2. TypeOK' /\ Calling'
    BY <1>2, <1>6, <2>1 DEF TypeOK, Calling
  <2>3. Box(candidate') = Box(candidate)
    BY <1>1, <1>4 DEF Box
  <2>4. Won'
    BY <1>6 DEF Won
  <2>5. candidate'.tools # <<>>
    <3>1. candidate.tools \in Seq(Buffers)
      BY <1>3 DEF Live, Ready, Converters
    <3>2. Emitted(candidate) # <<>>
      BY <1>1, <1>4, <1>6, ReasonIs
    <3>3. Len(Emitted(candidate)) + Len(Dropped(candidate)) = Len(candidate.tools)
      BY <3>1, PickedOrNot DEF Emitted, Dropped
    <3>4. Emitted(candidate) \in Seq(Buffers) /\ Dropped(candidate) \in Seq(Buffers)
      BY <3>1, EmittedType
    <3>5. Len(candidate.tools) # 0
      <4> DEFINE a == Len(Emitted(candidate))
                 b == Len(Dropped(candidate))
      <4>1. a \in Nat /\ a # 0 /\ b \in Nat
        BY <3>2, <3>4
      <4>2. a + b = Len(candidate.tools)
        BY <3>3
      <4> HIDE DEF a, b
      <4>3. QED
        BY <4>1, <4>2
    <3>6. QED
      BY <1>1, <1>4, <3>5
  <2>6. From(conv, "text", IF keepText' THEN 2 ELSE 1)
    <3>1. CASE conv.text
      BY <1>3, <1>6, <3>1
    <3>2. CASE ~conv.text
      BY <1>3, <3>2 DEF Live, Remembers, From
    <3>3. QED
      BY <3>1, <3>2
  <2>7. From(conv, "thinking", 2)
    BY <1>3 DEF Live, Remembers, From
  <2>8. FromSecond'
    BY <1>3, <1>6 DEF FromSecond
  <2>9. WhileReplay'
    BY <1>3, <1>6, <2>1, <2>3, <2>4, <2>5, <2>6, <2>7, <2>8 DEF WhileReplay
  <2>10. WhileFirst' /\ WhileSecond' /\ WhenDone'
    BY <1>6 DEF WhileFirst, WhileSecond, WhenDone
  <2>11. QED
    BY <2>2, <2>9, <2>10 DEF IInv
<1>7. QED
  BY <1>5, <1>6 DEF SecondEnds

\* Text that is left out of the replay leaves a chunk that still is one.
LEMMA ReplayedIs ==
    ASSUME NEW ch \in Chunks, ch.from = 2
    PROVE  /\ Replayed(ch) \in Chunks /\ Replayed(ch).from = 2
           /\ Replayed(ch).frag = ch.frag
           /\ Replayed(ch).body = "tool" <=> ch.body = "tool"
           /\ Replayed(ch).body = "text" => keepText
<1>1. CASE ch.body = "text" /\ ~keepText
  <2>1. ch \in PlainChunks
    BY <1>1 DEF Chunks, ToolChunks
  <2> DEFINE r == [ch EXCEPT !.body = "none"]
  <2>2. Replayed(ch) = r
    BY <1>1 DEF Replayed
  <2>3. r \in PlainChunks /\ r.from = ch.from /\ r.frag = ch.frag /\ r.body = "none"
    BY <2>1 DEF PlainChunks
  <2> HIDE DEF r
  <2>4. QED
    BY <1>1, <2>2, <2>3 DEF Chunks
<1>2. CASE ~(ch.body = "text" /\ ~keepText)
  BY <1>2 DEF Replayed
<1>3. QED
  BY <1>1, <1>2

\* Chunk ch of the second sample is told, and the rest lead on from there.
Retells(ch) ==
    /\ ch.from = 2 /\ Handled(conv', conv, ch)
    /\ ch.body = "text" => keepText
    /\ Trail(Box(conv'), chunks', Box(candidate))

\* A kept chunk is told, and the rest lead on from what it leaves.
LEMMA ReplayTells ==
    ASSUME IInv, ReplayChunk
    PROVE  \E ch \in Chunks : Retells(ch)
<1>1. /\ pc = "replay" /\ chunks # <<>>
      /\ conv' = HandleChunk(conv, Replayed(Head(chunks)))
      /\ chunks' = Tail(chunks)
      /\ UNCHANGED <<pc, why, enabled, candidate, keepText, big, upstream>>
  BY DEF ReplayChunk
<1>2. TypeOK /\ Calling /\ WhileReplay
  BY DEF IInv
<1> DEFINE kept == Head(chunks)
           ch == Replayed(kept)
<1>3. Live(conv) /\ FromSecond /\ Trail(Box(conv), chunks, Box(candidate))
  BY <1>1, <1>2 DEF WhileReplay
<1>4. chunks \in Seq(Chunks)
  BY <1>2 DEF TypeOK
<1>5. kept \in Chunks /\ kept.from = 2
  <2>1. kept = chunks[1] /\ 1 \in DOMAIN chunks
    BY <1>1, <1>4
  <2>2. QED
    BY <1>3, <1>4, <2>1 DEF FromSecond
<1>6. /\ Fed(Box(conv), kept) \in Boxes
      /\ Trail(Fed(Box(conv), kept), Tail(chunks), Box(candidate))
  <2> DEFINE before == Box(conv)
             after == Box(candidate)
  <2>1. Trail(before, chunks, after)
    BY <1>3
  <2> HIDE DEF before, after, kept
  <2>2. Fed(before, Head(chunks)) \in Boxes
        /\ Trail(Fed(before, Head(chunks)), Tail(chunks), after)
    BY <1>1, <1>4, <2>1, TrailRest
  <2>3. QED
    BY <2>2 DEF before, after, kept
<1>7. /\ ch \in Chunks /\ ch.from = 2
      /\ Fed(Box(conv), ch) = Fed(Box(conv), kept)
      /\ ch.body = "text" => keepText
  <2> HIDE DEF kept
  <2>1. /\ ch \in Chunks /\ ch.from = 2 /\ ch.frag = kept.frag
        /\ ch.body = "tool" <=> kept.body = "tool"
        /\ ch.body = "text" => keepText
    BY <1>5, ReplayedIs
  <2> HIDE DEF ch
  <2>2. QED
    BY <2>1 DEF Fed
<1>8. conv' = HandleChunk(conv, ch)
  BY <1>1
<1> HIDE DEF ch, kept
<1>9. Handled(conv', conv, ch)
  <2>1. ch.body = "tool" => bufferTool(Box(conv), ch.frag) \in Boxes
    BY <1>6, <1>7 DEF Fed
  <2>2. QED
    BY <1>3, <1>7, <1>8, <2>1, HandlesChunk
<1>10. Live(conv') /\ Box(conv') = Fed(Box(conv), kept)
  BY <1>7, <1>9 DEF Handled
<1>11. Trail(Box(conv'), chunks', Box(candidate))
  BY <1>1, <1>6, <1>10
<1>12. QED
  BY <1>7, <1>9, <1>11 DEF Retells

LEMMA ReplayChunkKeeps == IInv /\ ReplayChunk => IInv'
<1> SUFFICES ASSUME IInv, ReplayChunk
             PROVE  IInv'
  OBVIOUS
<1>1. /\ pc = "replay" /\ chunks # <<>> /\ chunks' = Tail(chunks)
      /\ UNCHANGED <<pc, why, enabled, candidate, keepText, big, upstream>>
  BY DEF ReplayChunk
<1>2. PICK ch \in Chunks : /\ ch.from = 2 /\ Handled(conv', conv, ch)
                           /\ ch.body = "text" => keepText
                           /\ Trail(Box(conv'), chunks', Box(candidate))
  BY ReplayTells DEF Retells
<1>3. TypeOK /\ Calling /\ WhileReplay
  BY DEF IInv
<1> DEFINE text == IF keepText THEN 2 ELSE 1
<1>4. /\ Live(conv) /\ From(conv, "text", text) /\ From(conv, "thinking", 2)
      /\ Won /\ candidate.tools # <<>>
      /\ Buffered(Box(candidate), sent[2]) /\ FromSecond
  BY <1>1, <1>3 DEF WhileReplay
<1>5. Live(conv')
  BY <1>2 DEF Handled
<1>6. From(conv', "text", text)
  <2>1. ch.body = "text" => ch.from = text
    BY <1>2
  <2> HIDE DEF text
  <2>2. QED
    BY <1>2, <1>4, <2>1, FromKept
<1>7. From(conv', "thinking", 2)
  BY <1>2, <1>4, FromKept
<1>8. chunks' \in Seq(Chunks) /\ FromSecond'
  <2>1. chunks \in Seq(Chunks)
    BY <1>3 DEF TypeOK
  <2>2. /\ Tail(chunks) \in Seq(Chunks)
        /\ \A i \in DOMAIN Tail(chunks) :
              i + 1 \in DOMAIN chunks /\ Tail(chunks)[i] = chunks[i + 1]
    BY <1>1, <2>1
  <2>3. QED
    BY <1>1, <1>4, <2>2 DEF FromSecond
<1>9. UNCHANGED <<sent, count, ended>>
  BY <1>1 DEF upstream
<1>10. WhileReplay'
  BY <1>1, <1>2, <1>4, <1>5, <1>6, <1>7, <1>8, <1>9 DEF WhileReplay, Won
<1>11. TypeOK' /\ Calling'
  BY <1>1, <1>3, <1>8, <1>9 DEF TypeOK, Calling
<1>12. WhileFirst' /\ WhileSecond' /\ WhenDone'
  BY <1>1 DEF WhileFirst, WhileSecond, WhenDone
<1>13. QED
  BY <1>10, <1>11, <1>12 DEF IInv

LEMMA RescuedKeeps == IInv /\ Rescued => IInv'
<1> SUFFICES ASSUME IInv, Rescued
             PROVE  IInv'
  OBVIOUS
<1>1. /\ pc = "replay" /\ chunks = <<>>
      /\ UNCHANGED <<enabled, candidate, chunks, keepText, big, upstream>>
  BY DEF Rescued
<1>2. TypeOK /\ Calling /\ WhileReplay
  BY DEF IInv
<1> DEFINE text == IF keepText THEN 2 ELSE 1
           n == 2
<1>3. /\ Live(conv) /\ From(conv, "text", text) /\ From(conv, "thinking", 2)
      /\ Won /\ candidate.tools # <<>>
      /\ Buffered(Box(candidate), sent[2])
      /\ Trail(Box(conv), <<>>, Box(candidate))
  BY <1>1, <1>2 DEF WhileReplay
<1>4. Box(conv) = Box(candidate)
  BY <1>3, TrailNone
<1>5. conv.tools # <<>>
  BY <1>3, <1>4 DEF Box
<1>6. Conclude(conv) /\ UNCHANGED why
  BY <1>5 DEF Rescued, Verdict, MayResampleToolless, HasToolUse
<1>7. Won' /\ Won' \in BOOLEAN
  BY <1>1, <1>3 DEF Won
<1>8. UNCHANGED <<sent, count, ended>> /\ pc' = "done"
  BY <1>1, <1>6 DEF upstream, Conclude
<1>9. WhenDone'
  <2>1. conv' = Finalize(conv) /\ Ready(conv)
    BY <1>3, <1>6 DEF Conclude, Live
  <2>2. /\ n = (IF Won' THEN 2 ELSE 1) /\ Buffered(Box(conv), sent[n])
        /\ From(conv, "thinking", n)
    BY <1>3, <1>4, <1>7
  <2>3. text \in Samples
    BY DEF Samples
  <2> HIDE DEF n, text
  <2>4. QED
    BY <1>2, <1>3, <1>7, <1>8, <2>1, <2>2, <2>3, ConcludeDone
<1>10. TypeOK' /\ Calling'
  BY <1>1, <1>2, <1>6, <1>8 DEF TypeOK, Calling
<1>11. QED
  BY <1>8, <1>9, <1>10, DoneKeeps

LEMMA StutterKeeps == IInv /\ UNCHANGED vars => IInv'
<1> SUFFICES ASSUME IInv, UNCHANGED vars
             PROVE  IInv'
  OBVIOUS
<1>1. UNCHANGED <<pc, why, enabled, conv, candidate, chunks, keepText, big, sent,
                  count, ended>>
  BY DEF vars, stream, upstream
<1>2. TypeOK' /\ Calling'
  BY <1>1 DEF IInv, TypeOK, Calling
<1>3. WhileFirst' /\ WhileSecond'
  BY <1>1 DEF IInv, WhileFirst, WhileSecond, FromSecond
<1>4. WhileReplay'
  BY <1>1 DEF IInv, WhileReplay, FromSecond, Won
<1>5. WhenDone'
  <2>1. wire' = wire /\ Source' = Source /\ Delivered' = Delivered
    BY <1>1 DEF wire, Source, Delivered, Won
  <2>2. CallsExactlyOnce => CallsExactlyOnce'
    BY <1>1, <2>1 DEF CallsExactlyOnce
  <2>3. StopReasonHonest /\ OneSample => StopReasonHonest' /\ OneSample'
    BY <1>1 DEF StopReasonHonest, OneSample, wire, Won
  <2>4. QED
    BY <1>1, <2>2, <2>3 DEF IInv, WhenDone
<1>6. QED
  BY <1>2, <1>3, <1>4, <1>5 DEF IInv

LEMMA Inductive == IInv /\ [Next]_vars => IInv'
<1> SUFFICES ASSUME IInv, [Next]_vars
             PROVE  IInv'
  OBVIOUS
<1>1. CASE RelayChunk
  BY <1>1, RelayChunkKeeps
<1>2. CASE FirstEnds
  BY <1>2, FirstEndsKeeps
<1>3. CASE FirstBreaks
  BY <1>3, FirstBreaksKeeps
<1>4. CASE BufferChunk
  BY <1>4, BufferChunkKeeps
<1>5. CASE SecondFails
  BY <1>5, SecondFailsKeeps
<1>6. CASE SecondEnds
  BY <1>6, SecondEndsKeeps
<1>7. CASE ReplayChunk
  BY <1>7, ReplayChunkKeeps
<1>8. CASE Rescued
  BY <1>8, RescuedKeeps
<1>9. CASE UNCHANGED vars
  BY <1>9, StutterKeeps
<1>10. QED
  BY <1>1, <1>2, <1>3, <1>4, <1>5, <1>6, <1>7, <1>8, <1>9 DEF Next

LEMMA Invariant == Spec => []IInv
<1>1. QED
  BY InitInv, Inductive, PTL DEF Spec

\* Before the end the message holds narration only, of one sample each.
LEMMA NarratedOneSample ==
    ASSUME Live(conv), NEW x, From(conv, "text", x),
           From(conv, "thinking", IF Won THEN 2 ELSE 1), ~Won => x = 1
    PROVE  OneSample
<1> DEFINE n == IF Won THEN 2 ELSE 1
<1>1. ASSUME NEW b \in ToSet(wire.blocks)
      PROVE  /\ b.kind = "text" => Origin(b) = x
             /\ b.kind # "text" => Origin(b) = n
  <2>1. conv.wire.blocks \in Seq(Narration)
    BY ReadyWire DEF Live
  <2>2. PICK k \in DOMAIN conv.wire.blocks : b = conv.wire.blocks[k]
    BY DEF ToSet, wire
  <2>3. b \in Narration
    BY <2>1, <2>2
  <2>4. b.kind \in {"text", "thinking"} /\ Origin(b) = b.from
    BY <2>3 DEF Narration, Origin
  <2>5. /\ b.kind = "text" => b.from = x
        /\ b.kind = "thinking" => b.from = n
    BY <2>2 DEF From
  <2> HIDE DEF n
  <2>6. QED
    BY <2>4, <2>5
<1>2. QED
  BY <1>1 DEF OneSample

LEMMA InvOneSample == IInv => OneSample
<1> SUFFICES ASSUME IInv
             PROVE  OneSample
  OBVIOUS
<1>1. pc \in {"first", "second", "replay", "done"}
  BY DEF IInv, TypeOK
<1>2. CASE pc = "first"
  <2>1. /\ Live(conv) /\ Live(candidate)
        /\ From(conv, "text", 1) /\ From(conv, "thinking", 1)
    BY <1>2 DEF IInv, WhileFirst
  <2>2. ~Won
    BY <2>1 DEF Live, Ready, Converters, Won
  <2>3. QED
    BY <2>1, <2>2, NarratedOneSample
<1>3. CASE pc = "second"
  <2>1. Live(conv) /\ Live(candidate) /\ From(conv, "text", 1) /\ ~conv.reasoning
    BY <1>3 DEF IInv, WhileSecond
  <2>2. ~Won
    BY <2>1 DEF Live, Ready, Converters, Won
  <2>3. From(conv, "thinking", 1)
    BY <2>1 DEF Live, Remembers, From
  <2>4. QED
    BY <2>1, <2>2, <2>3, NarratedOneSample
<1>4. CASE pc = "replay"
  <2> DEFINE x == IF keepText THEN 2 ELSE 1
  <2>1. Live(conv) /\ From(conv, "text", x) /\ From(conv, "thinking", 2) /\ Won
    BY <1>4 DEF IInv, WhileReplay
  <2> HIDE DEF x
  <2>2. QED
    BY <2>1, NarratedOneSample
<1>5. CASE pc = "done"
  BY <1>5 DEF IInv, WhenDone
<1>6. QED
  BY <1>1, <1>2, <1>3, <1>4, <1>5

\* A converter that is still fed has its type.
Converting ==
    /\ pc # "done" => conv \in Converters
    /\ pc \in {"first", "second"} => candidate \in Converters

\* Type correctness of the handler's state, whatever the bounds are, with the
\* converters of both samples for as long as they are fed (handleStreamResponse).
THEOREM TypeCorrect == Spec => [](TypeOK /\ Converting)
<1>1. IInv => TypeOK /\ Converting
  BY DEF IInv, TypeOK, Converting, WhileFirst, WhileSecond, WhileReplay, Live, Ready
<1>2. QED
  BY <1>1, Invariant, PTL

\* Every call of the sample that counts reaches the client or is recorded as
\* dropped, once, for any number of calls and chunks, and so does every piece
\* of its arguments that came: with its own call, or, when that shares its
\* index with an earlier one, with the first call of the index (bufferTool,
\* emitBufferedTool and the replay of a second sample).
THEOREM CallsDelivered == Spec => []CallsExactlyOnce
<1>1. IInv => CallsExactlyOnce
  BY DEF IInv, WhenDone, CallsExactlyOnce
<1>2. QED
  BY <1>1, Invariant, PTL

\* The client is told to run tools when it was given calls and only then,
\* unless the upstream says it was cut short (Finalize).
THEOREM StopReasonTold == Spec => []StopReasonHonest
<1>1. IInv => StopReasonHonest
  BY DEF IInv, WhenDone, StopReasonHonest
<1>2. QED
  BY <1>1, Invariant, PTL

\* A message is one sample's turn at every moment, with a second sample and
\* without (maybeResampleToollessChatStream, maybeResampleAbortedChatStream).
THEOREM OneSampleTold == Spec => []OneSample
BY Invariant, InvOneSample, PTL

----------------------------------------------------------------------------
(* The message contract.                                                   *)

\* A module that is instantiated has operators of its own, with the same
\* definitions.
LEMMA SameCalls ==
    ASSUME NEW m
    PROVE  MessageContract!Calls(m) = Calls(m)
BY DEF MessageContract!Calls, Calls, MessageContract!Picked, Picked

LEMMA ContractGoing ==
    ASSUME Live(conv)
    PROVE  MessageContract!Going
<1>1. conv.wire \in Tellings /\ ~conv.wire.failed
  BY DEF Live, Ready, Converters
<1>2. QED
  BY <1>1 DEF Tellings, wire, MessageContract!Going, MessageContract!Streaming

\* A message told on, up to more and with a block that is open.
Longer(message, more, open) == [message EXCEPT !.blocks = more, !.open = open]

LEMMA LongerIs ==
    ASSUME NEW A, NEW B, NEW C, NEW D, NEW E, NEW F,
           NEW m \in [blocks : A, open : B, stop : C, ended : D, failed : E, valid : F],
           NEW d \in [blocks : A, open : B, stop : C, ended : D, failed : E, valid : F],
           d.stop = m.stop, d.ended = m.ended, d.failed = m.failed, d.valid = m.valid
    PROVE  d = Longer(m, d.blocks, d.open)
<1>1. [m EXCEPT !.blocks = d.blocks]
        \in [blocks : A, open : B, stop : C, ended : D, failed : E, valid : F]
  OBVIOUS
<1>2. d = [[m EXCEPT !.blocks = d.blocks] EXCEPT !.open = d.open]
  BY <1>1
<1>3. QED
  BY <1>2 DEF Longer

LEMMA SayingMore ==
    ASSUME NEW bs, NEW open, NEW more
    PROVE  Longer(Saying(bs, open, FALSE), more, TRUE) = Saying(more, TRUE, FALSE)
<1> DEFINE A == {bs, more}
           B == {open, TRUE}
           m == Saying(bs, open, FALSE)
           d == Saying(more, TRUE, FALSE)
<1>1. /\ m \in [blocks : A, open : B, stop : {"none"}, ended : {FALSE},
                failed : {FALSE}, valid : {TRUE}]
      /\ d \in [blocks : A, open : B, stop : {"none"}, ended : {FALSE},
                failed : {FALSE}, valid : {TRUE}]
  BY DEF Saying
<1>2. /\ d.stop = m.stop /\ d.ended = m.ended /\ d.failed = m.failed
      /\ d.valid = m.valid /\ d.blocks = more /\ d.open = TRUE
  BY DEF Saying
<1> HIDE DEF A, B, m, d
<1>3. d = Longer(m, d.blocks, d.open)
  BY <1>1, <1>2, LongerIs
<1>4. d = Longer(m, more, TRUE)
  BY <1>2, <1>3
<1>5. QED
  BY <1>4 DEF d, m

\* A chunk that is told narrates, or says nothing new.
LEMMA GrowsNarrates ==
    ASSUME Live(conv), NEW kind, NEW s, Grows(conv.wire, conv'.wire, kind, s)
    PROVE  MessageContract!Narrate \/ UNCHANGED wire
<1> DEFINE bs == conv.wire.blocks
           b == [kind |-> kind, from |-> s]
           more == Append(bs, b)
           open == conv.cur # "none"
           added == SubSeq(wire'.blocks, Len(wire.blocks) + 1, Len(wire'.blocks))
<1>1. CASE conv'.wire = conv.wire
  BY <1>1 DEF wire
<1>2. CASE /\ kind \in {"text", "thinking"}
           /\ conv.wire.open => conv.wire.blocks[Len(conv.wire.blocks)].kind # kind
           /\ conv'.wire = Saying(Append(conv.wire.blocks, [kind |-> kind, from |-> s]),
                                  TRUE, FALSE)
  <2>1. /\ conv.wire = Saying(bs, open, conv.wire.failed)
        /\ bs \in Seq(Narration) /\ conv.wire.failed = FALSE
    <3>1. Ready(conv) /\ ~conv.wire.failed
      BY DEF Live
    <3>2. QED
      BY <3>1, ReadyWire
  <2>2. wire = Saying(bs, open, FALSE) /\ wire' = Saying(more, TRUE, FALSE)
    BY <1>2, <2>1 DEF wire
  <2>3. /\ wire.blocks = bs /\ wire'.blocks = more /\ wire'.open = TRUE
        /\ wire.open => bs[Len(bs)].kind # kind
    BY <1>2, <2>2 DEF Saying, wire
  <2> DEFINE T == Narration \cup {b}
  <2>4. bs \in Seq(T) /\ b \in T
    BY <2>1
  <2>5. b.kind = kind
    OBVIOUS
  <2> HIDE DEF bs, b, T, open
  <2>6. more = bs \o <<b>>
    BY <2>4, AppendIsConcat
  <2>7. SubSeq(more, Len(bs) + 1, Len(more)) = <<b>>
    <3> DEFINE part == SubSeq(more, Len(bs) + 1, Len(more))
    <3>1. /\ more \in Seq(T) /\ Len(more) = Len(bs) + 1 /\ more[Len(bs) + 1] = b
          /\ Len(bs) \in Nat
      BY <2>4, AppendProperties
    <3> HIDE DEF more
    <3>2. part \in Seq(T) /\ Len(part) = 1 /\ part[1] = b
      <4>1. part = [i \in 1 .. 1 |-> more[Len(bs) + i]]
        BY <3>1
      <4> HIDE DEF part
      <4>2. QED
        BY <2>4, <3>1, <4>1
    <3>3. <<b>> \in Seq(T) /\ Len(<<b>>) = 1 /\ <<b>>[1] = b
      BY <2>4
    <3> HIDE DEF part
    <3>4. part = <<b>>
      BY <3>2, <3>3, SeqEqual
    <3>5. QED
      BY <3>4 DEF part
  <2> HIDE DEF more
  <2>8. added = <<b>>
    BY <2>3, <2>7
  <2>9. Len(added) = 1 /\ added[1].kind = kind
    <3>1. Len(<<b>>) = 1 /\ <<b>>[1] = b
      OBVIOUS
    <3> HIDE DEF added
    <3>2. QED
      BY <2>5, <2>8, <3>1
  <2>10. wire' = [wire EXCEPT !.blocks = @ \o added, !.open = wire'.open]
    <3>1. wire' = [wire EXCEPT !.blocks = bs \o <<b>>, !.open = TRUE]
      <4> DEFINE all == bs \o <<b>>
      <4>1. wire = Saying(bs, open, FALSE) /\ wire' = Saying(all, TRUE, FALSE)
        BY <2>2, <2>6
      <4> HIDE DEF all
      <4>2. wire' = Longer(wire, all, TRUE)
        BY <4>1, SayingMore
      <4>3. QED
        BY <4>2 DEF all, Longer
    <3>2. QED
      BY <2>3, <2>8, <3>1
  <2> HIDE DEF added
  <2>11. MessageContract!Narrate
    BY <1>2, <2>3, <2>9, <2>10, ContractGoing
       DEF MessageContract!Narrate, MessageContract!More, MessageContract!Last, added, bs
  <2>12. QED
    BY <2>11
<1>3. QED
  BY <1>1, <1>2 DEF Grows

\* The end of the turn: the calls come together with the stop reason.
LEMMA ConcludesMessage ==
    ASSUME Live(conv), NEW c, c = conv \/ c = EmitError(conv), conv' = Finalize(c),
           NEW n \in Samples, NEW calls \in Seq(SentCalls),
           Ordered(calls, n), Buffered(Box(c), calls)
    PROVE  MessageContract!Conclude
<1> DEFINE bs == conv.wire.blocks
           m == Len(bs)
           d == Finalize(c)
           emitted == Emitted(c)
<1>1. Ready(c) /\ c.wire.blocks = bs
  BY ErrorTold DEF Live
<1>2. PICK all \in Seq(Blocks) :
        /\ d.wire = Told(all, Reason(c), c.wire.failed)
        /\ Len(all) = m + Len(emitted)
        /\ \A k \in 1 .. m : all[k] = bs[k]
        /\ \A k \in 1 .. Len(emitted) : all[m + k] = CallBlock(emitted[k])
  BY <1>1, FinalWire, ZenonT(60) DEF Behind
<1>3. bs \in Seq(Narration) /\ m \in Nat
  BY ReadyWire DEF Live
<1>4. emitted \in Seq(Buffers) /\ Len(emitted) \in Nat
  BY <1>1, EmittedType DEF Ready, Converters
<1>5. wire.blocks = bs /\ wire'.blocks = all /\ wire' = d.wire
  BY <1>2 DEF wire, Told
<1> DEFINE added == SubSeq(wire'.blocks, Len(wire.blocks) + 1, Len(wire'.blocks))
<1>6. MessageContract!IsPrefix(wire.blocks, wire'.blocks)
  <2>1. Len(bs) <= Len(all)
    BY <1>2, <1>3, <1>4
  <2>2. SubSeq(bs, 1, m) = SubSeq(all, 1, m)
    <3>1. SubSeq(bs, 1, m) = [i \in 1 .. m |-> bs[i]]
          /\ SubSeq(all, 1, m) = [i \in 1 .. m |-> all[i]]
      <4>1. \A q : SubSeq(q, 1, m) = [i \in 1 .. m |-> q[i]]
        <5> HIDE DEF m
        <5>1. QED
          BY <1>3
      <4>2. QED
        BY <4>1
    <3> HIDE DEF m, bs
    <3>2. QED
      BY <1>2, <3>1
  <2>3. QED
    BY <1>5, <2>1, <2>2 DEF MessageContract!IsPrefix
<1>7. \A b \in MessageContract!ToSet(added) : b.kind = "tool_use"
  <2> DEFINE k == Len(emitted)
  <2> HIDE DEF bs, emitted, d
  <2>1. added = SubSeq(all, m + 1, m + k)
    BY <1>2, <1>5
  <2> HIDE DEF m, k
  <2>2. SubSeq(all, m + 1, m + k) = [i \in 1 .. k |-> all[m + i]]
    <3>1. k \in Nat /\ m \in Nat
      BY <1>3, <1>4 DEF k
    <3>2. QED
      BY <3>1
  <2> HIDE DEF added
  <2>3. ASSUME NEW b \in MessageContract!ToSet(added)
        PROVE  b.kind = "tool_use"
    <3>1. PICK i \in 1 .. k : b = all[m + i]
      BY <2>1, <2>2 DEF MessageContract!ToSet
    <3>2. b = CallBlock(emitted[i])
      BY <1>2, <3>1 DEF k
    <3>3. QED
      BY <3>2 DEF CallBlock
  <2>4. QED
    BY <2>3
<1>8. MessageContract!Distinct(MessageContract!Calls(wire'))
  <2>1. \A i, j \in DOMAIN Calls(Finalize(c).wire) :
          Calls(Finalize(c).wire)[i].id = Calls(Finalize(c).wire)[j].id => i = j
    BY <1>1, FinalDistinct
  <2>2. MessageContract!Calls(wire') = Calls(Finalize(c).wire)
    BY <1>5, SameCalls
  <2>3. QED
    BY <2>1, <2>2 DEF MessageContract!Distinct
<1>9. /\ wire'.stop \in {"end_turn", "max_tokens", "tool_use"}
      /\ wire'.stop = "tool_use" => MessageContract!Calls(wire') # <<>>
      /\ wire'.valid /\ wire'.ended /\ ~wire'.open
  BY <1>1, <1>5, FinalReason, SameCalls
<1>10. QED
  BY <1>6, <1>7, <1>8, <1>9, ContractGoing
     DEF MessageContract!Conclude, MessageContract!More, added

\* The client's message takes no step but those of the contract.
LEMMA StepImplements == IInv /\ [Next]_vars => [MessageContract!Next]_wire
<1> SUFFICES ASSUME IInv, [Next]_vars
             PROVE  MessageContract!Next \/ UNCHANGED wire
  OBVIOUS
<1> USE DEF MessageContract!Next
<1>1. TypeOK /\ Calling /\ WhileFirst /\ WhileSecond /\ WhileReplay
  BY DEF IInv
<1>2. 1 \in Samples /\ 2 \in Samples
      /\ sent[1] \in Seq(SentCalls) /\ Ordered(sent[1], 1)
      /\ sent[2] \in Seq(SentCalls) /\ Ordered(sent[2], 2)
  BY <1>1 DEF TypeOK, Calling, Sendings, Samples
<1>3. CASE RelayChunk
  <2>1. PICK ch \in Chunks : Handled(conv', conv, ch)
    BY <1>3, RelayTells
  <2>2. Live(conv)
    BY <1>1, <1>3 DEF RelayChunk, WhileFirst
  <2>3. QED
    BY <2>1, <2>2, GrowsNarrates DEF Handled
<1>4. CASE ReplayChunk
  <2>1. PICK ch \in Chunks : Handled(conv', conv, ch)
    BY <1>4, ReplayTells DEF Retells
  <2>2. Live(conv)
    BY <1>1, <1>4 DEF ReplayChunk, WhileReplay
  <2>3. QED
    BY <2>1, <2>2, GrowsNarrates DEF Handled
<1>5. ASSUME NEW c, c = conv \/ c = EmitError(conv), Conclude(c),
             pc \in {"first", "second"}
      PROVE  MessageContract!Conclude
  <2>1. Live(conv) /\ Buffered(Box(conv), sent[1])
    BY <1>1, <1>5 DEF WhileFirst, WhileSecond
  <2>2. Buffered(Box(c), sent[1]) /\ conv' = Finalize(c)
    BY <1>5, <2>1, ErrorTold DEF Conclude
  <2>3. QED
    BY <1>2, <1>5, <2>1, <2>2, ConcludesMessage
<1>6. CASE FirstEnds
  BY <1>5, <1>6 DEF FirstEnds, Verdict, wire
<1>7. CASE FirstBreaks
  BY <1>5, <1>7 DEF FirstBreaks, wire
<1>8. CASE BufferChunk
  BY <1>8 DEF BufferChunk, wire
<1>9. ASSUME Unrescued, pc = "second"
      PROVE  MessageContract!Conclude
  <2> DEFINE c == IF why = "aborted" THEN EmitError(conv) ELSE conv
  <2>1. Conclude(c) /\ (c = conv \/ c = EmitError(conv))
    BY <1>9 DEF Unrescued
  <2> HIDE DEF c
  <2>2. QED
    BY <1>5, <1>9, <2>1
<1>10. CASE SecondFails
  BY <1>9, <1>10 DEF SecondFails
<1>11. CASE SecondEnds
  BY <1>9, <1>11 DEF SecondEnds, wire
<1>12. CASE Rescued
  <2>1. CASE Conclude(conv)
    <3>1. /\ Live(conv) /\ Buffered(Box(candidate), sent[2])
          /\ Trail(Box(conv), <<>>, Box(candidate))
      BY <1>1, <1>12 DEF Rescued, WhileReplay
    <3>2. Buffered(Box(conv), sent[2]) /\ conv' = Finalize(conv)
      BY <2>1, <3>1, TrailNone DEF Conclude
    <3>3. MessageContract!Conclude
      BY <1>2, <3>1, <3>2, ConcludesMessage
    <3>4. QED
      BY <3>3
  <2>2. CASE UNCHANGED conv
    BY <2>2 DEF wire
  <2>3. QED
    BY <1>12, <2>1, <2>2 DEF Rescued, Verdict
<1>13. CASE UNCHANGED vars
  BY <1>13 DEF vars, stream, wire
<1>14. QED
  BY <1>3, <1>4, <1>6, <1>7, <1>8, <1>10, <1>11, <1>12, <1>13 DEF Next

\* The chat stream, with its second sample or without, implements the
\* contract of a streamed message: narration is never taken back, the calls
\* come whole and under ids of their own together with the stop reason, and
\* nothing follows the end (HandleChunk, Finalize and both resample paths).
THEOREM ChatImplementsMessage == Spec => ImplementsMessage
<1>1. Init => MessageContract!Init
  <2>1. NoMessage = MessageContract!NoMessage
    BY DEF NoMessage, MessageContract!NoMessage
  <2>2. ASSUME Init
        PROVE  wire = NoMessage
    <3>1. PICK names \in BOOLEAN : conv = NewStreamConverter(names)
      BY <2>2 DEF Init
    <3>2. conv.wire = NoMessage
      BY <3>1, FreshConverter
    <3>3. QED
      BY <3>2 DEF wire
  <2>3. QED
    BY <2>1, <2>2 DEF MessageContract!Init
<1>2. QED
  BY <1>1, Invariant, StepImplements, PTL
     DEF Spec, ImplementsMessage, MessageContract!Spec
=============================================================================
