------------------------ MODULE ConversationsProofs ------------------------
(***************************************************************************)
(* Theorems about Conversations, proved for every number of conversations, *)
(* whatever their clients are like and upstream answers.                   *)
(*                                                                         *)
(* A message that the shim makes up reaches the client as it was made      *)
(* (SyntheticReceived), and where a turn is says which requests upstream   *)
(* has answered (Turn).                                                    *)
(***************************************************************************)
EXTENDS Conversations, WellFoundedInduction, SequenceTheorems, TLAPS

----------------------------------------------------------------------------
(* Induction, and functions defined by it.                                 *)

\* A set that has 0 and, with a number, its successor has all of them.
LEMMA EveryNat ==
    ASSUME NEW S, 0 \in S, \A n \in Nat : n \in S => n + 1 \in S
    PROVE  Nat \subseteq S
<1>1. ASSUME NEW z \in Nat, z \notin S PROVE FALSE
  <2>1. PICK x \in Nat \ S : \A y \in Nat \ S : ~(<<y, x>> \in OpToRel(<, Nat))
    <3>1. Nat \ S # {} /\ Nat \ S \subseteq Nat
      BY <1>1
    <3>2. QED
      BY <3>1, NatLessThanWellFounded, WFMin, Zenon
  <2>2. x \in Nat /\ x # 0 /\ x - 1 \in Nat /\ (x - 1) + 1 = x
    OBVIOUS
  <2>3. <<x - 1, x>> \in OpToRel(<, Nat)
    BY <2>2 DEF OpToRel
  <2>4. x - 1 \in S
    BY <2>1, <2>2, <2>3
  <2>5. (x - 1) + 1 \in S
    BY <2>2, <2>4
  <2>6. QED
    BY <2>1, <2>2, <2>5
<1>2. QED
  BY <1>1

\* Receive is what it chooses the only candidate for.
LEMMA ReceiveIs ==
    ASSUME NEW m, NEW e
    PROVE  Receive(m, e) = IF Acceptable(m, e) THEN Accepted(m, e)
                           ELSE [m EXCEPT !.valid = FALSE]
<1> DEFINE R(x) == IF Acceptable(x, e) THEN Accepted(x, e)
                   ELSE [x EXCEPT !.valid = FALSE]
<1>1. Receive(m, e) = CHOOSE r \in {R(x) : x \in {m}} : TRUE
  BY DEF Receive
<1>2. {R(x) : x \in {m}} = {R(m)}
  OBVIOUS
<1>3. QED
  BY <1>1, <1>2

\* What Received computes, event by event.
Receives(so, m, es) ==
    /\ so[0] = m
    /\ \A i \in 1 .. Len(es) : so[i] = Receive(so[i - 1], es[i])
    /\ Received(m, es) = so[Len(es)]

LEMMA ReceivedIs ==
    ASSUME NEW m, NEW es, Len(es) \in Nat
    PROVE  \E so : Receives(so, m, es)
<1> DEFINE Body(g, k) ==
             [i \in 0 .. k |-> IF i = 0 THEN m ELSE Receive(g[i - 1], es[i])]
           Good == {k \in Nat : \E g : g = Body(g, k)}
           so == CHOOSE g : g = Body(g, Len(es))
<1>1. 0 \in Good
  <2>1. [i \in 0 .. 0 |-> m] = Body([i \in 0 .. 0 |-> m], 0)
    OBVIOUS
  <2>2. QED
    BY <2>1
<1>2. ASSUME NEW k \in Nat, k \in Good
      PROVE  k + 1 \in Good
  <2>1. PICK g : g = Body(g, k)
    BY <1>2
  <2> DEFINE h == [i \in 0 .. k + 1 |->
                     IF i <= k THEN g[i] ELSE Receive(g[k], es[k + 1])]
  <2>2. ASSUME NEW i \in 0 .. k + 1
        PROVE  h[i] = Body(h, k + 1)[i]
    <3>1. CASE i = 0
      BY <2>1, <3>1
    <3>2. CASE i # 0 /\ i <= k
      <4>1. i - 1 \in 0 .. k + 1 /\ i - 1 <= k /\ i \in 0 .. k
        BY <3>2
      <4>2. h[i - 1] = g[i - 1] /\ h[i] = g[i]
        BY <3>2, <4>1
      <4>3. g[i] = Receive(g[i - 1], es[i])
        BY <2>1, <3>2, <4>1
      <4>4. QED
        BY <3>2, <4>2, <4>3
    <3>3. CASE i = k + 1
      <4>1. i - 1 = k /\ i # 0 /\ ~(i <= k) /\ k \in 0 .. k + 1
        BY <3>3
      <4>2. h[i] = Receive(g[k], es[k + 1]) /\ h[i - 1] = g[k]
        BY <3>3, <4>1
      <4>3. QED
        BY <3>3, <4>1, <4>2
    <3>4. QED
      BY <3>1, <3>2, <3>3
  <2>3. h = Body(h, k + 1)
    <3> HIDE DEF h
    <3>1. DOMAIN h = 0 .. k + 1 /\ h = [i \in 0 .. k + 1 |-> h[i]]
      BY DEF h
    <3>2. QED
      BY <2>2, <3>1
  <2>4. \E f : f = Body(f, k + 1)
    <3> HIDE DEF h, Body
    <3>1. QED
      BY <2>3
  <2>5. QED
    BY <2>4
<1>3. Nat \subseteq Good
  <2>1. \A k \in Nat : k \in Good => k + 1 \in Good
    BY <1>2
  <2> HIDE DEF Good
  <2>2. QED
    BY <1>1, <2>1, EveryNat
<1>4. so = Body(so, Len(es))
  <2>1. \E g : g = Body(g, Len(es))
    BY <1>3
  <2>2. QED
    BY <2>1
<1>5. Received(m, es) = so[Len(es)]
  BY DEF Received
<1> HIDE DEF so
<1>6. so[0] = m
  BY <1>4
<1>7. ASSUME NEW i \in 1 .. Len(es)
      PROVE  so[i] = Receive(so[i - 1], es[i])
  BY <1>4
<1>8. Receives(so, m, es)
  BY <1>5, <1>6, <1>7 DEF Receives
<1>9. QED
  BY <1>8

\* What Picked computes, place by place.
Picks(got, s, places) ==
    /\ got[0] = <<>>
    /\ \A i \in 1 .. Len(s) :
          got[i] = IF i \in places THEN Append(got[i - 1], s[i]) ELSE got[i - 1]
    /\ Picked(s, places) = got[Len(s)]

LEMMA PickedIs ==
    ASSUME NEW s, NEW places, Len(s) \in Nat
    PROVE  \E got : Picks(got, s, places)
<1> DEFINE Next1(x, i) == IF i \in places THEN Append(x, s[i]) ELSE x
           Body(g, k) ==
             [i \in 0 .. k |->
                IF i = 0 THEN <<>>
                ELSE IF i \in places THEN Append(g[i - 1], s[i]) ELSE g[i - 1]]
           Good == {k \in Nat : \E g : g = Body(g, k)}
           got == CHOOSE g : g = Body(g, Len(s))
<1>1. 0 \in Good
  <2>1. [i \in 0 .. 0 |-> <<>>] = Body([i \in 0 .. 0 |-> <<>>], 0)
    OBVIOUS
  <2>2. QED
    BY <2>1
<1>2. ASSUME NEW k \in Nat, k \in Good
      PROVE  k + 1 \in Good
  <2>1. PICK g : g = Body(g, k)
    BY <1>2
  <2> DEFINE h == [i \in 0 .. k + 1 |-> IF i <= k THEN g[i] ELSE Next1(g[k], k + 1)]
  <2>2. ASSUME NEW i \in 0 .. k + 1
        PROVE  h[i] = Body(h, k + 1)[i]
    <3>1. CASE i = 0
      BY <2>1, <3>1
    <3>2. CASE i # 0 /\ i <= k
      <4>1. i - 1 \in 0 .. k + 1 /\ i - 1 <= k /\ i \in 0 .. k
        BY <3>2
      <4>2. h[i - 1] = g[i - 1] /\ h[i] = g[i]
        BY <3>2, <4>1
      <4>3. g[i] = IF i \in places THEN Append(g[i - 1], s[i]) ELSE g[i - 1]
        BY <2>1, <3>2, <4>1
      <4> HIDE DEF h
      <4>4. QED
        BY <3>2, <4>2, <4>3
    <3>3. CASE i = k + 1
      <4>1. i - 1 = k /\ i # 0 /\ ~(i <= k) /\ k \in 0 .. k + 1
        BY <3>3
      <4>2. h[i] = Next1(g[k], k + 1) /\ h[i - 1] = g[k]
        BY <3>3, <4>1
      <4> HIDE DEF h
      <4>3. QED
        BY <3>3, <4>1, <4>2
    <3>4. QED
      BY <3>1, <3>2, <3>3
  <2>3. h = Body(h, k + 1)
    <3> HIDE DEF h
    <3>1. DOMAIN h = 0 .. k + 1 /\ h = [i \in 0 .. k + 1 |-> h[i]]
      BY DEF h
    <3>2. QED
      BY <2>2, <3>1
  <2>4. \E f : f = Body(f, k + 1)
    <3> HIDE DEF h, Body
    <3>1. QED
      BY <2>3
  <2> HIDE DEF h, Body
  <2>5. QED
    BY <2>4
<1>3. Nat \subseteq Good
  <2>1. \A k \in Nat : k \in Good => k + 1 \in Good
    BY <1>2
  <2> HIDE DEF Good
  <2>2. QED
    BY <1>1, <2>1, EveryNat
<1>4. got = Body(got, Len(s))
  <2>1. \E g : g = Body(g, Len(s))
    BY <1>3
  <2>2. QED
    BY <2>1
<1>5. Picked(s, places) = got[Len(s)]
  BY DEF Picked
<1> HIDE DEF got
<1>6. got[0] = <<>>
  BY <1>4
<1>7. ASSUME NEW i \in 1 .. Len(s)
      PROVE  got[i] = IF i \in places THEN Append(got[i - 1], s[i]) ELSE got[i - 1]
  <2>1. i \in 0 .. Len(s) /\ i # 0
    OBVIOUS
  <2>2. QED
    BY <1>4, <2>1
<1>8. Picks(got, s, places)
  BY <1>5, <1>6, <1>7 DEF Picks
<1>9. QED
  BY <1>8

LEMMA ReceivedTwo ==
    ASSUME NEW m, NEW a, NEW b
    PROVE  Received(m, <<a, b>>) = Receive(Receive(m, a), b)
<1> DEFINE es == <<a, b>>
<1>1. Len(es) = 2 /\ es[1] = a /\ es[2] = b
  OBVIOUS
<1> HIDE DEF es
<1>2. PICK so : Receives(so, m, es)
  <2>1. Len(es) \in Nat
    BY <1>1
  <2>2. QED
    BY <2>1, ReceivedIs
<1>3. so[1] = Receive(m, a)
  <2>1. 1 \in 1 .. Len(es) /\ 1 - 1 = 0
    BY <1>1
  <2>2. so[1] = Receive(so[1 - 1], es[1])
    BY <1>2, <2>1 DEF Receives
  <2>3. QED
    BY <1>1, <1>2, <2>1, <2>2 DEF Receives
<1>4. so[2] = Receive(so[1], b)
  <2>1. 2 \in 1 .. Len(es) /\ 2 - 1 = 1
    BY <1>1
  <2>2. so[2] = Receive(so[2 - 1], es[2])
    BY <1>2, <2>1 DEF Receives
  <2>3. QED
    BY <1>1, <2>1, <2>2
<1>5. Received(m, es) = Receive(Receive(m, a), b)
  BY <1>1, <1>2, <1>3, <1>4 DEF Receives
<1>6. QED
  BY <1>5 DEF es

LEMMA ReceivedThree ==
    ASSUME NEW m, NEW a, NEW b, NEW c
    PROVE  Received(m, <<a, b, c>>) = Receive(Receive(Receive(m, a), b), c)
<1> DEFINE es == <<a, b, c>>
<1>1. Len(es) = 3 /\ es[1] = a /\ es[2] = b /\ es[3] = c
  OBVIOUS
<1> HIDE DEF es
<1>2. PICK so : Receives(so, m, es)
  <2>1. Len(es) \in Nat
    BY <1>1
  <2>2. QED
    BY <2>1, ReceivedIs
<1>3. so[1] = Receive(m, a)
  <2>1. 1 \in 1 .. Len(es) /\ 1 - 1 = 0
    BY <1>1
  <2>2. so[1] = Receive(so[1 - 1], es[1])
    BY <1>2, <2>1 DEF Receives
  <2>3. QED
    BY <1>1, <1>2, <2>1, <2>2 DEF Receives
<1>4. so[2] = Receive(so[1], b)
  <2>1. 2 \in 1 .. Len(es) /\ 2 - 1 = 1
    BY <1>1
  <2>2. so[2] = Receive(so[2 - 1], es[2])
    BY <1>2, <2>1 DEF Receives
  <2>3. QED
    BY <1>1, <2>1, <2>2
<1>5. so[3] = Receive(so[2], c)
  <2>1. 3 \in 1 .. Len(es) /\ 3 - 1 = 2
    BY <1>1
  <2>2. so[3] = Receive(so[3 - 1], es[3])
    BY <1>2, <2>1 DEF Receives
  <2>3. QED
    BY <1>1, <2>1, <2>2
<1>6. Received(m, es) = Receive(Receive(Receive(m, a), b), c)
  BY <1>1, <1>2, <1>3, <1>4, <1>5 DEF Receives
<1>7. QED
  BY <1>6 DEF es


\* What is picked is of the places, and something is when there is one.
LEMMA PickedOf ==
    ASSUME NEW T, NEW s \in Seq(T), NEW places
    PROVE  /\ Picked(s, places) \in Seq({s[i] : i \in DOMAIN s \cap places})
           /\ DOMAIN s \cap places # {} => Picked(s, places) # <<>>
<1> DEFINE Of == {s[i] : i \in DOMAIN s \cap places}
<1>1. Len(s) \in Nat /\ DOMAIN s = 1 .. Len(s)
  OBVIOUS
<1>2. PICK got : Picks(got, s, places)
  BY <1>1, PickedIs
<1> DEFINE Good(n) == n <= Len(s) =>
                        /\ got[n] \in Seq(Of)
                        /\ (\E i \in 1 .. n : i \in places) => got[n] # <<>>
           Numbers == {n \in Nat : Good(n)}
<1>3. Good(0)
  BY <1>2 DEF Picks
<1>4. ASSUME NEW n \in Nat, Good(n)
      PROVE  Good(n + 1)
  <2>1. SUFFICES ASSUME n + 1 <= Len(s)
                 PROVE  /\ got[n + 1] \in Seq(Of)
                        /\ (\E i \in 1 .. n + 1 : i \in places) => got[n + 1] # <<>>
    OBVIOUS
  <2>2. n <= Len(s) /\ n + 1 \in 1 .. Len(s) /\ (n + 1) - 1 = n /\ 1 .. n + 1 = 1 .. n \cup {n + 1}
    BY <1>1, <2>1
  <2>3. got[n] \in Seq(Of) /\ ((\E i \in 1 .. n : i \in places) => got[n] # <<>>)
    BY <1>4, <2>2
  <2>4. CASE n + 1 \in places
    <3>1. got[n + 1] = Append(got[n], s[n + 1])
      BY <1>2, <2>2, <2>4 DEF Picks
    <3>2. s[n + 1] \in Of
      BY <1>1, <2>2, <2>4
    <3> HIDE DEF Of
    <3>3. Append(got[n], s[n + 1]) \in Seq(Of) /\ Append(got[n], s[n + 1]) # <<>>
      BY <2>3, <3>2, AppendProperties
    <3>4. QED
      BY <3>1, <3>3
  <2>5. CASE n + 1 \notin places
    <3>1. got[n + 1] = got[n]
      BY <1>2, <2>2, <2>5 DEF Picks
    <3>2. QED
      BY <2>2, <2>3, <2>5, <3>1
  <2>6. QED
    BY <2>4, <2>5
<1>5. Good(Len(s))
  <2> HIDE DEF Good
  <2>1. 0 \in Numbers /\ \A n \in Nat : n \in Numbers => n + 1 \in Numbers
    BY <1>3, <1>4
  <2> HIDE DEF Numbers
  <2>2. Nat \subseteq Numbers
    BY <2>1, EveryNat
  <2>3. QED
    BY <1>1, <2>2 DEF Numbers
<1>6. Picked(s, places) = got[Len(s)]
  BY <1>2 DEF Picks
<1>7. QED
  BY <1>1, <1>5, <1>6

\* What is to be picked is.
LEMMA PickedHas ==
    ASSUME NEW T, NEW s \in Seq(T), NEW places, NEW at \in DOMAIN s \cap places
    PROVE  \E j \in DOMAIN Picked(s, places) : Picked(s, places)[j] = s[at]
<1> DEFINE Of == {s[i] : i \in DOMAIN s \cap places}
<1>1. Len(s) \in Nat /\ DOMAIN s = 1 .. Len(s)
  OBVIOUS
<1>2. PICK got : Picks(got, s, places)
  BY <1>1, PickedIs
<1> DEFINE Good(n) == n <= Len(s) =>
                        /\ got[n] \in Seq(Of)
                        /\ at <= n => \E j \in DOMAIN got[n] : got[n][j] = s[at]
           Numbers == {n \in Nat : Good(n)}
<1>3. Good(0)
  BY <1>1, <1>2 DEF Picks
<1>4. ASSUME NEW n \in Nat, Good(n)
      PROVE  Good(n + 1)
  <2>1. SUFFICES ASSUME n + 1 <= Len(s)
                 PROVE  /\ got[n + 1] \in Seq(Of)
                        /\ at <= n + 1 => \E j \in DOMAIN got[n + 1] : got[n + 1][j] = s[at]
    OBVIOUS
  <2>2. n <= Len(s) /\ n + 1 \in 1 .. Len(s) /\ (n + 1) - 1 = n
    BY <1>1, <2>1
  <2>3. got[n] \in Seq(Of) /\ (at <= n => \E j \in DOMAIN got[n] : got[n][j] = s[at])
    BY <1>4, <2>2
  <2>4. CASE n + 1 \in places
    <3> DEFINE more == Append(got[n], s[n + 1])
    <3>1. got[n + 1] = more
      BY <1>2, <2>2, <2>4 DEF Picks
    <3>2. s[n + 1] \in Of
      BY <1>1, <2>2, <2>4
    <3> HIDE DEF Of
    <3>3. /\ more \in Seq(Of) /\ Len(more) = Len(got[n]) + 1 /\ Len(got[n]) \in Nat
          /\ \A j \in 1 .. Len(got[n]) : more[j] = got[n][j]
          /\ more[Len(got[n]) + 1] = s[n + 1]
      BY <2>3, <3>2, AppendProperties
    <3>4. DOMAIN more = 1 .. Len(more) /\ DOMAIN got[n] = 1 .. Len(got[n])
      BY <2>3, <3>3
    <3> HIDE DEF more
    <3>5. CASE at <= n
      <4>1. PICK j \in DOMAIN got[n] : got[n][j] = s[at]
        BY <2>3, <3>5
      <4>2. j \in DOMAIN more /\ more[j] = s[at]
        BY <3>3, <3>4, <4>1
      <4>3. QED
        BY <3>1, <3>3, <4>2
    <3>6. CASE at = n + 1
      <4>1. Len(got[n]) + 1 \in DOMAIN more
        BY <3>3, <3>4
      <4>2. QED
        BY <3>1, <3>3, <3>6, <4>1
    <3>7. CASE ~(at <= n + 1)
      BY <3>1, <3>3, <3>7
    <3>8. QED
      BY <1>1, <3>5, <3>6, <3>7
  <2>5. CASE n + 1 \notin places
    <3>1. got[n + 1] = got[n]
      BY <1>2, <2>2, <2>5 DEF Picks
    <3>2. at # n + 1
      BY <2>5
    <3>3. at <= n + 1 => at <= n
      BY <1>1, <3>2
    <3>4. QED
      BY <2>3, <3>1, <3>3
  <2>6. QED
    BY <2>4, <2>5
<1>5. Good(Len(s))
  <2> HIDE DEF Good
  <2>1. 0 \in Numbers /\ \A n \in Nat : n \in Numbers => n + 1 \in Numbers
    BY <1>3, <1>4
  <2> HIDE DEF Numbers
  <2>2. Nat \subseteq Numbers
    BY <2>1, EveryNat
  <2>3. QED
    BY <1>1, <2>2 DEF Numbers
<1>6. Picked(s, places) = got[Len(s)]
  BY <1>2 DEF Picks
<1>7. QED
  BY <1>1, <1>5, <1>6

\* A client that is so some events and then others is so all of them.
LEMMA ReceivedThen ==
    ASSUME NEW E, NEW m, NEW a \in Seq(E), NEW b \in Seq(E)
    PROVE  Received(m, a \o b) = Received(Received(m, a), b)
<1>1. /\ Len(a) \in Nat /\ Len(b) \in Nat
      /\ a \o b \in Seq(E) /\ Len(a \o b) = Len(a) + Len(b)
      /\ \A i \in 1 .. Len(a) : (a \o b)[i] = a[i]
      /\ \A i \in 1 .. Len(b) : (a \o b)[Len(a) + i] = b[i]
  OBVIOUS
<1> DEFINE ab == a \o b
<1> HIDE DEF ab
<1>2. PICK all : Receives(all, m, ab)
  <2>1. Len(ab) \in Nat
    BY <1>1 DEF ab
  <2>2. QED
    BY <2>1, ReceivedIs
<1>3. PICK some : Receives(some, m, a)
  BY <1>1, ReceivedIs
<1>4. PICK rest : Receives(rest, Received(m, a), b)
  BY <1>1, ReceivedIs
<1>5. \A i \in Nat : i <= Len(a) => all[i] = some[i]
  <2> DEFINE Good == {i \in Nat : i <= Len(a) => all[i] = some[i]}
  <2>1. 0 \in Good
    BY <1>2, <1>3 DEF Receives
  <2>2. ASSUME NEW i \in Nat, i \in Good, i + 1 <= Len(a)
        PROVE  all[i + 1] = some[i + 1]
    <3>1. i + 1 \in 1 .. Len(a) /\ i + 1 \in 1 .. Len(ab) /\ (i + 1) - 1 = i
      BY <1>1, <2>2 DEF ab
    <3>2. all[i] = some[i] /\ ab[i + 1] = a[i + 1]
      BY <1>1, <2>2, <3>1 DEF ab
    <3>3. QED
      BY <1>2, <1>3, <3>1, <3>2 DEF Receives
  <2>3. \A i \in Nat : i \in Good => i + 1 \in Good
    BY <2>2
  <2> HIDE DEF Good
  <2>4. Nat \subseteq Good
    BY <2>1, <2>3, EveryNat
  <2>5. QED
    BY <2>4 DEF Good
<1>6. all[Len(a)] = rest[0]
  BY <1>1, <1>3, <1>4, <1>5 DEF Receives
<1>7. \A i \in Nat : i <= Len(b) => all[Len(a) + i] = rest[i]
  <2> DEFINE Good == {i \in Nat : i <= Len(b) => all[Len(a) + i] = rest[i]}
  <2>1. 0 \in Good
    BY <1>1, <1>6
  <2>2. ASSUME NEW i \in Nat, i \in Good, i + 1 <= Len(b)
        PROVE  all[Len(a) + (i + 1)] = rest[i + 1]
    <3>1. /\ i + 1 \in 1 .. Len(b) /\ Len(a) + (i + 1) \in 1 .. Len(ab)
          /\ (i + 1) - 1 = i /\ (Len(a) + (i + 1)) - 1 = Len(a) + i
      BY <1>1, <2>2 DEF ab
    <3>2. all[Len(a) + i] = rest[i] /\ ab[Len(a) + (i + 1)] = b[i + 1]
      BY <1>1, <2>2, <3>1 DEF ab
    <3>3. all[Len(a) + (i + 1)] = Receive(all[Len(a) + i], ab[Len(a) + (i + 1)])
      BY <1>2, <3>1 DEF Receives
    <3>4. rest[i + 1] = Receive(rest[i], b[i + 1])
      BY <1>4, <3>1 DEF Receives
    <3>5. QED
      BY <3>2, <3>3, <3>4
  <2>3. \A i \in Nat : i \in Good => i + 1 \in Good
    BY <2>2
  <2> HIDE DEF Good
  <2>4. Nat \subseteq Good
    BY <2>1, <2>3, EveryNat
  <2>5. QED
    BY <2>4 DEF Good
<1>8. all[Len(a) + Len(b)] = rest[Len(b)]
  BY <1>1, <1>7
<1>9. QED
  BY <1>1, <1>2, <1>4, <1>8 DEF ab, Receives

\* What FlattenSeq computes, sequence by sequence.
LEMMA FlattenIs ==
    ASSUME NEW seqs, Len(seqs) \in Nat \ {0}
    PROVE  \E flat :
              /\ flat[1] = seqs[1]
              /\ \A i \in 2 .. Len(seqs) : flat[i] = flat[i - 1] \o seqs[i]
              /\ FlattenSeq(seqs) = flat[Len(seqs)]
<1> DEFINE Body(g, k) ==
             [i \in 1 .. k |-> IF i = 1 THEN seqs[i] ELSE g[i - 1] \o seqs[i]]
           Good == {k \in Nat : \E g : g = Body(g, k)}
           flat == CHOOSE g : g = Body(g, Len(seqs))
<1>1. 0 \in Good
  <2>1. <<>> = Body(<<>>, 0)
    OBVIOUS
  <2>2. QED
    BY <2>1
<1>2. ASSUME NEW k \in Nat, k \in Good
      PROVE  k + 1 \in Good
  <2>1. PICK g : g = Body(g, k)
    BY <1>2
  <2> DEFINE new == IF k = 0 THEN seqs[1] ELSE g[k] \o seqs[k + 1]
             h == [i \in 1 .. k + 1 |-> IF i <= k THEN g[i] ELSE new]
  <2>2. ASSUME NEW i \in 1 .. k + 1
        PROVE  h[i] = Body(h, k + 1)[i]
    <3>1. CASE i <= k /\ i = 1
      BY <2>1, <3>1
    <3>2. CASE i <= k /\ i # 1
      <4>1. i - 1 \in 1 .. k + 1 /\ i - 1 <= k /\ i \in 1 .. k
        BY <3>2
      <4>2. h[i - 1] = g[i - 1] /\ h[i] = g[i]
        BY <3>2, <4>1
      <4>3. g[i] = g[i - 1] \o seqs[i]
        BY <2>1, <3>2, <4>1
      <4> HIDE DEF h
      <4>4. QED
        BY <3>2, <4>2, <4>3
    <3>3. CASE i = k + 1
      <4>1. ~(i <= k) /\ (k # 0 => i # 1 /\ i - 1 = k /\ k \in 1 .. k + 1 /\ k <= k)
        BY <3>3
      <4>2. h[i] = new /\ (k # 0 => h[i - 1] = g[k])
        BY <3>3, <4>1
      <4> HIDE DEF h
      <4>3. CASE k = 0
        BY <3>3, <4>2, <4>3
      <4>4. CASE k # 0
        BY <3>3, <4>1, <4>2, <4>4
      <4>5. QED
        BY <4>3, <4>4
    <3>4. QED
      BY <3>1, <3>2, <3>3
  <2>3. h = Body(h, k + 1)
    <3> HIDE DEF h
    <3>1. DOMAIN h = 1 .. k + 1 /\ h = [i \in 1 .. k + 1 |-> h[i]]
      BY DEF h
    <3>2. QED
      BY <2>2, <3>1
  <2> HIDE DEF h, Body
  <2>4. \E f : f = Body(f, k + 1)
    BY <2>3
  <2>5. QED
    BY <2>4
<1>3. Nat \subseteq Good
  <2>1. \A k \in Nat : k \in Good => k + 1 \in Good
    BY <1>2
  <2> HIDE DEF Good
  <2>2. QED
    BY <1>1, <2>1, EveryNat
<1>4. flat = Body(flat, Len(seqs))
  <2>1. \E g : g = Body(g, Len(seqs))
    BY <1>3
  <2>2. QED
    BY <2>1
<1>5. FlattenSeq(seqs) = flat[Len(seqs)]
  BY DEF FlattenSeq
<1> HIDE DEF flat
<1>6. flat[1] = seqs[1]
  BY <1>4
<1>7. ASSUME NEW i \in 2 .. Len(seqs)
      PROVE  flat[i] = flat[i - 1] \o seqs[i]
  <2>1. i \in 1 .. Len(seqs) /\ i # 1
    OBVIOUS
  <2>2. QED
    BY <1>4, <2>1
<1>8. QED
  BY <1>5, <1>6, <1>7

----------------------------------------------------------------------------
(* A message of the shim.                                                  *)

\* The message whose blocks are the first k of the given ones, none open.
Part(blocks, k) == [NoMessage EXCEPT !.blocks = SubSeq(blocks, 1, k)]

LEMMA OpenedClosed ==
    ASSUME NEW D, NEW f, f = [x \in D |-> f[x]], "open" \in D, f["open"] = FALSE
    PROVE  [[f EXCEPT !.open = TRUE] EXCEPT !.open = FALSE] = f
OBVIOUS

\* The next block comes whole.
LEMMA BlockReceived ==
    ASSUME NEW S, NEW blocks \in Seq(S), NEW k \in Nat, k < Len(blocks)
    PROVE  Received(Part(blocks, k), BlockEvents(k, blocks[k + 1])) = Part(blocks, k + 1)
<1> DEFINE b == blocks[k + 1]
           m == Part(blocks, k)
           begun == [Part(blocks, k + 1) EXCEPT !.open = TRUE]
<1>1. /\ Len(SubSeq(blocks, 1, k)) = k
      /\ Append(SubSeq(blocks, 1, k), b) = SubSeq(blocks, 1, k + 1)
      /\ Len(SubSeq(blocks, 1, k + 1)) = k + 1
      /\ SubSeq(blocks, 1, k + 1)[k + 1] = b
  <2>1. Len(blocks) \in Nat /\ k + 1 \in 1 .. Len(blocks)
    OBVIOUS
  <2>2. \A i \in 0 .. Len(blocks) :
            /\ SubSeq(blocks, 1, i) \in Seq(S)
            /\ Len(SubSeq(blocks, 1, i)) = i
            /\ \A j \in 1 .. i : SubSeq(blocks, 1, i)[j] = blocks[j]
    BY <2>1
  <2>3. k \in 0 .. Len(blocks) /\ k + 1 \in 0 .. Len(blocks) /\ k + 1 \in 1 .. k + 1
    BY <2>1
  <2>4. Append(SubSeq(blocks, 1, k), b) = SubSeq(blocks, 1, k + 1)
    BY <2>1, <2>3
  <2>5. QED
    BY <2>2, <2>3, <2>4
<1>2. Receive(m, Opened(k, b)) = begun
  <2>1. Acceptable(m, Opened(k, b))
    BY <1>1 DEF Acceptable, Opened, Part, NoMessage, Streaming
  <2>2. Accepted(m, Opened(k, b)) = begun
    BY <1>1 DEF Accepted, Opened, Part, NoMessage
  <2>3. QED
    BY <2>1, <2>2, ReceiveIs
<1>3. Receive(begun, Closed(k)) = Part(blocks, k + 1)
  <2>1. Acceptable(begun, Closed(k))
    <3>1. begun.open /\ Streaming(begun) /\ begun.blocks = SubSeq(blocks, 1, k + 1)
      BY DEF Part, NoMessage, Streaming
    <3>2. Len(begun.blocks) = k + 1 /\ (k + 1) - 1 = k
      BY <1>1, <3>1
    <3> HIDE DEF begun
    <3>3. QED
      BY <3>1, <3>2 DEF Acceptable, Closed
  <2>2. Accepted(begun, Closed(k)) = [begun EXCEPT !.open = FALSE]
    <3> HIDE DEF begun
    <3>1. QED
      BY DEF Accepted, Closed
  <2>3. [begun EXCEPT !.open = FALSE] = Part(blocks, k + 1)
    <3> DEFINE whole == Part(blocks, k + 1)
               Fields == {"blocks", "open", "stop", "ended", "failed", "valid"}
    <3>1. whole = [f \in Fields |-> whole[f]] /\ whole["open"] = FALSE
      BY DEF Part, NoMessage
    <3>2. "open" \in Fields
      OBVIOUS
    <3> HIDE DEF Fields
    <3>3. QED
      BY <3>1, <3>2, OpenedClosed
  <2>4. QED
    BY <2>1, <2>2, <2>3, ReceiveIs
<1>4. CASE b.kind \in {"text", "thinking", "server_tool_use"}
  <2>1. Receive(begun, Delta(k, <<>>)) = begun
    <3>1. Acceptable(begun, Delta(k, <<>>))
      BY <1>1 DEF Acceptable, Delta, Part, NoMessage, Streaming
    <3>2. Last(begun.blocks) = b
      BY <1>1 DEF Last, Part, NoMessage
    <3>3. Accepted(begun, Delta(k, <<>>)) = begun
      BY <1>4, <3>2 DEF Accepted, Delta, Grown
    <3>4. QED
      BY <3>1, <3>3, ReceiveIs
  <2>2. BlockEvents(k, b) = <<Opened(k, b), Delta(k, <<>>), Closed(k)>>
    BY <1>4 DEF BlockEvents
  <2> HIDE DEF m, begun, b
  <2>3. Received(m, BlockEvents(k, b)) =
            Receive(Receive(Receive(m, Opened(k, b)), Delta(k, <<>>)), Closed(k))
    BY <2>2, ReceivedThree
  <2>4. QED
    BY <1>2, <1>3, <2>1, <2>3 DEF m, b
<1>5. CASE b.kind \notin {"text", "thinking", "server_tool_use"}
  <2>1. BlockEvents(k, b) = <<Opened(k, b), Closed(k)>>
    BY <1>5 DEF BlockEvents
  <2> HIDE DEF m, begun, b
  <2>2. Received(m, BlockEvents(k, b)) = Receive(Receive(m, Opened(k, b)), Closed(k))
    BY <2>1, ReceivedTwo
  <2>3. QED
    BY <1>2, <1>3, <2>2 DEF m, b
<1>6. QED
  BY <1>4, <1>5

\* The events of a message are those of its blocks and the end.
BlocksEvents(blocks) ==
    FlattenSeq([i \in DOMAIN blocks |-> BlockEvents(i - 1, blocks[i])])

Events(S) ==
    {Opened(i, b) : i \in Nat, b \in S} \cup {Delta(i, <<>>) : i \in Nat}
    \cup {Closed(i) : i \in Nat}

\* All blocks come, in their order.
LEMMA BlocksReceived ==
    ASSUME NEW S, NEW blocks \in Seq(S)
    PROVE  /\ BlocksEvents(blocks) \in Seq(Events(S))
           /\ Received(NoMessage, BlocksEvents(blocks)) = [NoMessage EXCEPT !.blocks = blocks]
<1> DEFINE n == Len(blocks)
           seqs == [i \in DOMAIN blocks |-> BlockEvents(i - 1, blocks[i])]
<1>1. n \in Nat /\ DOMAIN blocks = 1 .. n
  OBVIOUS
<1>2. seqs \in Seq(Seq(Events(S))) /\ Len(seqs) = n
  <2>1. ASSUME NEW i \in 1 .. n
        PROVE  BlockEvents(i - 1, blocks[i]) \in Seq(Events(S))
    <3>1. i - 1 \in Nat /\ blocks[i] \in S
      BY <1>1
    <3>2. /\ Opened(i - 1, blocks[i]) \in Events(S)
          /\ Delta(i - 1, <<>>) \in Events(S)
          /\ Closed(i - 1) \in Events(S)
      BY <3>1 DEF Events
    <3>3. QED
      BY <3>2 DEF BlockEvents
  <2> DEFINE E == Seq(Events(S))
  <2> HIDE DEF E
  <2>2. \A i \in 1 .. n : BlockEvents(i - 1, blocks[i]) \in E
    BY <2>1 DEF E
  <2>3. seqs \in [1 .. n -> E]
    BY <1>1, <2>2
  <2>4. seqs \in Seq(E) /\ Len(seqs) = n
    BY <1>1, <2>3
  <2>5. QED
    BY <2>4 DEF E
<1>3. CASE n = 0
  <2>1. blocks = <<>> /\ seqs = <<>>
    BY <1>1, <1>2, <1>3, EmptySeq
  <2>2. BlocksEvents(blocks) = <<>>
    BY <2>1, <1>2, <1>3 DEF BlocksEvents, FlattenSeq
  <2>3. Received(NoMessage, <<>>) = NoMessage
    <3> DEFINE none == <<>>
    <3>1. Len(none) = 0 /\ Len(none) \in Nat
      OBVIOUS
    <3> HIDE DEF none
    <3>2. PICK so : Receives(so, NoMessage, none)
      BY <3>1, ReceivedIs
    <3>3. Received(NoMessage, none) = NoMessage
      BY <3>1, <3>2 DEF Receives
    <3>4. QED
      BY <3>3 DEF none
  <2>4. [NoMessage EXCEPT !.blocks = blocks] = NoMessage
    BY <2>1 DEF NoMessage
  <2>5. QED
    BY <2>2, <2>3, <2>4
<1>4. CASE n # 0
  <2> HIDE DEF seqs
  <2>1. PICK flat : /\ flat[1] = seqs[1]
                    /\ \A i \in 2 .. Len(seqs) : flat[i] = flat[i - 1] \o seqs[i]
                    /\ FlattenSeq(seqs) = flat[Len(seqs)]
    <3>1. Len(seqs) \in Nat \ {0}
      BY <1>1, <1>2, <1>4
    <3>2. QED
      BY <3>1, FlattenIs
  <2> DEFINE Good(i) == /\ flat[i] \in Seq(Events(S))
                        /\ Received(NoMessage, flat[i]) = Part(blocks, i)
             Numbers == {i \in Nat : i + 1 <= n => Good(i + 1)}
  <2>2. ASSUME NEW i \in 1 .. n
        PROVE  /\ seqs[i] = BlockEvents(i - 1, blocks[i])
               /\ seqs[i] \in Seq(Events(S))
               /\ Received(Part(blocks, i - 1), seqs[i]) = Part(blocks, i)
    <3>1. i - 1 \in Nat /\ i - 1 < Len(blocks) /\ (i - 1) + 1 = i
      BY <1>1
    <3>2. seqs[i] = BlockEvents(i - 1, blocks[i])
      BY <1>1 DEF seqs
    <3>3. seqs[i] \in Seq(Events(S))
      BY <1>2
    <3>4. QED
      BY <3>1, <3>2, <3>3, BlockReceived
  <2>3. Good(1)
    <3>1. 1 \in 1 .. n /\ 1 - 1 = 0
      BY <1>1, <1>4
    <3>2. Part(blocks, 0) = NoMessage
      BY DEF Part, NoMessage
    <3>3. QED
      BY <2>1, <2>2, <3>1, <3>2
  <2>4. ASSUME NEW i \in Nat, i + 1 <= n => Good(i + 1), (i + 1) + 1 <= n
        PROVE  Good((i + 1) + 1)
    <3>1. /\ (i + 1) + 1 \in 2 .. Len(seqs) /\ (i + 1) + 1 \in 1 .. n
          /\ ((i + 1) + 1) - 1 = i + 1 /\ i + 1 <= n
      BY <1>1, <1>2, <2>4
    <3>2. flat[(i + 1) + 1] = flat[i + 1] \o seqs[(i + 1) + 1]
      BY <2>1, <3>1
    <3>3. Good(i + 1)
      BY <2>4, <3>1
    <3>4. flat[(i + 1) + 1] \in Seq(Events(S))
      BY <2>2, <3>1, <3>2, <3>3
    <3>5. Received(NoMessage, flat[(i + 1) + 1]) =
              Received(Received(NoMessage, flat[i + 1]), seqs[(i + 1) + 1])
      BY <2>2, <3>1, <3>2, <3>3, ReceivedThen
    <3>6. QED
      BY <2>2, <3>1, <3>3, <3>4, <3>5
  <2>5. 0 \in Numbers /\ \A i \in Nat : i \in Numbers => i + 1 \in Numbers
    BY <2>3, <2>4
  <2> HIDE DEF Numbers
  <2>6. Nat \subseteq Numbers
    BY <2>5, EveryNat
  <2>7. Good(n)
    <3>1. n - 1 \in Nat /\ (n - 1) + 1 = n /\ n <= n
      BY <1>1, <1>4
    <3>2. QED
      BY <2>6, <3>1 DEF Numbers
  <2>8. Part(blocks, n) = [NoMessage EXCEPT !.blocks = blocks]
    BY <1>1 DEF Part
  <2>9. BlocksEvents(blocks) = flat[n]
    BY <1>2, <2>1 DEF BlocksEvents, seqs
  <2>10. QED
    BY <2>7, <2>8, <2>9
<1>5. QED
  BY <1>3, <1>4

\* What the client of the shim assembles is the message it made, whole.
LEMMA SyntheticReceived ==
    ASSUME NEW S, NEW resp, resp.blocks \in Seq(S), resp.stop # "none"
    PROVE  LET m == Received(NoMessage, writeSyntheticAnthropicStream(resp))
           IN  /\ m.blocks = resp.blocks
               /\ m.stop = IF resp.stop = "" THEN "end_turn" ELSE resp.stop
               /\ m.valid /\ m.ended /\ ~m.open /\ ~m.failed
<1> DEFINE blocks == resp.blocks
           stop == IF resp.stop = "" THEN "end_turn" ELSE resp.stop
           end == <<Stopping(stop), Stopped>>
           E == Events(S) \cup {Stopping(stop), Stopped}
           content == [NoMessage EXCEPT !.blocks = blocks]
           stopping == [content EXCEPT !.stop = stop]
<1>0. stop # "none"
  OBVIOUS
<1>1. writeSyntheticAnthropicStream(resp) = BlocksEvents(blocks) \o end
  BY DEF writeSyntheticAnthropicStream, BlocksEvents
<1>2. BlocksEvents(blocks) \in Seq(E) /\ end \in Seq(E)
  <2>1. BlocksEvents(blocks) \in Seq(Events(S)) /\ Events(S) \subseteq E
    BY BlocksReceived
  <2> DEFINE Evs == Events(S)
  <2> HIDE DEF Evs
  <2>2. \A q \in Seq(Evs) : Evs \subseteq E => q \in Seq(E)
    BY SeqMonotonic
  <2>3. end \in Seq(E)
    OBVIOUS
  <2>4. QED
    BY <2>1, <2>2, <2>3 DEF Evs
<1>3. Received(NoMessage, BlocksEvents(blocks) \o end) = Received(content, end)
  <2> HIDE DEF E, end
  <2>1. Received(NoMessage, BlocksEvents(blocks)) = content
    BY BlocksReceived
  <2>2. QED
    BY <1>2, <2>1, ReceivedThen
<1>4. Received(content, end) = Receive(Receive(content, Stopping(stop)), Stopped)
  <2> HIDE DEF content, stop
  <2>1. QED
    BY ReceivedTwo
<1>5. Receive(content, Stopping(stop)) = stopping
  <2>1. Acceptable(content, Stopping(stop)) /\ Accepted(content, Stopping(stop)) = stopping
    BY DEF Acceptable, Accepted, Stopping, NoMessage, Streaming
  <2>2. QED
    BY <2>1, ReceiveIs
<1>6. Receive(stopping, Stopped) = [stopping EXCEPT !.ended = TRUE]
  <2>1. Acceptable(stopping, Stopped) /\ Accepted(stopping, Stopped) = [stopping EXCEPT !.ended = TRUE]
    BY <1>0 DEF Acceptable, Accepted, Stopped, NoMessage, Streaming
  <2>2. QED
    BY <2>1, ReceiveIs
<1>7. LET m == [stopping EXCEPT !.ended = TRUE]
      IN  /\ m.blocks = resp.blocks /\ m.stop = stop
          /\ m.valid /\ m.ended /\ ~m.open /\ ~m.failed
  BY DEF NoMessage
<1>8. Received(NoMessage, writeSyntheticAnthropicStream(resp)) = [stopping EXCEPT !.ended = TRUE]
  <2> HIDE DEF stopping, content, end
  <2>1. QED
    BY <1>1, <1>3, <1>4, <1>5, <1>6
<1> HIDE DEF stopping
<1>9. QED
  BY <1>7, <1>8

----------------------------------------------------------------------------
(* Where a turn is.                                                        *)

Ids == UpstreamIds \cup ({"minted"} \X Nat)
Roles == {"user", "system", "tool", "assistant"}
Thoughts == {NoReasoning} \cup [by : Convs, at : Nat]

\* What clients have.
Items ==
    [role : Roles, docs : {{}, Docs}, text : BOOLEAN, calls : Seq(Ids),
     reasoning : Thoughts, searched : BOOLEAN]

Stages == {"query", "answer"}

Typed ==
    /\ history \in [Convs -> Seq(Items)]
    /\ pc \in [Convs -> {"idle", "asked", "query", "search", "answer"}]
    /\ queryResp \in [Convs -> BOOLEAN]
    /\ DOMAIN told = Convs
    /\ told = [c \in Convs |-> told[c]]
    /\ spent \in [Convs -> SUBSET Stages]
    /\ minted \in Nat

\* While a turn goes on its client has been told nothing, and where it is says
\* which requests upstream has answered.
Turn(c) ==
    /\ pc[c] # "idle" => told[c] = Nothing
    /\ pc[c] = "query" => spent[c] = {}
    /\ pc[c] \in {"search", "answer"} => spent[c] = Asked(c)

\* SearchTold, of one conversation.
Told(c) ==
    pc[c] = "idle" /\ told[c] # Nothing =>
        IF told[c] = Refused THEN spent[c] = {}
        ELSE LET m == told[c].message
                 searched == Last(history[c]).searched
                 kinds == [i \in DOMAIN m.blocks |-> m.blocks[i].kind]
             IN  /\ m.valid /\ m.ended /\ ~m.open
                 /\ told[c].usage = spent[c]
                 /\ StopTold(m, told[c].of)
                 /\ \A i \in DOMAIN kinds : kinds[i] = "tool_use" => m.blocks[i].declared
                 /\ searched =>
                    /\ Len(kinds) >= 3
                    /\ SubSeq(kinds, 1, 2) = <<"server_tool_use", "web_search_tool_result">>
                    /\ m.blocks[2].for = m.blocks[1].id
                    /\ \A i \in 3 .. Len(kinds) : kinds[i] \in {"text", "thinking"}
                    /\ "answer" \in spent[c] => m.blocks[2].usable

TurnInv == Typed /\ \A c \in Convs : Turn(c) /\ Told(c)

\* What the client of the shim is told: a message and the answer it is of.
Heeded(resp, answer, streamed) ==
    [message |-> Delivered(resp, streamed), usage |-> resp.usage, of |-> answer]

\* The client has the message as it was made, in one piece or streamed, but for
\* a stop reason that is missing.
LEMMA AnswerTold ==
    ASSUME NEW S, NEW resp, resp.blocks \in Seq(S), resp.stop # "none",
           NEW answer, NEW streamed \in BOOLEAN
    PROVE  LET m == Heeded(resp, answer, streamed).message
           IN  /\ m.valid /\ m.ended /\ ~m.open /\ ~m.failed
               /\ m.blocks = resp.blocks
               /\ StopTold(resp, answer) => StopTold(m, answer)
<1> DEFINE m == Delivered(resp, streamed)
<1>1. /\ m.blocks = resp.blocks
      /\ m.valid /\ m.ended /\ ~m.open /\ ~m.failed
      /\ m.stop = "tool_use" <=> resp.stop = "tool_use"
      /\ m.stop = "max_tokens" <=> resp.stop = "max_tokens"
  <2>1. CASE streamed
    BY <2>1, SyntheticReceived DEF Delivered
  <2>2. CASE ~streamed
    BY <2>2 DEF Delivered, NoMessage
  <2>3. QED
    BY <2>1, <2>2
<1>2. Heeded(resp, answer, streamed).message = m
  BY DEF Heeded
<1> HIDE DEF m
<1>3. Calls(m) = Calls(resp)
  BY <1>1 DEF Calls
<1>4. StopTold(resp, answer) => StopTold(m, answer)
  BY <1>1, <1>3 DEF StopTold
<1>5. QED
  BY <1>1, <1>2, <1>4

\* A message has calls when a block of it is one.
LEMMA CallsAre ==
    ASSUME NEW S, NEW m, m.blocks \in Seq(S)
    PROVE  Calls(m) # <<>> <=> \E i \in DOMAIN m.blocks : m.blocks[i].kind = "tool_use"
<1> DEFINE places == {i \in DOMAIN m.blocks : m.blocks[i].kind = "tool_use"}
           Of == {m.blocks[i] : i \in DOMAIN m.blocks \cap places}
<1>1. Calls(m) = Picked(m.blocks, places)
  BY DEF Calls
<1>2. places # {} <=> \E i \in DOMAIN m.blocks : m.blocks[i].kind = "tool_use"
  OBVIOUS
<1>3. places \subseteq DOMAIN m.blocks
  OBVIOUS
<1> HIDE DEF places
<1>4. Picked(m.blocks, places) \in Seq(Of) /\ (places # {} => Picked(m.blocks, places) # <<>>)
  BY <1>3, PickedOf
<1>5. places = {} => Picked(m.blocks, places) = <<>>
  <2>1. ASSUME places = {} PROVE Of = {}
    BY <2>1
  <2> HIDE DEF Of
  <2>2. ASSUME places = {}, Picked(m.blocks, places) # <<>> PROVE FALSE
    <3> DEFINE got == Picked(m.blocks, places)
    <3>1. got \in Seq(Of) /\ got # <<>>
      BY <1>4, <2>2
    <3> HIDE DEF got
    <3>2. 1 \in 1 .. Len(got) /\ got[1] \in Of
      BY <3>1, EmptySeq
    <3>3. QED
      BY <2>1, <2>2, <3>2
  <2>3. QED
    BY <2>2
<1>6. QED
  BY <1>1, <1>2, <1>4, <1>5

\* What ConvertResponse makes of an answer.
Read == [kind : {"thinking", "text"}]
Used == [kind : {"tool_use"}, id : Ids, declared : BOOLEAN]
Stops == {"max_tokens", "tool_use", "end_turn", ""}

OfAnswer(resp, stage) ==
    resp \in [blocks : Seq(Read \cup Used), stop : Stops, usage : {{stage}}]

HasCall(resp) == \E i \in DOMAIN resp.blocks : resp.blocks[i].kind = "tool_use"
HasStrange(resp) ==
    \E i \in DOMAIN resp.blocks :
        resp.blocks[i].kind = "tool_use" /\ ~resp.blocks[i].declared

\* What its stop reason says of its calls.
Frank(resp, answer) ==
    /\ resp.stop = "max_tokens" <=> answer.finish = "length"
    /\ resp.stop = "tool_use" =>
        HasCall(resp) \/ (AsksForTools(answer.finish) /\ answer.calls = <<>>)
    /\ HasCall(resp) =>
        resp.stop = "tool_use" \/ answer.finish \in {"length", "content_filter"}
    /\ HasStrange(resp) => Range(answer.calls) \cap answer.strange # {}

\* The calls of an answer as blocks.
Called(answer, ids) ==
    [i \in DOMAIN ids |-> [kind |-> "tool_use", id |-> ids[i],
                           declared |-> answer.calls[i] \notin answer.strange]]

LEMMA CalledBlocks ==
    ASSUME NEW answer, NEW ids \in Seq(Ids), answer.calls \in Seq(UpstreamIds),
           Len(ids) = Len(answer.calls)
    PROVE  LET calls == Picked(Called(answer, ids), Whole(answer))
           IN  /\ calls \in Seq(Used)
               /\ answer.finish # "length" /\ answer.calls # <<>> => calls # <<>>
               /\ answer.calls = <<>> => calls = <<>>
               /\ (\E i \in DOMAIN calls : ~calls[i].declared) =>
                        Range(answer.calls) \cap answer.strange # {}
<1> DEFINE called == Called(answer, ids)
           calls == Picked(called, Whole(answer))
           Of == {called[i] : i \in DOMAIN called \cap Whole(answer)}
<1>1. /\ DOMAIN ids = 1 .. Len(ids) /\ Len(ids) \in Nat /\ \A i \in DOMAIN ids : ids[i] \in Ids
      /\ DOMAIN answer.calls = 1 .. Len(ids)
  OBVIOUS
<1>2. \A i \in 1 .. Len(ids) :
        /\ called[i] = [kind |-> "tool_use", id |-> ids[i],
                        declared |-> answer.calls[i] \notin answer.strange]
        /\ called[i] \in Used
  BY <1>1 DEF Called, Used
<1>3. called \in [1 .. Len(ids) -> Used]
  BY <1>1, <1>2 DEF Called
<1> HIDE DEF called
<1>4. called \in Seq(Used) /\ Len(called) = Len(ids) /\ DOMAIN called = 1 .. Len(ids)
  <2> HIDE DEF Used
  <2>1. QED
    BY <1>1, <1>3
<1>5. calls \in Seq(Of) /\ (DOMAIN called \cap Whole(answer) # {} => calls # <<>>)
  BY <1>4, PickedOf
<1>6. Of \subseteq Used
  BY <1>2, <1>4
<1>7. \A b \in Of : ~b.declared => Range(answer.calls) \cap answer.strange # {}
  <2>1. SUFFICES ASSUME NEW i \in 1 .. Len(ids), ~called[i].declared
                 PROVE  Range(answer.calls) \cap answer.strange # {}
    BY <1>4
  <2>2. answer.calls[i] \in answer.strange
    <3>1. ASSUME answer.calls[i] \notin answer.strange PROVE called[i].declared
      <4>1. called[i] = [kind |-> "tool_use", id |-> ids[i], declared |-> TRUE]
        BY <1>2, <3>1
      <4>2. QED
        BY <4>1
    <3>2. QED
      BY <2>1, <3>1
  <2>3. answer.calls[i] \in Range(answer.calls)
    BY <1>1 DEF Range
  <2>4. QED
    BY <2>2, <2>3
<1>8. ASSUME answer.finish # "length", answer.calls # <<>>
      PROVE  DOMAIN called \cap Whole(answer) # {}
  <2>1. 1 \in DOMAIN answer.calls
    BY <1>1, <1>8, EmptySeq
  <2>2. 1 \in Whole(answer)
    BY <1>8, <2>1 DEF Whole
  <2>3. QED
    BY <1>1, <1>4, <2>1, <2>2
<1>9. answer.calls = <<>> => Of = {}
  <2>1. ASSUME answer.calls = <<>> PROVE Whole(answer) = {}
    BY <2>1 DEF Whole
  <2>2. QED
    BY <2>1
<1> HIDE DEF Of, calls
<1>10. calls \in Seq(Used)
  <2> HIDE DEF Used
  <2>1. QED
    BY <1>5, <1>6, SeqMonotonic
<1>11. calls # <<>> => \E b \in Of : TRUE
  <2>1. calls # <<>> => 1 \in 1 .. Len(calls)
    BY <1>5, EmptySeq
  <2>2. QED
    BY <1>5, <2>1
<1>12. \A i \in DOMAIN calls : calls[i] \in Of
  BY <1>5
<1>13. QED
  BY <1>5, <1>7, <1>8, <1>9, <1>10, <1>11, <1>12 DEF calls, called

LEMMA ResponseConverted ==
    ASSUME NEW answer, NEW ids \in Seq(Ids), NEW stage,
           answer.calls \in Seq(UpstreamIds), Len(ids) = Len(answer.calls),
           answer.finish \in Finishes, answer.finish = "no_choice" => answer.calls = <<>>
    PROVE  /\ OfAnswer(ConvertResponse(answer, ids, stage), stage)
           /\ Frank(ConvertResponse(answer, ids, stage), answer)
<1> DEFINE resp == ConvertResponse(answer, ids, stage)
           B == Read \cup Used
           calls == Picked(Called(answer, ids), Whole(answer))
           thought == IF answer.reasoning # NoReasoning THEN <<[kind |-> "thinking"]>> ELSE <<>>
           said == IF answer.text THEN <<[kind |-> "text"]>> ELSE <<>>
           front == thought \o said
           stop == finishReasonToStopForMessage(answer.finish, calls # <<>>)
<1>1. resp = [blocks |-> thought \o said \o calls, stop |-> stop, usage |-> {stage}]
  BY DEF ConvertResponse, Called
<1>2. /\ calls \in Seq(Used)
      /\ answer.finish # "length" /\ answer.calls # <<>> => calls # <<>>
      /\ answer.calls = <<>> => calls = <<>>
      /\ (\E i \in DOMAIN calls : ~calls[i].declared) =>
               Range(answer.calls) \cap answer.strange # {}
  BY CalledBlocks
<1>3. stop \in Stops
  BY DEF finishReasonToStopForMessage, Finishes, Stops
<1>4. /\ stop = "max_tokens" <=> answer.finish = "length"
      /\ stop = "tool_use" => calls # <<>> \/ AsksForTools(answer.finish)
      /\ calls # <<>> => stop = "tool_use" \/ answer.finish \in {"length", "content_filter"}
  BY <1>2 DEF finishReasonToStopForMessage, Finishes, AsksForTools
<1>5. stop = "tool_use" => calls # <<>> \/ (AsksForTools(answer.finish) /\ answer.calls = <<>>)
  BY <1>2, <1>4
<1> HIDE DEF calls, stop, resp
<1>6. front \in Seq(Read)
  <2>1. [kind |-> "thinking"] \in Read /\ [kind |-> "text"] \in Read
    BY DEF Read
  <2>2. thought \in Seq(Read) /\ said \in Seq(Read)
    <3>1. <<[kind |-> "thinking"]>> \in Seq(Read) /\ <<[kind |-> "text"]>> \in Seq(Read)
          /\ <<>> \in Seq(Read)
      <4> DEFINE b == [kind |-> "thinking"]
                 d == [kind |-> "text"]
      <4>1. b \in Read /\ d \in Read
        BY <2>1
      <4> HIDE DEF b, d, Read
      <4> DEFINE R == Read
      <4>3. b \in R /\ d \in R
        BY <4>1
      <4> HIDE DEF R
      <4>2. <<b>> \in Seq(R) /\ <<d>> \in Seq(R) /\ <<>> \in Seq(R)
        BY <4>3
      <4>4. QED
        BY <4>2 DEF b, d, R
    <3> HIDE DEF Read
    <3>2. QED
      BY <3>1
  <2> HIDE DEF thought, said, Read
  <2>3. QED
    BY <2>2, ConcatProperties
<1>7. resp = [blocks |-> front \o calls, stop |-> stop, usage |-> {stage}]
  BY <1>1
<1> HIDE DEF front, thought, said
<1> DEFINE n == Len(front)
           k == Len(calls)
           all == front \o calls
<1>8. front \in Seq(B) /\ calls \in Seq(B)
  <2> DEFINE R == Read
             U == Used
  <2>1. front \in Seq(R) /\ calls \in Seq(U) /\ R \subseteq B /\ U \subseteq B
    BY <1>2, <1>6
  <2> HIDE DEF R, U, B
  <2>2. QED
    BY <2>1, SeqMonotonic
<1> HIDE DEF B
<1>9. /\ all \in Seq(B) /\ Len(all) = n + k
       /\ \A i \in 1 .. n + k : all[i] = IF i <= n THEN front[i] ELSE calls[i - n]
  BY <1>8, ConcatProperties
<1>10. n \in Nat /\ k \in Nat /\ DOMAIN calls = 1 .. k
  BY <1>8
<1> HIDE DEF all
<1>11. DOMAIN all = 1 .. n + k
  <2> HIDE DEF n, k
  <2>1. QED
    BY <1>9
<1>12. /\ \A i \in 1 .. n : front[i] \in Read
       /\ \A i \in 1 .. k : calls[i] \in Used
  <2> DEFINE R == Read
             U == Used
  <2>1. front \in Seq(R) /\ calls \in Seq(U)
    BY <1>2, <1>6
  <2> HIDE DEF R, U
  <2>2. \A i \in 1 .. n : front[i] \in R
    BY <2>1
  <2>3. \A i \in 1 .. k : calls[i] \in U
    BY <2>1
  <2>4. QED
    BY <2>2, <2>3 DEF R, U
<1>13. calls # <<>> <=> k # 0
  BY <1>8, EmptySeq
<1>14. resp = [blocks |-> all, stop |-> stop, usage |-> {stage}]
  BY <1>7 DEF all
<1> HIDE DEF n, k
<1>15. resp.blocks = all /\ resp.stop = stop /\ OfAnswer(resp, stage)
  <2>1. resp.blocks = all /\ resp.stop = stop
    BY <1>14
  <2>2. resp \in [blocks : Seq(B), stop : Stops, usage : {{stage}}]
    BY <1>3, <1>9, <1>14
  <2>3. QED
    BY <2>1, <2>2 DEF OfAnswer, B
<1>16. ASSUME NEW i \in DOMAIN resp.blocks, resp.blocks[i].kind = "tool_use"
       PROVE  i - n \in DOMAIN calls /\ calls[i - n] = resp.blocks[i]
  <2>1. i \in 1 .. n + k
    BY <1>15, <1>11
  <2>2. ASSUME i <= n PROVE FALSE
    <3>1. resp.blocks[i] = front[i] /\ i \in 1 .. n
      BY <1>15, <1>9, <1>10, <2>1, <2>2
    <3>2. front[i] \in Read
      BY <1>12, <3>1
    <3>3. QED
      BY <1>16, <3>1, <3>2 DEF Read
  <2>3. i - n \in 1 .. k
    BY <1>10, <2>1, <2>2
  <2>4. QED
    BY <1>15, <1>9, <1>10, <2>1, <2>2, <2>3
<1>17. HasCall(resp) <=> calls # <<>>
  <2>1. HasCall(resp) => calls # <<>>
    BY <1>16, <1>10, <1>13 DEF HasCall
  <2>2. ASSUME calls # <<>> PROVE HasCall(resp)
    <3>1. 1 \in 1 .. k /\ n + 1 \in 1 .. n + k /\ ~(n + 1 <= n) /\ (n + 1) - n = 1
      BY <1>10, <1>13, <2>2
    <3>2. resp.blocks[n + 1] = calls[1]
      BY <1>15, <1>9, <3>1
    <3>3. calls[1].kind = "tool_use"
      BY <1>12, <3>1 DEF Used
    <3>4. n + 1 \in DOMAIN resp.blocks
      BY <1>15, <1>11, <3>1
    <3>5. QED
      BY <3>2, <3>3, <3>4 DEF HasCall
  <2>3. QED
    BY <2>1, <2>2
<1>18. HasStrange(resp) => Range(answer.calls) \cap answer.strange # {}
  BY <1>2, <1>16 DEF HasStrange
<1>19. Frank(resp, answer)
  BY <1>4, <1>5, <1>15, <1>17, <1>18 DEF Frank
<1>20. QED
  BY <1>15, <1>19 DEF resp

\* What is left of it for a client without some of the tools.
LEMMA Filtered ==
    ASSUME NEW resp, NEW stage, NEW answer, OfAnswer(resp, stage), Frank(resp, answer),
           answer # Nothing
    PROVE  LET given == filterUndeclaredToolUses(resp)
           IN  /\ OfAnswer(given, stage)
               /\ StopTold(given, answer)
               /\ \A i \in DOMAIN given.blocks :
                    given.blocks[i].kind = "tool_use" => given.blocks[i].declared
<1> DEFINE B == Read \cup Used
           blocks == resp.blocks
           Kept(i) == blocks[i].kind = "tool_use" => blocks[i].declared
           kept == {i \in DOMAIN blocks : Kept(i)}
           left == Picked(blocks, kept)
           stop == IF kept # DOMAIN blocks /\ resp.stop = "tool_use" THEN "end_turn" ELSE resp.stop
           given == filterUndeclaredToolUses(resp)
           Of == {blocks[i] : i \in DOMAIN blocks \cap kept}
<1>1. resp \in [blocks : Seq(B), stop : Stops, usage : {{stage}}]
  BY DEF OfAnswer
<1>2. given = [blocks |-> left, stop |-> stop, usage |-> {stage}]
  <2> HIDE DEF B, Stops, left
  <2>1. given = [resp EXCEPT !.blocks = left, !.stop = stop]
    BY DEF filterUndeclaredToolUses, left
  <2>2. resp = [blocks |-> resp.blocks, stop |-> resp.stop, usage |-> resp.usage]
        /\ resp.usage = {stage}
    BY <1>1
  <2> HIDE DEF stop, given
  <2>3. QED
    BY <1>1, <2>1, <2>2
<1>3. blocks \in Seq(B) /\ resp.stop \in Stops
  BY <1>1
<1>4. kept \subseteq DOMAIN blocks /\ \A i \in kept : Kept(i)
  OBVIOUS
<1>5. HasStrange(resp) <=> kept # DOMAIN blocks
  BY DEF HasStrange
<1>6. stop \in Stops
  BY <1>3 DEF Stops
<1>7. \A b \in Of : b \in B /\ (b.kind = "tool_use" => b.declared)
  <2> HIDE DEF B
  <2>1. QED
    BY <1>3, <1>4
<1>8. ASSUME NEW i \in DOMAIN blocks, i \in kept
      PROVE  \E j \in DOMAIN left : left[j] = blocks[i]
  <2> HIDE DEF kept, B
  <2>1. QED
    BY <1>3, <1>8, PickedHas
<1>9. left \in Seq(Of)
  <2> HIDE DEF kept, B
  <2>1. QED
    BY <1>3, PickedOf
<1> HIDE DEF left, Of, given
<1>10. left \in Seq(B)
  <2>1. Of \subseteq B
    BY <1>7
  <2> HIDE DEF B
  <2>2. QED
    BY <1>9, <2>1, SeqMonotonic
<1>11. /\ given.blocks = left /\ given.stop = stop
       /\ given \in [blocks : Seq(B), stop : Stops, usage : {{stage}}]
  <2> HIDE DEF B, Stops, stop, kept
  <2>1. QED
    BY <1>2, <1>6, <1>10
<1>12. \A i \in DOMAIN left : left[i].kind = "tool_use" => left[i].declared
  <2>1. \A i \in DOMAIN left : left[i] \in Of
    BY <1>9
  <2>2. QED
    BY <1>7, <2>1
<1>13. HasCall(given) => HasCall(resp)
  <2>1. ASSUME NEW j \in DOMAIN left, left[j].kind = "tool_use"
        PROVE  \E i \in DOMAIN blocks : blocks[i].kind = "tool_use"
    <3>1. left[j] \in Of
      BY <1>9
    <3>2. QED
      BY <2>1, <3>1 DEF Of
  <2>2. QED
    BY <1>11, <2>1 DEF HasCall
<1>14. HasCall(resp) /\ ~HasStrange(resp) => HasCall(given)
  <2>1. ASSUME NEW i \in DOMAIN blocks, blocks[i].kind = "tool_use", ~HasStrange(resp)
        PROVE  HasCall(given)
    <3>1. i \in kept
      BY <1>5, <2>1
    <3>2. PICK j \in DOMAIN left : left[j] = blocks[i]
      BY <1>8, <3>1
    <3>3. QED
      BY <1>11, <2>1, <3>2 DEF HasCall
  <2>2. QED
    BY <2>1 DEF HasCall
<1>15. Calls(given) # <<>> <=> HasCall(given)
  <2> HIDE DEF B
  <2>1. QED
    BY <1>10, <1>11, CallsAre DEF HasCall
<1>16. stop = IF HasStrange(resp) /\ resp.stop = "tool_use" THEN "end_turn" ELSE resp.stop
  BY <1>5
<1> HIDE DEF stop, kept
<1>17. StopTold(given, answer)
  BY <1>11, <1>13, <1>14, <1>15, <1>16 DEF StopTold, Frank
<1>18. QED
  BY <1>11, <1>12, <1>17 DEF OfAnswer, given

\* A message that shows a search and something to read after it.
Shows(m, answer, found) ==
    LET kinds == [i \in DOMAIN m.blocks |-> m.blocks[i].kind]
    IN  /\ m.valid /\ m.ended /\ ~m.open /\ ~m.failed
        /\ StopTold(m, answer)
        /\ \A i \in DOMAIN kinds : kinds[i] # "tool_use"
        /\ Len(kinds) >= 3
        /\ SubSeq(kinds, 1, 2) = <<"server_tool_use", "web_search_tool_result">>
        /\ m.blocks[2].for = m.blocks[1].id
        /\ \A i \in 3 .. Len(kinds) : kinds[i] \in {"text", "thinking"}
        /\ m.blocks[2].usable = found

LEMMA SearchShown ==
    ASSUME NEW found \in BOOLEAN, NEW rest \in Seq(Read), rest # <<>>,
           NEW resp, resp.blocks = webSearchServerBlocks(found) \o rest,
           resp.stop \in {"max_tokens", "end_turn"},
           NEW answer, NEW streamed \in BOOLEAN,
           resp.stop = "max_tokens" <=> answer # Nothing /\ answer.finish = "length"
    PROVE  Shows(Heeded(resp, answer, streamed).message, answer, found)
<1> DEFINE m == Heeded(resp, answer, streamed).message
           blocks == resp.blocks
           kinds == [i \in DOMAIN blocks |-> blocks[i].kind]
           use == [kind |-> "server_tool_use", id |-> "search"]
           result == [kind |-> "web_search_tool_result", for |-> "search", usable |-> found]
           S == Read \cup {use, result}
<1>1. blocks = <<use, result>> \o rest
  BY DEF webSearchServerBlocks
<1>2. <<use, result>> \in Seq(S) /\ rest \in Seq(S)
  <2>1. Read \subseteq S /\ use \in S /\ result \in S
    OBVIOUS
  <2> HIDE DEF S, use, result
  <2>2. QED
    BY <2>1, SeqMonotonic
<1>3. Len(rest) \in Nat /\ Len(rest) # 0 /\ \A i \in 1 .. Len(rest) : rest[i] \in Read
  BY EmptySeq
<1>4. /\ blocks \in Seq(S) /\ Len(blocks) = 2 + Len(rest)
      /\ blocks[1] = use /\ blocks[2] = result
      /\ \A i \in 3 .. Len(blocks) : blocks[i] \in Read
  <2> DEFINE two == <<use, result>>
  <2>1. Len(two) = 2 /\ two[1] = use /\ two[2] = result
    OBVIOUS
  <2> HIDE DEF S, use, result, two
  <2>2. two \in Seq(S) /\ blocks = two \o rest
    BY <1>1, <1>2 DEF two
  <2> HIDE DEF blocks
  <2>3. /\ blocks \in Seq(S) /\ Len(blocks) = 2 + Len(rest)
        /\ \A i \in 1 .. 2 + Len(rest) :
              blocks[i] = IF i <= 2 THEN two[i] ELSE rest[i - 2]
    <3>1. /\ two \o rest \in Seq(S) /\ Len(two \o rest) = Len(two) + Len(rest)
          /\ \A i \in 1 .. Len(two) + Len(rest) :
                (two \o rest)[i] = IF i <= Len(two) THEN two[i] ELSE rest[i - Len(two)]
      BY <1>2, <2>2, ConcatProperties
    <3>2. QED
      BY <2>1, <2>2, <3>1
  <2>4. blocks[1] = use /\ blocks[2] = result
    <3>1. 1 \in 1 .. 2 + Len(rest) /\ 2 \in 1 .. 2 + Len(rest)
      BY <1>3
    <3>2. QED
      BY <2>1, <2>3, <3>1
  <2>5. ASSUME NEW i \in 3 .. Len(blocks) PROVE blocks[i] \in Read
    <3>1. i - 2 \in 1 .. Len(rest) /\ i \in 1 .. 2 + Len(rest) /\ ~(i <= 2)
      BY <1>3, <2>3
    <3>2. blocks[i] = rest[i - 2]
      BY <2>3, <3>1
    <3>3. QED
      BY <1>3, <3>1, <3>2
  <2>6. QED
    BY <2>3, <2>4, <2>5
<1>5. \A i \in DOMAIN blocks : blocks[i].kind # "tool_use"
  <2>1. \A b \in Read : b.kind # "tool_use"
    BY DEF Read
  <2>2. \A i \in DOMAIN blocks : i = 1 \/ i = 2 \/ i \in 3 .. Len(blocks)
    <3> HIDE DEF blocks, S
    <3>1. DOMAIN blocks = 1 .. Len(blocks) /\ Len(blocks) \in Nat
      BY <1>4
    <3>2. QED
      BY <3>1
  <2>3. use.kind # "tool_use" /\ result.kind # "tool_use"
    OBVIOUS
  <2> HIDE DEF blocks, S, use, result
  <2>4. QED
    BY <1>4, <2>1, <2>2, <2>3
<1>6. /\ m.valid /\ m.ended /\ ~m.open /\ ~m.failed
       /\ m.blocks = blocks /\ StopTold(m, answer)
  <2>1. Calls(resp) = <<>>
    <3> HIDE DEF S
    <3>1. QED
      BY <1>4, <1>5, CallsAre
  <2>2. StopTold(resp, answer)
    BY <2>1 DEF StopTold
  <2> HIDE DEF S
  <2>3. QED
    BY <1>4, <2>2, AnswerTold
<1>7. /\ kinds = [i \in 1 .. Len(blocks) |-> blocks[i].kind]
      /\ Len(blocks) \in Nat /\ Len(blocks) >= 3
  <2> HIDE DEF blocks, S
  <2>1. QED
    BY <1>3, <1>4
<1>8. /\ Len(kinds) = Len(blocks)
      /\ kinds[1] = "server_tool_use" /\ kinds[2] = "web_search_tool_result"
      /\ \A i \in 3 .. Len(blocks) : kinds[i] \in {"text", "thinking"}
  <2>1. blocks[1].kind = "server_tool_use" /\ blocks[2].kind = "web_search_tool_result"
    BY <1>4
  <2>2. \A b \in Read : b.kind \in {"text", "thinking"}
    BY DEF Read
  <2> HIDE DEF blocks, S, use, result, kinds
  <2>3. Len(kinds) = Len(blocks)
    BY <1>7
  <2>4. kinds[1] = blocks[1].kind /\ kinds[2] = blocks[2].kind
    BY <1>7
  <2>5. \A i \in 3 .. Len(blocks) : kinds[i] = blocks[i].kind
    BY <1>7
  <2>6. QED
    BY <1>4, <2>1, <2>2, <2>3, <2>4, <2>5
<1>9. SubSeq(kinds, 1, 2) = <<"server_tool_use", "web_search_tool_result">>
  <2> HIDE DEF blocks, S, use, result, kinds
  <2> DEFINE K == {"server_tool_use", "web_search_tool_result", "text", "thinking"}
             two == SubSeq(kinds, 1, 2)
  <2>1. \A i \in 1 .. 2 : kinds[i] \in K
    BY <1>8
  <2> HIDE DEF K
  <2>2. two \in Seq(K) /\ Len(two) = 2 /\ \A i \in 1 .. 2 : two[i] = kinds[i]
    <3>1. /\ two \in Seq(K)
          /\ Len(two) = IF 1 <= 2 THEN 2 - 1 + 1 ELSE 0
          /\ \A i \in 1 .. 2 - 1 + 1 : two[i] = kinds[1 + i - 1]
      BY <2>1, SubSeqProperties
    <3>2. \A i \in 1 .. 2 : 1 + i - 1 = i
      OBVIOUS
    <3> HIDE DEF two
    <3>3. QED
      BY <3>1, <3>2
  <2> HIDE DEF two
  <2>3. two = <<kinds[1], kinds[2]>>
    BY <2>2
  <2>4. QED
    BY <1>8, <2>3 DEF two
<1>10. blocks[2].for = blocks[1].id /\ blocks[2].usable = found
  BY <1>4
<1>11. \A i \in DOMAIN kinds : kinds[i] # "tool_use"
  <2> HIDE DEF S, use, result
  <2>1. QED
    BY <1>5
<1> HIDE DEF blocks, S, use, result, m
<1>12. Shows(m, answer, found)
  BY <1>6, <1>11, <1>7, <1>8, <1>9, <1>10 DEF Shows
<1>13. QED
  BY <1>12 DEF m

----------------------------------------------------------------------------
(* What a step changes.                                                    *)

LEMMA AnswerTyped ==
    ASSUME NEW answer \in Answers, NEW c
    PROVE  /\ answer.text \in BOOLEAN /\ answer.reasoning \in BOOLEAN
           /\ answer.calls \in Seq(UpstreamIds) /\ answer.finish \in Finishes
           /\ answer.finish = "no_choice" => answer.calls = <<>>
           /\ answer # Nothing
           /\ LET a == Thinking(c, answer)
              IN  /\ a.finish = answer.finish /\ a.calls = answer.calls
                  /\ a.strange = answer.strange
<1>1. answer \in [text : BOOLEAN, reasoning : BOOLEAN, calls : Seq(UpstreamIds),
                  strange : SUBSET UpstreamIds, broken : SUBSET UpstreamIds,
                  search : BOOLEAN, finish : Finishes]
  BY AnswersAssumption DEF AnswersAssumption
<1>2. answer.finish = "no_choice" => answer.calls = <<>>
  BY AnswersAssumption DEF AnswersAssumption
<1>3. answer # Nothing
  BY AnswersAssumption DEF AnswersAssumption
<1> HIDE DEF UpstreamIds, Finishes
<1>4. LET a == Thinking(c, answer)
      IN  a.finish = answer.finish /\ a.calls = answer.calls /\ a.strange = answer.strange
  BY <1>1 DEF Thinking
<1>5. QED
  BY <1>1, <1>2, <1>3, <1>4

LEMMA IdsGiven ==
    ASSUME Typed, NEW c \in Convs, NEW calls \in Seq(UpstreamIds)
    PROVE  /\ GivenIds(c, calls) \in Seq(Ids)
           /\ Len(GivenIds(c, calls)) = Len(calls)
<1>1. minted \in Nat
  BY DEF Typed
<1>2. Len(calls) \in Nat /\ DOMAIN calls = 1 .. Len(calls)
      /\ \A n \in 1 .. Len(calls) : calls[n] \in UpstreamIds
  OBVIOUS
<1>3. CASE traits[c].lane = "messages"
  <2> DEFINE given == [n \in DOMAIN calls |-> ensureToolID(calls[n], n)]
  <2>1. \A n \in 1 .. Len(calls) : ensureToolID(calls[n], n) \in Ids
    BY <1>1, <1>2 DEF ensureToolID, Ids
  <2> HIDE DEF Ids
  <2>2. given \in Seq(Ids) /\ Len(given) = Len(calls)
    BY <1>2, <2>1
  <2>3. GivenIds(c, calls) = given
    BY <1>3 DEF GivenIds
  <2> HIDE DEF given
  <2>4. QED
    BY <1>2, <2>2, <2>3
<1>4. CASE traits[c].lane # "messages"
  <2>1. UpstreamIds \subseteq Ids
    BY DEF Ids
  <2> HIDE DEF UpstreamIds, Ids
  <2>2. QED
    BY <1>4, <2>1, SeqMonotonic DEF GivenIds
<1>5. QED
  BY <1>3, <1>4

\* Some of the ids.
LEMMA IdsPicked ==
    ASSUME Typed, NEW c \in Convs, NEW calls \in Seq(UpstreamIds), NEW places
    PROVE  Picked(GivenIds(c, calls), places) \in Seq(Ids)
<1> DEFINE given == GivenIds(c, calls)
           Of == {given[i] : i \in DOMAIN given \cap places}
<1>1. given \in Seq(Ids)
  BY IdsGiven
<1> HIDE DEF given, Ids
<1>2. Picked(given, places) \in Seq(Of)
  BY <1>1, PickedOf
<1>3. Of \subseteq Ids
  BY <1>1
<1> HIDE DEF Of
<1>4. QED
  BY <1>2, <1>3, SeqMonotonic DEF given

LEMMA ThoughtTyped ==
    ASSUME Typed, NEW c \in Convs, NEW answer
    PROVE  Thought(c, answer) \in Thoughts
<1>1. history[c] \in Seq(Items)
  BY DEF Typed
<1> HIDE DEF Items
<1>2. Len(history[c]) + 1 \in Nat
  BY <1>1
<1>3. QED
  BY <1>2 DEF Thought, Thoughts

LEMMA HeardTyped ==
    ASSUME Typed, NEW c \in Convs, NEW text \in BOOLEAN, NEW calls \in Seq(Ids),
           NEW reasoning \in Thoughts, NEW searched \in BOOLEAN,
           Heard(c, text, calls, reasoning, searched)
    PROVE  /\ history' \in [Convs -> Seq(Items)]
           /\ \A d \in Convs \ {c} : history'[d] = history[d]
           /\ Last(history'[c]).searched = searched
<1> DEFINE item == [role |-> "assistant", docs |-> {}, text |-> text, calls |-> calls,
                    reasoning |-> reasoning, searched |-> searched]
           more == Append(history[c], item)
<1>1. history \in [Convs -> Seq(Items)]
  BY DEF Typed
<1>2. item \in Items /\ item.searched = searched
  BY DEF Items, Roles
<1>3. history' = [history EXCEPT ![c] = more]
  BY DEF Heard
<1> HIDE DEF Items, item
<1>4. /\ more \in Seq(Items) /\ Len(more) = Len(history[c]) + 1
      /\ more[Len(history[c]) + 1] = item
  BY <1>1, <1>2, AppendProperties
<1>5. Last(more).searched = searched
  BY <1>2, <1>4 DEF Last
<1> HIDE DEF more
<1>6. QED
  BY <1>1, <1>3, <1>4, <1>5

LEMMA ContinuedTyped ==
    ASSUME NEW items \in Seq(Items), NEW late \in BOOLEAN
    PROVE  Continued(items, late) \in Seq(Items)
<1> DEFINE none == <<>>
<1>1. \A role \in Roles, docs \in {{}, Docs}, calls \in Seq(Ids) :
          Item(role, docs, calls) \in Items
  BY DEF Item, Items, Thoughts
<1>2. none \in Seq(Ids) /\ "user" \in Roles /\ "system" \in Roles /\ "tool" \in Roles
  BY DEF Roles
<1>3. /\ Item("user", Docs, none) \in Items /\ Item("user", {}, none) \in Items
      /\ Item("system", {}, none) \in Items
      /\ \A calls \in Seq(Ids) : Item("tool", {}, calls) \in Items
  <2> HIDE DEF Items, Roles, Ids, none
  <2>1. QED
    BY <1>1, <1>2
<1>4. items # <<>> => Last(items).calls \in Seq(Ids)
  <2>1. ASSUME items # <<>> PROVE Last(items) \in Items
    <3> HIDE DEF Items
    <3>1. Len(items) \in 1 .. Len(items)
      BY <2>1, EmptySeq
    <3>2. QED
      BY <3>1 DEF Last
  <2>2. QED
    BY <2>1 DEF Items
<1> DEFINE instruction == IF late THEN <<Item("system", {}, none)>> ELSE <<>>
           last == IF Last(items).calls # <<>> THEN <<Item("tool", {}, Last(items).calls)>>
                   ELSE <<Item("user", {}, none)>>
<1>5. Continued(items, late) =
        IF items = <<>> THEN <<Item("user", Docs, none)>>
        ELSE IF Last(items).role # "assistant" THEN items
        ELSE items \o instruction \o last
  BY DEF Continued
<1> HIDE DEF Items, none
<1>6. instruction \in Seq(Items) /\ <<Item("user", Docs, none)>> \in Seq(Items)
  BY <1>3
<1>7. items # <<>> => last \in Seq(Items)
  BY <1>3, <1>4
<1> HIDE DEF instruction, last
<1>8. items # <<>> => items \o instruction \o last \in Seq(Items)
  BY <1>6, <1>7, ConcatProperties
<1>9. QED
  BY <1>5, <1>6, <1>8

\* A conversation that a step does not touch.
LEMMA Untouched ==
    ASSUME NEW d \in Convs, Turn(d), Told(d),
           pc'[d] = pc[d], told'[d] = told[d], spent'[d] = spent[d],
           queryResp'[d] = queryResp[d], history'[d] = history[d]
    PROVE  Turn(d)' /\ Told(d)'
BY DEF Turn, Told, Asked

\* A conversation that is idle, and what its client was told.
LEMMA IdleTold ==
    ASSUME NEW c \in Convs, pc'[c] = "idle", NEW resp, NEW answer, NEW streamed,
           told'[c] = Heeded(resp, answer, streamed),
           LET m == Heeded(resp, answer, streamed).message
               kinds == [i \in DOMAIN m.blocks |-> m.blocks[i].kind]
           IN  /\ m.valid /\ m.ended /\ ~m.open /\ ~m.failed
               /\ resp.usage = spent'[c]
               /\ StopTold(m, answer)
               /\ \A i \in DOMAIN kinds : kinds[i] = "tool_use" => m.blocks[i].declared
               /\ Last(history'[c]).searched =>
                    /\ Len(kinds) >= 3
                    /\ SubSeq(kinds, 1, 2) = <<"server_tool_use", "web_search_tool_result">>
                    /\ m.blocks[2].for = m.blocks[1].id
                    /\ \A i \in 3 .. Len(kinds) : kinds[i] \in {"text", "thinking"}
                    /\ "answer" \in spent'[c] => m.blocks[2].usable
    PROVE  Turn(c)' /\ Told(c)'
<1>1. Turn(c)'
  BY DEF Turn
<1>2. told'[c] # Refused
  <2>1. Refused.message.failed = TRUE
    BY DEF Refused, NoMessage
  <2>2. QED
    BY <2>1
<1>3. told'[c].usage = spent'[c] /\ told'[c].of = answer
  BY DEF Heeded
<1>4. told'[c].message = Heeded(resp, answer, streamed).message
  OBVIOUS
<1> DEFINE m == told'[c].message
           kinds == [i \in DOMAIN m.blocks |-> m.blocks[i].kind]
<1>5. StopTold(m, told'[c].of)
  BY <1>3, <1>4
<1>6. StopTold(told[c].message, told[c].of)'
  BY <1>5 DEF StopTold, Calls
<1> HIDE DEF Heeded
<1>7. /\ m.valid /\ m.ended /\ ~m.open
      /\ \A i \in DOMAIN kinds : kinds[i] = "tool_use" => m.blocks[i].declared
      /\ Last(history'[c]).searched =>
           /\ Len(kinds) >= 3
           /\ SubSeq(kinds, 1, 2) = <<"server_tool_use", "web_search_tool_result">>
           /\ m.blocks[2].for = m.blocks[1].id
           /\ \A i \in 3 .. Len(kinds) : kinds[i] \in {"text", "thinking"}
           /\ "answer" \in spent'[c] => m.blocks[2].usable
  BY <1>4
<1>8. QED
  BY <1>1, <1>2, <1>3, <1>6, <1>7 DEF Told

\* The rest of a step that touches one conversation.
LEMMA OneTouched ==
    ASSUME TurnInv, NEW c \in Convs, Typed', Turn(c)' /\ Told(c)',
           \A d \in Convs \ {c} :
              /\ pc'[d] = pc[d] /\ told'[d] = told[d] /\ spent'[d] = spent[d]
              /\ queryResp'[d] = queryResp[d] /\ history'[d] = history[d]
    PROVE  TurnInv'
<1>1. ASSUME NEW d \in Convs PROVE Turn(d)' /\ Told(d)'
  <2>1. CASE d = c
    BY <2>1
  <2>2. CASE d # c
    <3>1. Turn(d) /\ Told(d)
      BY DEF TurnInv
    <3>2. /\ pc'[d] = pc[d] /\ told'[d] = told[d] /\ spent'[d] = spent[d]
          /\ queryResp'[d] = queryResp[d] /\ history'[d] = history[d]
      BY <2>2
    <3>3. QED
      BY <3>1, <3>2, Untouched
  <2>3. QED
    BY <2>1, <2>2
<1>2. QED
  BY <1>1 DEF TurnInv

----------------------------------------------------------------------------
(* The initial states, and the actions one by one.                         *)

LEMMA TurnInit == Init => TurnInv
<1> SUFFICES ASSUME Init PROVE TurnInv
  OBVIOUS
<1> DEFINE none == <<>>
<1>1. none \in Seq(Items)
  OBVIOUS
<1>2. Typed
  <2> HIDE DEF none
  <2>1. history = [c \in Convs |-> none]
    BY DEF Init, none
  <2>2. history \in [Convs -> Seq(Items)]
    <3> HIDE DEF Items
    <3>1. QED
      BY <1>1, <2>1
  <2>3. QED
    BY <2>2 DEF Init, Typed
<1>3. \A c \in Convs : Turn(c) /\ Told(c)
  BY DEF Init, Turn, Told
<1>4. QED
  BY <1>2, <1>3 DEF TurnInv

LEMMA SendTurn ==
    ASSUME TurnInv, NEW c \in Convs, Send(c)
    PROVE  TurnInv'
<1>1. Typed
  BY DEF TurnInv
<1>2. PICK late \in BOOLEAN, step \in {"asked", "query", "search", "idle"} :
        /\ history' = [history EXCEPT ![c] = Continued(history[c], late)]
        /\ pc' = [pc EXCEPT ![c] = step]
        /\ told' = [told EXCEPT ![c] = IF step = "idle" THEN Refused ELSE Nothing]
  <2>1. PICK flip \in BOOLEAN, late \in BOOLEAN :
          LET items == Continued(history[c], late)
          IN  /\ history' = [history EXCEPT ![c] = items]
              /\ \E ready \in Prepared(c, items, flip), step \in FirstSteps(c, items) :
                    /\ pc' = [pc EXCEPT ![c] = step]
                    /\ told' = [told EXCEPT ![c] = IF step = "idle" THEN Refused ELSE Nothing]
    BY DEF Send
  <2>2. FirstSteps(c, Continued(history[c], late)) \subseteq {"asked", "query", "search", "idle"}
    BY DEF FirstSteps
  <2>3. QED
    BY <2>1, <2>2
<1>3. /\ queryResp' = [queryResp EXCEPT ![c] = FALSE]
      /\ spent' = [spent EXCEPT ![c] = {}]
      /\ minted' = minted
  BY DEF Send
<1>4. Continued(history[c], late) \in Seq(Items)
  BY <1>1, ContinuedTyped DEF Typed
<1>5. Typed'
  <2> HIDE DEF Items
  <2>1. history' \in [Convs -> Seq(Items)]
    BY <1>1, <1>2, <1>4 DEF Typed
  <2>2. QED
    BY <1>1, <1>2, <1>3, <2>1 DEF Typed
<1>6. /\ pc'[c] \in {"search", "query", "asked", "idle"}
      /\ told'[c] = IF pc'[c] = "idle" THEN Refused ELSE Nothing
      /\ spent'[c] = {} /\ queryResp'[c] = FALSE
  BY <1>1, <1>2, <1>3 DEF Typed
<1>7. Turn(c)' /\ Told(c)'
  <2>1. Refused' = Refused
    BY DEF Refused, NoMessage
  <2>2. QED
    BY <1>6, <2>1 DEF Turn, Told, Asked
<1>8. \A d \in Convs \ {c} :
        /\ pc'[d] = pc[d] /\ told'[d] = told[d] /\ spent'[d] = spent[d]
        /\ queryResp'[d] = queryResp[d] /\ history'[d] = history[d]
  BY <1>1, <1>2, <1>3 DEF Typed
<1>9. QED
  BY <1>5, <1>7, <1>8, OneTouched

LEMMA ReplyTurn ==
    ASSUME TurnInv, NEW c \in Convs, Reply(c)
    PROVE  TurnInv'
<1>1. Typed /\ Turn(c)
  BY DEF TurnInv
<1>2. PICK answer \in Answers :
        /\ Heard(c, answer.text, WholeIds(c, answer), Thought(c, answer), FALSE)
        /\ Remember(c, answer) \/ minted' = minted
  BY DEF Reply
<1>3. /\ pc[c] = "asked" /\ pc' = [pc EXCEPT ![c] = "idle"]
      /\ UNCHANGED <<queryResp, told, spent>>
  BY DEF Reply, Done
<1>4. WholeIds(c, answer) \in Seq(Ids)
  BY <1>1, AnswerTyped, IdsPicked DEF WholeIds
<1>5. /\ history' \in [Convs -> Seq(Items)]
      /\ \A d \in Convs \ {c} : history'[d] = history[d]
  BY <1>1, <1>2, <1>4, AnswerTyped, ThoughtTyped, HeardTyped
<1>6. minted' \in Nat
  <2> HIDE DEF UpstreamIds
  <2>1. Len(answer.calls) \in Nat /\ minted \in Nat
    <3>1. answer.calls \in Seq(UpstreamIds)
      BY AnswerTyped
    <3>2. QED
      BY <1>1, <3>1 DEF Typed
  <2>2. QED
    BY <1>2, <2>1 DEF Remember
<1>7. Typed'
  BY <1>1, <1>3, <1>5, <1>6 DEF Typed
<1>8. Turn(c)' /\ Told(c)'
  BY <1>1, <1>3 DEF Turn, Told, Typed
<1>9. \A d \in Convs \ {c} :
        /\ pc'[d] = pc[d] /\ told'[d] = told[d] /\ spent'[d] = spent[d]
        /\ queryResp'[d] = queryResp[d] /\ history'[d] = history[d]
  BY <1>1, <1>3, <1>5 DEF Typed
<1>10. QED
  BY <1>7, <1>8, <1>9, OneTouched

LEMMA FailsTurn ==
    ASSUME TurnInv, NEW c \in Convs, Fails(c)
    PROVE  TurnInv'
<1>1. Typed /\ Turn(c)
  BY DEF TurnInv
<1>2. /\ pc[c] \in {"asked", "query"} /\ pc' = [pc EXCEPT ![c] = "idle"]
      /\ told' = [told EXCEPT ![c] = IF pc[c] = "query" THEN Refused ELSE @]
      /\ UNCHANGED <<history, queryResp, spent, minted>>
  BY DEF Fails, Done
<1>3. Typed'
  BY <1>1, <1>2 DEF Typed
<1>4. CASE pc[c] = "query"
  <2>1. pc'[c] = "idle" /\ told'[c] = Refused /\ spent'[c] = {}
    BY <1>1, <1>2, <1>4 DEF Typed, Turn
  <2>2. Turn(c)' /\ Told(c)'
    BY <2>1 DEF Turn, Told, Refused
  <2>3. \A d \in Convs \ {c} :
          /\ pc'[d] = pc[d] /\ told'[d] = told[d] /\ spent'[d] = spent[d]
          /\ queryResp'[d] = queryResp[d] /\ history'[d] = history[d]
    BY <1>1, <1>2 DEF Typed
  <2>4. QED
    BY <1>3, <2>2, <2>3, OneTouched
<1>5. CASE pc[c] = "asked"
  <2>1. pc'[c] = "idle" /\ told'[c] = Nothing
    BY <1>1, <1>2, <1>5 DEF Typed, Turn
  <2>2. Turn(c)' /\ Told(c)'
    BY <2>1 DEF Turn, Told
  <2>3. \A d \in Convs \ {c} :
          /\ pc'[d] = pc[d] /\ told'[d] = told[d] /\ spent'[d] = spent[d]
          /\ queryResp'[d] = queryResp[d] /\ history'[d] = history[d]
    BY <1>1, <1>2 DEF Typed
  <2>4. QED
    BY <1>3, <2>2, <2>3, OneTouched
<1>6. QED
  BY <1>2, <1>4, <1>5

LEMMA QueryAnsweredTurn ==
    ASSUME TurnInv, NEW c \in Convs, QueryAnswered(c)
    PROVE  TurnInv'
<1>1. Typed /\ Turn(c)
  BY DEF TurnInv
<1>2. /\ pc[c] = "query" /\ spent' = [spent EXCEPT ![c] = @ \cup {"query"}]
      /\ spent'[c] = {"query"}
  BY <1>1 DEF QueryAnswered, Turn, Typed
<1> DEFINE Resp(a) == filterUndeclaredToolUses(
                        ConvertResponse(Thinking(c, a), GivenIds(c, a.calls), "query"))
           Known(a) == {i \in Whole(a) : a.calls[i] \notin a.strange}
<1>3. PICK answer \in Answers, streamed \in BOOLEAN :
        IF extractWebSearchCall(answer)
        THEN /\ queryResp' = [queryResp EXCEPT ![c] = TRUE]
             /\ pc' = [pc EXCEPT ![c] = "search"]
             /\ UNCHANGED <<history, told, minted>>
        ELSE /\ told' = [told EXCEPT ![c] = Heeded(Resp(answer), answer, streamed)]
             /\ Heard(c, answer.text, Picked(GivenIds(c, answer.calls), Known(answer)),
                      Thought(c, answer), FALSE)
             /\ minted' = IF traits[c].lane = "messages"
                          THEN minted + Len(answer.calls) ELSE minted
             /\ pc' = [pc EXCEPT ![c] = "idle"]
             /\ UNCHANGED queryResp
  BY DEF QueryAnswered, Tell, Heeded, Remember, Done
<1> HIDE DEF Known
<1>4. CASE extractWebSearchCall(answer)
  <2>1. Typed'
    <3> HIDE DEF Items
    <3>1. spent' \in [Convs -> SUBSET Stages]
      BY <1>1, <1>2 DEF Typed, Stages
    <3>2. /\ queryResp' \in [Convs -> BOOLEAN]
          /\ pc' \in [Convs -> {"idle", "asked", "query", "search", "answer"}]
          /\ UNCHANGED <<history, told, minted>>
      BY <1>1, <1>3, <1>4 DEF Typed
    <3>3. QED
      BY <1>1, <3>1, <3>2 DEF Typed
  <2>2. pc'[c] = "search" /\ told'[c] = Nothing /\ queryResp'[c] = TRUE
    BY <1>1, <1>2, <1>3, <1>4 DEF Typed, Turn
  <2>3. Turn(c)' /\ Told(c)'
    BY <1>2, <2>2 DEF Turn, Told, Asked
  <2>4. \A d \in Convs \ {c} :
          /\ pc'[d] = pc[d] /\ told'[d] = told[d] /\ spent'[d] = spent[d]
          /\ queryResp'[d] = queryResp[d] /\ history'[d] = history[d]
    BY <1>1, <1>2, <1>3, <1>4 DEF Typed
  <2>5. QED
    BY <2>1, <2>3, <2>4, OneTouched
<1>5. CASE ~extractWebSearchCall(answer)
  <2>1. /\ told' = [told EXCEPT ![c] = Heeded(Resp(answer), answer, streamed)]
        /\ Heard(c, answer.text, Picked(GivenIds(c, answer.calls), Known(answer)),
                 Thought(c, answer), FALSE)
        /\ minted' = IF traits[c].lane = "messages"
                     THEN minted + Len(answer.calls) ELSE minted
        /\ pc' = [pc EXCEPT ![c] = "idle"]
        /\ UNCHANGED queryResp
    BY <1>3, <1>5
  <2>2. Picked(GivenIds(c, answer.calls), Known(answer)) \in Seq(Ids)
    BY <1>1, AnswerTyped, IdsPicked
  <2>3. /\ history' \in [Convs -> Seq(Items)]
        /\ \A d \in Convs \ {c} : history'[d] = history[d]
        /\ Last(history'[c]).searched = FALSE
    BY <1>1, <2>1, <2>2, AnswerTyped, ThoughtTyped, HeardTyped
  <2>4. minted' \in Nat
    <3> HIDE DEF UpstreamIds
    <3>1. Len(answer.calls) \in Nat /\ minted \in Nat
      <4>1. answer.calls \in Seq(UpstreamIds)
        BY AnswerTyped
      <4>2. QED
        BY <1>1, <4>1 DEF Typed
    <3>2. QED
      BY <2>1, <3>1
  <2> DEFINE resp == Resp(answer)
  <2>5. /\ OfAnswer(resp, "query")
        /\ StopTold(resp, answer)
        /\ \A i \in DOMAIN resp.blocks :
              resp.blocks[i].kind = "tool_use" => resp.blocks[i].declared
    <3> DEFINE a == Thinking(c, answer)
               ids == GivenIds(c, answer.calls)
               full == ConvertResponse(a, ids, "query")
    <3>1. ids \in Seq(Ids) /\ Len(ids) = Len(answer.calls)
      BY <1>1, AnswerTyped, IdsGiven
    <3>2. /\ a.finish = answer.finish /\ a.calls = answer.calls /\ a.strange = answer.strange
          /\ answer.calls \in Seq(UpstreamIds) /\ answer.finish \in Finishes
          /\ answer.finish = "no_choice" => answer.calls = <<>>
          /\ answer # Nothing
      BY AnswerTyped
    <3>3. resp = filterUndeclaredToolUses(full)
      OBVIOUS
    <3> HIDE DEF a, ids, resp
    <3>4. OfAnswer(full, "query") /\ Frank(full, a)
      BY <3>1, <3>2, ResponseConverted
    <3> HIDE DEF full
    <3>5. Frank(full, answer)
      BY <3>2, <3>4 DEF Frank
    <3>6. QED
      BY <3>2, <3>3, <3>4, <3>5, Filtered
  <2> HIDE DEF resp
  <2> DEFINE m == Heeded(resp, answer, streamed).message
  <2>6. /\ m.valid /\ m.ended /\ ~m.open /\ ~m.failed /\ m.blocks = resp.blocks
        /\ StopTold(m, answer)
        /\ resp.usage = {"query"}
    <3>1. /\ resp.blocks \in Seq(Read \cup Used) /\ resp.stop \in Stops
          /\ resp.usage = {"query"}
      BY <2>5 DEF OfAnswer
    <3>2. resp.stop # "none"
      BY <3>1 DEF Stops
    <3> HIDE DEF Read, Used
    <3>3. QED
      BY <2>5, <3>1, <3>2, AnswerTold
  <2>7. pc'[c] = "idle" /\ told'[c] = Heeded(resp, answer, streamed)
    BY <1>1, <2>1 DEF Typed, resp
  <2> HIDE DEF m
  <2> DEFINE kinds == [i \in DOMAIN m.blocks |-> m.blocks[i].kind]
  <2>12. \A i \in DOMAIN kinds : kinds[i] = "tool_use" => m.blocks[i].declared
    BY <2>5, <2>6
  <2>8. Turn(c)' /\ Told(c)'
    BY <1>2, <2>3, <2>6, <2>7, <2>12, IdleTold DEF m
  <2>9. Typed'
    <3> HIDE DEF Items
    <3>1. spent' \in [Convs -> SUBSET Stages]
      BY <1>1, <1>2 DEF Typed, Stages
    <3>2. QED
      BY <1>1, <2>1, <2>3, <2>4, <3>1 DEF Typed
  <2>10. \A d \in Convs \ {c} :
          /\ pc'[d] = pc[d] /\ told'[d] = told[d] /\ spent'[d] = spent[d]
          /\ queryResp'[d] = queryResp[d] /\ history'[d] = history[d]
    BY <1>1, <1>2, <2>1, <2>3 DEF Typed
  <2>11. QED
    BY <2>8, <2>9, <2>10, OneTouched
<1>6. QED
  BY <1>4, <1>5

\* The turn of a client that was shown a search ends.
LEMMA ShownTurn ==
    ASSUME TurnInv, NEW c \in Convs, NEW resp, NEW found \in BOOLEAN,
           NEW rest \in Seq(Read), rest # <<>>,
           resp.blocks = webSearchServerBlocks(found) \o rest,
           resp.stop \in {"max_tokens", "end_turn"},
           NEW answer, NEW streamed \in BOOLEAN,
           resp.stop = "max_tokens" <=> answer # Nothing /\ answer.finish = "length",
           resp.usage = spent'[c], "answer" \in spent'[c] => found,
           Typed', Last(history'[c]).searched,
           told' = [told EXCEPT ![c] = Heeded(resp, answer, streamed)],
           pc' = [pc EXCEPT ![c] = "idle"],
           \A d \in Convs \ {c} : history'[d] = history[d] /\ spent'[d] = spent[d],
           UNCHANGED queryResp
    PROVE  TurnInv'
<1>1. Typed
  BY DEF TurnInv
<1>2. Shows(Heeded(resp, answer, streamed).message, answer, found)
  BY SearchShown
<1>3. pc'[c] = "idle" /\ told'[c] = Heeded(resp, answer, streamed)
  BY <1>1 DEF Typed
<1> DEFINE m == Heeded(resp, answer, streamed).message
           kinds == [i \in DOMAIN m.blocks |-> m.blocks[i].kind]
<1> HIDE DEF m
<1>4. /\ m.valid /\ m.ended /\ ~m.open /\ ~m.failed
      /\ StopTold(m, answer)
      /\ \A i \in DOMAIN kinds : kinds[i] # "tool_use"
      /\ Len(kinds) >= 3
      /\ SubSeq(kinds, 1, 2) = <<"server_tool_use", "web_search_tool_result">>
      /\ m.blocks[2].for = m.blocks[1].id
      /\ \A i \in 3 .. Len(kinds) : kinds[i] \in {"text", "thinking"}
      /\ m.blocks[2].usable = found
  BY <1>2 DEF Shows, m
<1>5. \A i \in DOMAIN kinds : kinds[i] = "tool_use" => m.blocks[i].declared
  BY <1>4
<1>6. "answer" \in spent'[c] => m.blocks[2].usable
  BY <1>4
<1> HIDE DEF kinds
<1>7. Turn(c)' /\ Told(c)'
  BY <1>3, <1>4, <1>5, <1>6, IdleTold DEF m, kinds
<1>8. \A d \in Convs \ {c} :
        /\ pc'[d] = pc[d] /\ told'[d] = told[d] /\ spent'[d] = spent[d]
        /\ queryResp'[d] = queryResp[d] /\ history'[d] = history[d]
  BY <1>1 DEF Typed
<1>9. QED
  BY <1>7, <1>8, OneTouched

\* What the proxy says in its own words can be read.
LEMMA FallbackRead == fallbackSearchSummary \in Seq(Read) /\ fallbackSearchSummary # <<>>
<1> DEFINE b == [kind |-> "text"]
<1>1. b \in Read
  BY DEF Read
<1> HIDE DEF b
<1>2. <<b>> \in Seq(Read) /\ <<b>> # <<>>
  BY <1>1
<1>3. QED
  BY <1>2 DEF b, fallbackSearchSummary

LEMMA SearchTurn ==
    ASSUME TurnInv, NEW c \in Convs, Search(c)
    PROVE  TurnInv'
<1>1. Typed /\ Turn(c)
  BY DEF TurnInv
<1>2. pc[c] = "search" /\ spent[c] = Asked(c) /\ UNCHANGED <<queryResp, spent, minted>>
  BY <1>1 DEF Search, Turn
<1>3. CASE pc' = [pc EXCEPT ![c] = "answer"] /\ UNCHANGED <<history, told>>
  <2>1. Typed'
    BY <1>1, <1>2, <1>3 DEF Typed
  <2>2. pc'[c] = "answer" /\ told'[c] = Nothing
    BY <1>1, <1>2, <1>3 DEF Typed, Turn
  <2>3. Turn(c)' /\ Told(c)'
    BY <1>2, <2>2 DEF Turn, Told, Asked
  <2>4. \A d \in Convs \ {c} :
          /\ pc'[d] = pc[d] /\ told'[d] = told[d] /\ spent'[d] = spent[d]
          /\ queryResp'[d] = queryResp[d] /\ history'[d] = history[d]
    BY <1>1, <1>2, <1>3 DEF Typed
  <2>5. QED
    BY <2>1, <2>3, <2>4, OneTouched
<1>4. CASE /\ Tell(c, NothingFound(Asked(c)), Nothing)
           /\ Heard(c, TRUE, <<>>, NoReasoning, TRUE)
           /\ Done(c)
  <2> DEFINE resp == NothingFound(Asked(c))
  <2>1. PICK streamed \in BOOLEAN :
          told' = [told EXCEPT ![c] = Heeded(resp, Nothing, streamed)]
    BY <1>4 DEF Tell, Heeded
  <2>7. pc' = [pc EXCEPT ![c] = "idle"]
    BY <1>4 DEF Done
  <2>2. /\ history' \in [Convs -> Seq(Items)]
        /\ \A d \in Convs \ {c} : history'[d] = history[d]
        /\ Last(history'[c]).searched = TRUE
    <3>1. <<>> \in Seq(Ids) /\ NoReasoning \in Thoughts
      BY DEF Thoughts
    <3>2. QED
      BY <1>1, <1>4, <3>1, HeardTyped
  <2>3. /\ resp.blocks = webSearchServerBlocks(FALSE) \o fallbackSearchSummary
        /\ resp.stop = "end_turn" /\ resp.usage = Asked(c)
    BY DEF NothingFound
  <2> HIDE DEF resp
  <2>4. Typed'
    BY <1>1, <1>2, <2>1, <2>2, <2>7 DEF Typed
  <2>5. "answer" \notin spent'[c] /\ resp.usage = spent'[c]
    BY <1>2, <2>3 DEF Asked
  <2>6. QED
    BY <1>2, <2>1, <2>2, <2>3, <2>4, <2>5, <2>7, FallbackRead, ShownTurn
<1>5. QED
  BY <1>3, <1>4 DEF Search

LEMMA AnswerFailsTurn ==
    ASSUME TurnInv, NEW c \in Convs, AnswerFails(c)
    PROVE  TurnInv'
<1> DEFINE resp == AnswerFailed(Asked(c))
<1>1. Typed /\ Turn(c)
  BY DEF TurnInv
<1>2. pc[c] = "answer" /\ spent[c] = Asked(c) /\ UNCHANGED <<queryResp, spent, minted>>
  BY <1>1 DEF AnswerFails, Turn
<1>3. PICK streamed \in BOOLEAN :
        /\ told' = [told EXCEPT ![c] = Heeded(resp, Nothing, streamed)]
        /\ pc' = [pc EXCEPT ![c] = "idle"]
        /\ Heard(c, TRUE, <<>>, NoReasoning, TRUE)
  BY DEF AnswerFails, Tell, Heeded, Done
<1>4. /\ history' \in [Convs -> Seq(Items)]
      /\ \A d \in Convs \ {c} : history'[d] = history[d]
      /\ Last(history'[c]).searched = TRUE
  <2>1. <<>> \in Seq(Ids) /\ NoReasoning \in Thoughts
    BY DEF Thoughts
  <2>2. QED
    BY <1>1, <1>3, <2>1, HeardTyped
<1>5. /\ resp.blocks = webSearchServerBlocks(TRUE) \o fallbackSearchSummary
      /\ resp.stop = "end_turn" /\ resp.usage = Asked(c)
  BY DEF AnswerFailed
<1> HIDE DEF resp
<1>6. Typed'
  BY <1>1, <1>2, <1>3, <1>4 DEF Typed
<1>7. resp.usage = spent'[c]
  BY <1>2, <1>5
<1>8. QED
  BY <1>2, <1>3, <1>4, <1>5, <1>6, <1>7, FallbackRead, ShownTurn

LEMMA AnswerComesTurn ==
    ASSUME TurnInv, NEW c \in Convs, AnswerComes(c)
    PROVE  TurnInv'
<1>1. Typed /\ Turn(c)
  BY DEF TurnInv
<1>2. /\ pc[c] = "answer" /\ spent' = [spent EXCEPT ![c] = @ \cup {"answer"}]
      /\ spent'[c] = Asked(c) \cup {"answer"} /\ UNCHANGED queryResp
  BY <1>1 DEF AnswerComes, Turn, Typed
<1> DEFINE Resp(a) == SearchAnswered(Asked(c), Thinking(c, a), GivenIds(c, a.calls))
<1>3. PICK answer \in Answers, streamed \in BOOLEAN :
        /\ told' = [told EXCEPT ![c] = Heeded(Resp(answer), answer, streamed)]
        /\ Heard(c, answer.text \/ ~answer.reasoning, <<>>, Thought(c, answer), TRUE)
        /\ minted' = IF traits[c].lane = "messages"
                     THEN minted + Len(answer.calls) ELSE minted
  BY DEF AnswerComes, Tell, Heeded, Remember
<1>4. pc' = [pc EXCEPT ![c] = "idle"]
  BY DEF AnswerComes, Done
<1>5. /\ history' \in [Convs -> Seq(Items)]
      /\ \A d \in Convs \ {c} : history'[d] = history[d]
      /\ Last(history'[c]).searched = TRUE
  <2>1. <<>> \in Seq(Ids) /\ (answer.text \/ ~answer.reasoning) \in BOOLEAN
    OBVIOUS
  <2>2. QED
    BY <1>1, <1>3, <2>1, ThoughtTyped, HeardTyped
<1>6. minted' \in Nat
  <2> HIDE DEF UpstreamIds
  <2>1. Len(answer.calls) \in Nat /\ minted \in Nat
    <3>1. answer.calls \in Seq(UpstreamIds)
      BY AnswerTyped
    <3>2. QED
      BY <1>1, <3>1 DEF Typed
  <2>2. QED
    BY <1>3, <2>1
<1> DEFINE a == Thinking(c, answer)
           ids == GivenIds(c, answer.calls)
           final == ConvertResponse(a, ids, "answer")
           places == {i \in DOMAIN final.blocks : final.blocks[i].kind \in {"text", "thinking"}}
           shown == Picked(final.blocks, places)
           rest == IF shown = <<>> THEN fallbackSearchSummary ELSE shown
           resp == Resp(answer)
<1>7. /\ resp.blocks = webSearchServerBlocks(TRUE) \o rest
      /\ resp.stop = IF final.stop = "max_tokens" THEN "max_tokens" ELSE "end_turn"
      /\ resp.usage = Asked(c) \cup final.usage
  BY DEF SearchAnswered, finalTextLikeContent
<1>8. /\ final.blocks \in Seq(Read \cup Used) /\ final.usage = {"answer"}
      /\ final.stop = "max_tokens" <=> answer.finish = "length"
      /\ answer # Nothing
  <2>1. ids \in Seq(Ids) /\ Len(ids) = Len(answer.calls)
    BY <1>1, AnswerTyped, IdsGiven
  <2>2. /\ a.finish = answer.finish /\ a.calls = answer.calls
        /\ answer.calls \in Seq(UpstreamIds) /\ answer.finish \in Finishes
        /\ answer.finish = "no_choice" => answer.calls = <<>>
        /\ answer # Nothing
    BY AnswerTyped
  <2> HIDE DEF a, ids
  <2>3. OfAnswer(final, "answer") /\ Frank(final, a)
    BY <2>1, <2>2, ResponseConverted
  <2> HIDE DEF final
  <2>4. QED
    BY <2>2, <2>3 DEF OfAnswer, Frank
<1> HIDE DEF final, resp
<1>9. rest \in Seq(Read) /\ rest # <<>>
  <2>1. shown \in Seq({final.blocks[i] : i \in DOMAIN final.blocks \cap places})
    <3> HIDE DEF places
    <3>1. QED
      BY <1>8, PickedOf
  <2>2. {final.blocks[i] : i \in DOMAIN final.blocks \cap places} \subseteq Read
    <3>1. \A i \in DOMAIN final.blocks : final.blocks[i] \in Read \cup Used
      BY <1>8
    <3>2. \A b \in Used : b.kind \notin {"text", "thinking"}
      BY DEF Used
    <3>3. QED
      BY <3>1, <3>2
  <2> HIDE DEF shown, places
  <2>3. shown \in Seq(Read)
    BY <2>1, <2>2, SeqMonotonic
  <2>4. QED
    BY <2>3, FallbackRead
<1> HIDE DEF rest
<1>10. Typed'
  <2>1. spent' \in [Convs -> SUBSET Stages]
    BY <1>1, <1>2 DEF Typed, Stages
  <2>2. QED
    BY <1>1, <1>2, <1>3, <1>4, <1>5, <1>6, <2>1 DEF Typed
<1>11. \A d \in Convs \ {c} : history'[d] = history[d] /\ spent'[d] = spent[d]
  BY <1>1, <1>2, <1>5 DEF Typed
<1>12. told' = [told EXCEPT ![c] = Heeded(resp, answer, streamed)]
  BY <1>3 DEF resp
<1>13. resp.usage = spent'[c]
  BY <1>2, <1>7, <1>8
<1>14. /\ resp.stop \in {"max_tokens", "end_turn"}
       /\ resp.stop = "max_tokens" <=> answer # Nothing /\ answer.finish = "length"
  BY <1>7, <1>8
<1>15. QED
  BY <1>2, <1>4, <1>5, <1>7, <1>9, <1>10, <1>11, <1>12, <1>13, <1>14, ShownTurn

----------------------------------------------------------------------------
(* What the client of the shim is told.                                    *)

LEMMA TurnNext == TurnInv /\ [Next]_vars => TurnInv'
<1> SUFFICES ASSUME TurnInv, [Next]_vars
             PROVE  TurnInv'
  OBVIOUS
<1>1. CASE Tick \/ UNCHANGED vars
  <2>1. UNCHANGED <<history, pc, queryResp, told, spent, minted>>
    BY <1>1 DEF Tick, vars, conversation
  <2>2. Typed'
    BY <2>1 DEF TurnInv, Typed
  <2>3. ASSUME NEW d \in Convs PROVE Turn(d)' /\ Told(d)'
    <3>1. Turn(d) /\ Told(d)
      BY DEF TurnInv
    <3>2. QED
      BY <2>1, <3>1, Untouched
  <2>4. QED
    BY <2>2, <2>3 DEF TurnInv
<1>2. ASSUME NEW c \in Convs, Send(c) PROVE TurnInv'
  BY <1>2, SendTurn
<1>3. ASSUME NEW c \in Convs, Reply(c) PROVE TurnInv'
  BY <1>3, ReplyTurn
<1>4. ASSUME NEW c \in Convs, Fails(c) PROVE TurnInv'
  BY <1>4, FailsTurn
<1>5. ASSUME NEW c \in Convs, QueryAnswered(c) PROVE TurnInv'
  BY <1>5, QueryAnsweredTurn
<1>6. ASSUME NEW c \in Convs, Search(c) PROVE TurnInv'
  BY <1>6, SearchTurn
<1>7. ASSUME NEW c \in Convs, AnswerComes(c) PROVE TurnInv'
  BY <1>7, AnswerComesTurn
<1>8. ASSUME NEW c \in Convs, AnswerFails(c) PROVE TurnInv'
  BY <1>8, AnswerFailsTurn
<1>9. QED
  BY <1>1, <1>2, <1>3, <1>4, <1>5, <1>6, <1>7, <1>8 DEF Next

LEMMA TurnTold == TurnInv => SearchTold
BY DEF TurnInv, Told, SearchTold

\* However the requests and the search of a turn end, and whatever upstream
\* gives as the reason for its answer, calls and cuts off, the client of the
\* shim is told the truth about it: an error only if there was neither a search
\* nor an answer, otherwise a well-formed message that counts the answers there
\* were, shows the search and what came of it, and calls only tools the client
\* has; it asks for tools without a call only if upstream did.
THEOREM TurnsTold == Spec => []SearchTold
<1>1. Spec => []TurnInv
  BY TurnInit, TurnNext, PTL DEF Spec
<1>2. QED
  BY <1>1, TurnTold, PTL
============================================================================
