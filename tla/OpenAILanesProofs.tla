------------------------- MODULE OpenAILanesProofs -------------------------
(***************************************************************************)
(* Theorems about OpenAILanes, proved for any length of stream and any     *)
(* number of tool calls.                                                   *)
(*                                                                         *)
(* While a turn is open, what its client has mirrors what the upstream has *)
(* sent: entry by entry for a chat client, item by item for a converter.   *)
(***************************************************************************)
EXTENDS OpenAILanes, WellFoundedInduction, SequenceTheorems, FiniteSetTheorems, TLAPS

----------------------------------------------------------------------------
(* Induction, and functions defined by it.                                 *)

\* A set that has 0 and, with a number, its successor has all of them.
LEMMA EveryNat ==
    ASSUME NEW S, 0 \in S, \A n \in Nat : n \in S => n + 1 \in S
    PROVE  Nat \subseteq S
<1>1. ASSUME NEW z \in Nat, z \notin S PROVE FALSE
  <2>1. PICK x \in Nat \ S : \A y \in Nat \ S : ~(<<y, x>> \in OpToRel(<, Nat))
    <3>1. Nat \ S # {} /\ Nat \ S \subseteq Nat
      BY <1>1
    <3>2. QED
      BY <3>1, NatLessThanWellFounded, WFMin, Zenon
  <2>2. x \in Nat /\ x # 0 /\ x - 1 \in Nat /\ (x - 1) + 1 = x
    OBVIOUS
  <2>3. <<x - 1, x>> \in OpToRel(<, Nat)
    BY <2>2 DEF OpToRel
  <2>4. x - 1 \in S
    BY <2>1, <2>2, <2>3
  <2>5. (x - 1) + 1 \in S
    BY <2>2, <2>4
  <2>6. QED
    BY <2>1, <2>2, <2>5
<1>2. QED
  BY <1>1

\* Receive is what it chooses the only candidate for.
LEMMA ReceiveIs ==
    ASSUME NEW m, NEW e
    PROVE  Receive(m, e) = IF Acceptable(m, e) THEN Accepted(m, e)
                           ELSE [m EXCEPT !.valid = FALSE]
<1> DEFINE R(x) == IF Acceptable(x, e) THEN Accepted(x, e)
                   ELSE [x EXCEPT !.valid = FALSE]
<1>1. Receive(m, e) = CHOOSE r \in {R(x) : x \in {m}} : TRUE
  BY DEF Receive
<1>2. {R(x) : x \in {m}} = {R(m)}
  OBVIOUS
<1>3. QED
  BY <1>1, <1>2

\* What Received computes, event by event.
Receives(so, m, es) ==
    /\ so[0] = m
    /\ \A i \in 1 .. Len(es) : so[i] = Receive(so[i - 1], es[i])
    /\ Received(m, es) = so[Len(es)]

LEMMA ReceivedIs ==
    ASSUME NEW m, NEW es, Len(es) \in Nat
    PROVE  \E so : Receives(so, m, es)
<1> DEFINE Body(g, k) ==
             [i \in 0 .. k |-> IF i = 0 THEN m ELSE Receive(g[i - 1], es[i])]
           Good == {k \in Nat : \E g : g = Body(g, k)}
           so == CHOOSE g : g = Body(g, Len(es))
<1>1. 0 \in Good
  <2>1. [i \in 0 .. 0 |-> m] = Body([i \in 0 .. 0 |-> m], 0)
    OBVIOUS
  <2>2. QED
    BY <2>1
<1>2. ASSUME NEW k \in Nat, k \in Good
      PROVE  k + 1 \in Good
  <2>1. PICK g : g = Body(g, k)
    BY <1>2
  <2> DEFINE h == [i \in 0 .. k + 1 |->
                     IF i <= k THEN g[i] ELSE Receive(g[k], es[k + 1])]
  <2>2. ASSUME NEW i \in 0 .. k + 1
        PROVE  h[i] = Body(h, k + 1)[i]
    <3>1. CASE i = 0
      BY <2>1, <3>1
    <3>2. CASE i # 0 /\ i <= k
      <4>1. i - 1 \in 0 .. k + 1 /\ i - 1 <= k /\ i \in 0 .. k
        BY <3>2
      <4>2. h[i - 1] = g[i - 1] /\ h[i] = g[i]
        BY <3>2, <4>1
      <4>3. g[i] = Receive(g[i - 1], es[i])
        BY <2>1, <3>2, <4>1
      <4>4. QED
        BY <3>2, <4>2, <4>3
    <3>3. CASE i = k + 1
      <4>1. i - 1 = k /\ i # 0 /\ ~(i <= k) /\ k \in 0 .. k + 1
        BY <3>3
      <4>2. h[i] = Receive(g[k], es[k + 1]) /\ h[i - 1] = g[k]
        BY <3>3, <4>1
      <4>3. QED
        BY <3>3, <4>1, <4>2
    <3>4. QED
      BY <3>1, <3>2, <3>3
  <2>3. h = Body(h, k + 1)
    <3> HIDE DEF h
    <3>1. DOMAIN h = 0 .. k + 1 /\ h = [i \in 0 .. k + 1 |-> h[i]]
      BY DEF h
    <3>2. QED
      BY <2>2, <3>1
  <2>4. \E f : f = Body(f, k + 1)
    <3> HIDE DEF h, Body
    <3>1. QED
      BY <2>3
  <2>5. QED
    BY <2>4
<1>3. Nat \subseteq Good
  <2>1. \A k \in Nat : k \in Good => k + 1 \in Good
    BY <1>2
  <2> HIDE DEF Good
  <2>2. QED
    BY <1>1, <2>1, EveryNat
<1>4. so = Body(so, Len(es))
  <2>1. \E g : g = Body(g, Len(es))
    BY <1>3
  <2>2. QED
    BY <2>1
<1>5. Received(m, es) = so[Len(es)]
  BY DEF Received
<1> HIDE DEF so
<1>6. so[0] = m
  BY <1>4
<1>7. ASSUME NEW i \in 1 .. Len(es)
      PROVE  so[i] = Receive(so[i - 1], es[i])
  BY <1>4
<1>8. Receives(so, m, es)
  BY <1>5, <1>6, <1>7 DEF Receives
<1>9. QED
  BY <1>8

\* What Picked computes, place by place.
Picks(got, s, places) ==
    /\ got[0] = <<>>
    /\ \A i \in 1 .. Len(s) :
          got[i] = IF i \in places THEN Append(got[i - 1], s[i]) ELSE got[i - 1]
    /\ Picked(s, places) = got[Len(s)]

LEMMA PickedIs ==
    ASSUME NEW s, NEW places, Len(s) \in Nat
    PROVE  \E got : Picks(got, s, places)
<1> DEFINE Next1(x, i) == IF i \in places THEN Append(x, s[i]) ELSE x
           Body(g, k) ==
             [i \in 0 .. k |->
                IF i = 0 THEN <<>>
                ELSE IF i \in places THEN Append(g[i - 1], s[i]) ELSE g[i - 1]]
           Good == {k \in Nat : \E g : g = Body(g, k)}
           got == CHOOSE g : g = Body(g, Len(s))
<1>1. 0 \in Good
  <2>1. [i \in 0 .. 0 |-> <<>>] = Body([i \in 0 .. 0 |-> <<>>], 0)
    OBVIOUS
  <2>2. QED
    BY <2>1
<1>2. ASSUME NEW k \in Nat, k \in Good
      PROVE  k + 1 \in Good
  <2>1. PICK g : g = Body(g, k)
    BY <1>2
  <2> DEFINE h == [i \in 0 .. k + 1 |-> IF i <= k THEN g[i] ELSE Next1(g[k], k + 1)]
  <2>2. ASSUME NEW i \in 0 .. k + 1
        PROVE  h[i] = Body(h, k + 1)[i]
    <3>1. CASE i = 0
      BY <2>1, <3>1
    <3>2. CASE i # 0 /\ i <= k
      <4>1. i - 1 \in 0 .. k + 1 /\ i - 1 <= k /\ i \in 0 .. k
        BY <3>2
      <4>2. h[i - 1] = g[i - 1] /\ h[i] = g[i]
        BY <3>2, <4>1
      <4>3. g[i] = IF i \in places THEN Append(g[i - 1], s[i]) ELSE g[i - 1]
        BY <2>1, <3>2, <4>1
      <4> HIDE DEF h
      <4>4. QED
        BY <3>2, <4>2, <4>3
    <3>3. CASE i = k + 1
      <4>1. i - 1 = k /\ i # 0 /\ ~(i <= k) /\ k \in 0 .. k + 1
        BY <3>3
      <4>2. h[i] = Next1(g[k], k + 1) /\ h[i - 1] = g[k]
        BY <3>3, <4>1
      <4> HIDE DEF h
      <4>3. QED
        BY <3>3, <4>1, <4>2
    <3>4. QED
      BY <3>1, <3>2, <3>3
  <2>3. h = Body(h, k + 1)
    <3> HIDE DEF h
    <3>1. DOMAIN h = 0 .. k + 1 /\ h = [i \in 0 .. k + 1 |-> h[i]]
      BY DEF h
    <3>2. QED
      BY <2>2, <3>1
  <2>4. \E f : f = Body(f, k + 1)
    <3> HIDE DEF h, Body
    <3>1. QED
      BY <2>3
  <2> HIDE DEF h, Body
  <2>5. QED
    BY <2>4
<1>3. Nat \subseteq Good
  <2>1. \A k \in Nat : k \in Good => k + 1 \in Good
    BY <1>2
  <2> HIDE DEF Good
  <2>2. QED
    BY <1>1, <2>1, EveryNat
<1>4. got = Body(got, Len(s))
  <2>1. \E g : g = Body(g, Len(s))
    BY <1>3
  <2>2. QED
    BY <2>1
<1>5. Picked(s, places) = got[Len(s)]
  BY DEF Picked
<1> HIDE DEF got
<1>6. got[0] = <<>>
  BY <1>4
<1>7. ASSUME NEW i \in 1 .. Len(s)
      PROVE  got[i] = IF i \in places THEN Append(got[i - 1], s[i]) ELSE got[i - 1]
  <2>1. i \in 0 .. Len(s) /\ i # 0
    OBVIOUS
  <2>2. QED
    BY <1>4, <2>1
<1>8. Picks(got, s, places)
  BY <1>5, <1>6, <1>7 DEF Picks
<1>9. QED
  BY <1>8

\* The places of s that are picked and the picked sequence correspond one to
\* one, in the same order.
LEMMA PickedPlaces ==
    ASSUME NEW T, NEW s \in Seq(T), NEW places
    PROVE  /\ Picked(s, places) \in Seq(T)
           /\ \E at :
                /\ \A k \in DOMAIN Picked(s, places) :
                      /\ at[k] \in DOMAIN s \cap places
                      /\ Picked(s, places)[k] = s[at[k]]
                /\ \A k, l \in DOMAIN Picked(s, places) : at[k] = at[l] => k = l
                /\ \A i \in DOMAIN s \cap places :
                      \E k \in DOMAIN Picked(s, places) : at[k] = i
<1>1. Len(s) \in Nat /\ DOMAIN s = 1 .. Len(s)
  OBVIOUS
<1>2. PICK got :
        /\ got[0] = <<>>
        /\ \A i \in 1 .. Len(s) :
              got[i] = IF i \in places THEN Append(got[i - 1], s[i]) ELSE got[i - 1]
        /\ Picked(s, places) = got[Len(s)]
  BY <1>1, PickedIs DEF Picks
<1> DEFINE Fits(p, at, n) ==
             /\ \A k \in 1 .. Len(p) :
                   at[k] \in 1 .. n /\ at[k] \in places /\ p[k] = s[at[k]]
             /\ \A k, l \in 1 .. Len(p) : at[k] = at[l] => k = l
             /\ \A i \in 1 .. n : i \in places => \E k \in 1 .. Len(p) : at[k] = i
           Good(n) == n <= Len(s) => got[n] \in Seq(T) /\ \E at : Fits(got[n], at, n)
           Numbers == {n \in Nat : Good(n)}
<1>3. Good(0)
  <2>1. Fits(<<>>, <<>>, 0)
    OBVIOUS
  <2>2. got[0] \in Seq(T) /\ \E at : Fits(got[0], at, 0)
    <3> HIDE DEF Fits
    <3>1. QED
      BY <1>2, <2>1
  <2>3. QED
    BY <2>2
<1>4. ASSUME NEW n \in Nat, Good(n)
      PROVE  Good(n + 1)
  <2>1. SUFFICES ASSUME n + 1 <= Len(s)
                 PROVE  got[n + 1] \in Seq(T) /\ \E at : Fits(got[n + 1], at, n + 1)
    BY <1>4
  <2>2. got[n] \in Seq(T) /\ n + 1 \in 1 .. Len(s) /\ (n + 1) - 1 = n
    BY <1>1, <1>4, <2>1
  <2>3. PICK at : Fits(got[n], at, n)
    <3>1. n <= Len(s)
      BY <1>1, <2>1
    <3> HIDE DEF Fits
    <3>2. QED
      BY <1>4, <3>1
  <2>4. CASE n + 1 \notin places
    <3>1. got[n + 1] = got[n]
      BY <1>2, <2>2, <2>4
    <3>2. Fits(got[n], at, n + 1)
      BY <2>2, <2>3, <2>4, SMTT(30)
    <3>3. QED
      <4> HIDE DEF Fits
      <4>1. QED
        BY <2>2, <3>1, <3>2
  <2>5. CASE n + 1 \in places
    <3> DEFINE p == got[n]
               q == Append(p, s[n + 1])
               to == [k \in 1 .. Len(p) + 1 |-> IF k <= Len(p) THEN at[k] ELSE n + 1]
    <3>1. got[n + 1] = q
      BY <1>2, <2>2, <2>5
    <3>2. s[n + 1] \in T
      BY <1>1, <2>2
    <3>3. /\ q \in Seq(T) /\ Len(q) = Len(p) + 1 /\ Len(p) \in Nat
          /\ \A k \in 1 .. Len(p) : q[k] = p[k]
          /\ q[Len(p) + 1] = s[n + 1]
      BY <2>2, <3>2, AppendProperties
    <3>4. Fits(p, at, n)
      BY <2>3
    <3>5. /\ \A k \in 1 .. Len(p) : to[k] = at[k]
          /\ to[Len(p) + 1] = n + 1
      BY <3>3
    <3> HIDE DEF p, q, to
    <3>6. ASSUME NEW k \in 1 .. Len(q)
          PROVE  to[k] \in 1 .. n + 1 /\ to[k] \in places /\ q[k] = s[to[k]]
      <4>1. CASE k = Len(p) + 1
        BY <2>5, <3>3, <3>5, <4>1
      <4>2. CASE k \in 1 .. Len(p)
        BY <3>3, <3>4, <3>5, <4>2
      <4>3. QED
        BY <3>3, <4>1, <4>2
    <3>7. ASSUME NEW k \in 1 .. Len(q), NEW l \in 1 .. Len(q), to[k] = to[l]
          PROVE  k = l
      <4>1. \A j \in 1 .. Len(p) : to[j] # n + 1
        BY <3>4, <3>5
      <4>2. QED
        BY <3>3, <3>4, <3>5, <3>7, <4>1
    <3>8. ASSUME NEW i \in 1 .. n + 1, i \in places
          PROVE  \E k \in 1 .. Len(q) : to[k] = i
      <4>1. CASE i = n + 1
        BY <3>3, <3>5, <4>1
      <4>2. CASE i \in 1 .. n
        BY <3>3, <3>4, <3>5, <3>8, <4>2, SMTT(30)
      <4>3. QED
        BY <4>1, <4>2
    <3>9. Fits(q, to, n + 1)
      BY <3>6, <3>7, <3>8
    <3>10. QED
      <4> HIDE DEF Fits
      <4>1. QED
        BY <3>1, <3>3, <3>9
  <2>6. QED
    BY <2>4, <2>5
<1>5. Good(Len(s))
  <2> HIDE DEF Good
  <2>1. 0 \in Numbers /\ \A n \in Nat : n \in Numbers => n + 1 \in Numbers
    BY <1>3, <1>4
  <2> HIDE DEF Numbers
  <2>2. Nat \subseteq Numbers
    BY <2>1, EveryNat
  <2>3. QED
    BY <1>1, <2>2 DEF Numbers
<1> DEFINE p == Picked(s, places)
<1>6. p \in Seq(T)
  BY <1>1, <1>2, <1>5
<1>7. PICK at : Fits(p, at, Len(s))
  <2> HIDE DEF Fits
  <2>1. QED
    BY <1>1, <1>2, <1>5
<1>8. DOMAIN p = 1 .. Len(p)
  BY <1>6
<1> HIDE DEF p
<1>9. /\ \A k \in DOMAIN p : at[k] \in DOMAIN s \cap places /\ p[k] = s[at[k]]
      /\ \A k, l \in DOMAIN p : at[k] = at[l] => k = l
      /\ \A i \in DOMAIN s \cap places : \E k \in DOMAIN p : at[k] = i
  BY <1>1, <1>7, <1>8
<1>10. QED
  BY <1>6, <1>9 DEF p

\* A single event.
LEMMA ReceivedOne ==
    ASSUME NEW m, NEW e
    PROVE  Received(m, <<e>>) = Receive(m, e)
<1> DEFINE es == <<e>>
<1>1. Len(es) = 1 /\ es[1] = e
  OBVIOUS
<1> HIDE DEF es
<1>2. PICK so : Receives(so, m, es)
  <2>1. Len(es) \in Nat
    BY <1>1
  <2>2. QED
    BY <2>1, ReceivedIs
<1>3. so[1] = Receive(m, e)
  <2>1. 1 \in 1 .. Len(es) /\ 1 - 1 = 0
    BY <1>1
  <2>2. so[1] = Receive(so[1 - 1], es[1])
    BY <1>2, <2>1 DEF Receives
  <2>3. QED
    BY <1>1, <1>2, <2>1, <2>2 DEF Receives
<1>4. Received(m, es) = Receive(m, e)
  BY <1>1, <1>2, <1>3 DEF Receives
<1>5. QED
  BY <1>4 DEF es

----------------------------------------------------------------------------
(* The calls of the upstream, and the items of a response.                 *)

Pieces == [call : Nat, n : Nat, last : BOOLEAN]
Parts == Nat \cup Pieces
Ids == {NoId} \cup {0, 1} \X Nat
Called == Names \cup {NoName}
Calls == [index : Nat, name : Names, size : {1, 2}, at : {0, 1, 2}, named : BOOLEAN]
Items == [kind : {"message", "reasoning", "function_call"}, id : Ids, name : Called,
          data : Seq(Parts)]

\* The calls are numbered as they begin; only the first fragment of a call,
\* which has a piece and not the last, may come without its name.
Numbered(s) ==
    /\ s \in Seq(Calls)
    /\ \A x \in DOMAIN s :
          /\ s[x].index = x /\ s[x].at <= s[x].size
          /\ ~s[x].named => s[x].at = 1 /\ s[x].size = 2

\* The arguments of a call, as far as sent.
Args(call) == [n \in 1 .. call.at |-> Piece(call, n)]

LEMMA ArgsAre ==
    ASSUME NEW call \in Calls
    PROVE  /\ Args(call) \in Seq(Parts) /\ Len(Args(call)) = call.at
           /\ call.at = 0 => Args(call) = <<>>
           /\ call.at = 1 => Args(call) = <<Piece(call, 1)>>
           /\ \A n \in 1 .. call.at : Args(call)[n] = Piece(call, n)
           /\ \A n \in Nat : Piece(call, n) \in Parts /\ Piece(call, n).call = call.index
<1>1. call.at \in Nat /\ call.index \in Nat
  BY DEF Calls
<1>2. \A n \in Nat : Piece(call, n) \in Parts /\ Piece(call, n).call = call.index
  BY <1>1 DEF Piece, Parts, Pieces
<1>3. Args(call) \in Seq(Parts) /\ Len(Args(call)) = call.at
  <2>1. \A n \in 1 .. call.at : Piece(call, n) \in Parts
    BY <1>1, <1>2
  <2>2. QED
    BY <1>1, <2>1, IsASeq DEF Args
<1>4. \A n \in 1 .. call.at : Args(call)[n] = Piece(call, n)
  BY DEF Args
<1>5. call.at = 0 => Args(call) = <<>>
  BY <1>3
<1>6. call.at = 1 => Args(call) = <<Piece(call, 1)>>
  BY <1>3, <1>4
<1>7. QED
  BY <1>2, <1>3, <1>4, <1>5, <1>6

\* The call after its next fragment.
Further(call) == [call EXCEPT !.at = @ + 1, !.named = TRUE]

LEMMA FurtherIs ==
    ASSUME NEW call \in Calls, call.at < call.size
    PROVE  /\ Further(call) \in Calls /\ Further(call).at <= Further(call).size
           /\ Further(call).index = call.index /\ Further(call).name = call.name
           /\ Further(call).named /\ Further(call).at = call.at + 1
           /\ Piece(call, call.at + 1) \in Parts
           /\ Args(Further(call)) = Args(call) \o <<Piece(call, call.at + 1)>>
<1> DEFINE more == Further(call)
<1>1. /\ more \in Calls /\ more.at = call.at + 1 /\ more.index = call.index
      /\ more.size = call.size /\ more.named /\ more.name = call.name
      /\ more.at <= more.size /\ call.at \in Nat
  <2>1. call.at + 1 \in {0, 1, 2} /\ call.at + 1 <= call.size /\ call.at \in Nat
    BY DEF Calls
  <2>2. QED
    BY <2>1 DEF Further, Calls
<1> HIDE DEF more
<1>2. \A n \in Nat : Piece(more, n) = Piece(call, n)
  BY <1>1 DEF Piece
<1>3. /\ Args(call) \in Seq(Parts) /\ Len(Args(call)) = call.at
      /\ Args(more) \in Seq(Parts) /\ Len(Args(more)) = call.at + 1
      /\ \A n \in 1 .. call.at : Args(call)[n] = Piece(call, n)
      /\ \A n \in 1 .. call.at + 1 : Args(more)[n] = Piece(more, n)
      /\ Piece(call, call.at + 1) \in Parts
  BY <1>1, ArgsAre
<1>4. Args(more) = Args(call) \o <<Piece(call, call.at + 1)>>
  <2> DEFINE a == Args(call)
             b == Args(more)
             p == Piece(call, call.at + 1)
             ap == a \o <<p>>
  <2>1. /\ ap \in Seq(Parts) /\ Len(ap) = Len(a) + 1 /\ ap[Len(a) + 1] = p
        /\ \A n \in 1 .. Len(a) : ap[n] = a[n]
    BY <1>3
  <2> HIDE DEF a, b, p, ap
  <2>2. ASSUME NEW n \in 1 .. Len(b) PROVE b[n] = ap[n]
    <3>1. Len(a) = call.at /\ Len(b) = call.at + 1 /\ n \in Nat
      BY <1>3 DEF a, b
    <3>2. b[n] = Piece(call, n)
      BY <1>2, <1>3, <3>1 DEF b
    <3>3. CASE n = call.at + 1
      BY <2>1, <3>1, <3>2, <3>3 DEF p
    <3>4. CASE n \in 1 .. call.at
      BY <1>3, <2>1, <3>1, <3>2, <3>4 DEF a
    <3>5. QED
      BY <1>1, <3>1, <3>3, <3>4
  <2>3. b \in Seq(Parts) /\ Len(b) = Len(ap)
    BY <1>3, <2>1 DEF a, b
  <2>5. b = ap
    BY <2>1, <2>2, <2>3, SeqEqual
  <2>4. QED
    BY <2>5 DEF a, b, p, ap
<1>5. QED
  BY <1>1, <1>3, <1>4 DEF more

----------------------------------------------------------------------------
(* How a response grows.                                                   *)

LEMMA PrefixIs ==
    ASSUME NEW a \in Seq(Parts), NEW b \in Seq(Parts)
    PROVE  ResponseContract!IsPrefix(a, b)
           <=> Len(a) <= Len(b) /\ \A i \in 1 .. Len(a) : a[i] = b[i]
<1>1. CASE Len(a) <= Len(b)
  <2> DEFINE x == SubSeq(a, 1, Len(a))
             y == SubSeq(b, 1, Len(a))
  <2>1. /\ x \in Seq(Parts) /\ Len(x) = Len(a) /\ y \in Seq(Parts) /\ Len(y) = Len(a)
        /\ \A i \in 1 .. Len(a) : x[i] = a[i] /\ y[i] = b[i]
    BY <1>1
  <2> HIDE DEF x, y
  <2>2. x = y <=> \A i \in 1 .. Len(a) : a[i] = b[i]
    <3>1. ASSUME \A i \in 1 .. Len(a) : a[i] = b[i] PROVE x = y
      <4>1. \A i \in 1 .. Len(x) : x[i] = y[i]
        BY <2>1, <3>1
      <4>2. QED
        BY <2>1, <4>1, SeqEqual
    <3>2. QED
      BY <2>1, <3>1
  <2>3. QED
    BY <1>1, <2>2 DEF x, y, ResponseContract!IsPrefix
<1>2. CASE ~(Len(a) <= Len(b))
  BY <1>2 DEF ResponseContract!IsPrefix
<1>3. QED
  BY <1>1, <1>2

Extends(new, old) == ResponseContract!Extends(new, old)

LEMMA ExtendsIs ==
    ASSUME NEW new \in Seq(Items), NEW old \in Seq(Items)
    PROVE  Extends(new, old) <=>
             /\ Len(old) <= Len(new)
             /\ \A i \in DOMAIN old :
                   /\ new[i].kind = old[i].kind
                   /\ Len(old[i].data) <= Len(new[i].data)
                   /\ \A n \in 1 .. Len(old[i].data) : old[i].data[n] = new[i].data[n]
<1>1. CASE Len(old) <= Len(new)
  <2>1. \A i \in DOMAIN old : old[i].data \in Seq(Parts) /\ new[i].data \in Seq(Parts)
    <3>1. \A i \in DOMAIN old : old[i] \in Items /\ new[i] \in Items
      BY <1>1
    <3>2. QED
      BY <3>1 DEF Items
  <2>2. \A i \in DOMAIN old : ResponseContract!IsPrefix(old[i].data, new[i].data)
           <=> /\ Len(old[i].data) <= Len(new[i].data)
               /\ \A n \in 1 .. Len(old[i].data) : old[i].data[n] = new[i].data[n]
    BY <2>1, PrefixIs
  <2>3. QED
    BY <1>1, <2>2 DEF Extends, ResponseContract!Extends
<1>2. CASE ~(Len(old) <= Len(new))
  BY <1>2 DEF Extends, ResponseContract!Extends
<1>3. QED
  BY <1>1, <1>2

LEMMA ItemsAre ==
    ASSUME NEW items \in Seq(Items)
    PROVE  /\ Len(items) \in Nat /\ DOMAIN items = 1 .. Len(items)
           /\ \A i \in DOMAIN items :
                 /\ items[i] \in Items /\ items[i].data \in Seq(Parts)
                 /\ Len(items[i].data) \in Nat
<1>1. Len(items) \in Nat /\ DOMAIN items = 1 .. Len(items)
  OBVIOUS
<1>2. ASSUME NEW i \in DOMAIN items PROVE items[i] \in Items
  BY <1>1
<1>3. \A item \in Items : item.data \in Seq(Parts) /\ Len(item.data) \in Nat
  <2>1. \A item \in Items : item.data \in Seq(Parts)
    BY DEF Items
  <2>2. QED
    BY <2>1
<1>4. QED
  BY <1>1, <1>2, <1>3

LEMMA ExtendsItself ==
    ASSUME NEW items \in Seq(Items)
    PROVE  Extends(items, items)
<1>1. \A i \in DOMAIN items : Len(items[i].data) \in Nat
  BY ItemsAre
<1>2. QED
  BY <1>1, ExtendsIs

LEMMA ExtendsOn ==
    ASSUME NEW a \in Seq(Items), NEW b \in Seq(Items), NEW c \in Seq(Items),
           Extends(b, a), Extends(c, b)
    PROVE  Extends(c, a)
<1>1. /\ Len(a) <= Len(b) /\ Len(b) <= Len(c)
      /\ \A i \in DOMAIN a :
            /\ b[i].kind = a[i].kind /\ Len(a[i].data) <= Len(b[i].data)
            /\ \A n \in 1 .. Len(a[i].data) : a[i].data[n] = b[i].data[n]
      /\ \A i \in DOMAIN b :
            /\ c[i].kind = b[i].kind /\ Len(b[i].data) <= Len(c[i].data)
            /\ \A n \in 1 .. Len(b[i].data) : b[i].data[n] = c[i].data[n]
  BY ExtendsIs
<1>2. /\ DOMAIN a = 1 .. Len(a) /\ DOMAIN b = 1 .. Len(b)
      /\ Len(a) \in Nat /\ Len(b) \in Nat /\ Len(c) \in Nat
  OBVIOUS
<1>3. ASSUME NEW i \in DOMAIN a
      PROVE  /\ c[i].kind = a[i].kind /\ Len(a[i].data) <= Len(c[i].data)
             /\ \A n \in 1 .. Len(a[i].data) : a[i].data[n] = c[i].data[n]
  <2>1. i \in DOMAIN b /\ i \in 1 .. Len(c)
    BY <1>1, <1>2
  <2>2. a[i].data \in Seq(Parts) /\ b[i].data \in Seq(Parts) /\ c[i].data \in Seq(Parts)
    BY <1>2, <2>1, ItemsAre
  <2>3. Len(a[i].data) \in Nat /\ Len(b[i].data) \in Nat /\ Len(c[i].data) \in Nat
    BY <2>2
  <2>4. QED
    BY <1>1, <2>1, <2>3
<1>4. Len(a) <= Len(c)
  BY <1>1, <1>2
<1>5. QED
  BY <1>3, <1>4, ExtendsIs

----------------------------------------------------------------------------
(* The converter.                                                          *)

\* A response under construction, with nothing wrong and nothing done.
Open(items) == [status |-> "in_progress", items |-> items, done |-> {}, valid |-> TRUE]
Stops == {"", "stop", "length", "tool_calls"}

Converters ==
    [items : Seq(Items), text : Nat, reasoning : Nat, tools : Seq(Nat), finish : Stops,
     finalized : {FALSE}, wire : {Open(items) : items \in Seq(Items)}]

\* The wire has the items as far as streamed; what it does not have are the
\* ids and names that came late.
Alike(w, items) ==
    /\ Len(w) = Len(items)
    /\ \A i \in DOMAIN items : w[i].kind = items[i].kind /\ w[i].data = items[i].data

LEMMA StartedIs ==
    ASSUME NEW c \in Converters, Alike(c.wire.items, c.items), NEW item \in Items
    PROVE  LET d == Started(c, item)
           IN  /\ d \in Converters /\ Alike(d.wire.items, d.items)
               /\ d = [c EXCEPT !.items = Append(c.items, item), !.wire = d.wire]
               /\ Extends(d.wire.items, c.wire.items)
<1> DEFINE w == c.wire.items
           n == Len(c.items) + 1
           more == Append(c.items, item)
           told == Append(w, item)
<1>1. /\ w \in Seq(Items) /\ c.wire = Open(w) /\ c.items \in Seq(Items)
      /\ Len(w) = Len(c.items) /\ Len(w) \in Nat
      /\ \A i \in DOMAIN c.items : w[i].kind = c.items[i].kind /\ w[i].data = c.items[i].data
  BY DEF Converters, Open, Alike
<1>2. Received(c.wire, <<Added(n, item)>>) = Open(told)
  <2>1. Acceptable(Open(w), Added(n, item))
    BY <1>1 DEF Acceptable, Added, Open
  <2>2. Accepted(Open(w), Added(n, item)) = Open(told)
    BY <1>1 DEF Accepted, Added, Open
  <2>3. QED
    BY <1>1, <2>1, <2>2, ReceivedOne, ReceiveIs
<1>3. Started(c, item) = [c EXCEPT !.wire = Open(told), !.items = more]
  BY <1>2 DEF Started, Told, Converters
<1>4. /\ told \in Seq(Items) /\ Len(told) = Len(w) + 1 /\ told[Len(w) + 1] = item
      /\ \A i \in 1 .. Len(w) : told[i] = w[i]
      /\ more \in Seq(Items) /\ Len(more) = Len(w) + 1 /\ more[Len(w) + 1] = item
      /\ \A i \in 1 .. Len(w) : more[i] = c.items[i]
  BY <1>1
<1> HIDE DEF told, more, w
<1>5. Started(c, item) \in Converters
  BY <1>3, <1>4 DEF Converters
<1>6. Alike(told, more)
  BY <1>1, <1>4 DEF Alike
<1>7. Extends(told, w)
  <2>1. \A i \in DOMAIN w : told[i] = w[i] /\ Len(w[i].data) \in Nat
    BY <1>1, <1>4, ItemsAre
  <2>2. ASSUME NEW i \in DOMAIN w
        PROVE  /\ told[i].kind = w[i].kind
               /\ Len(w[i].data) <= Len(told[i].data)
               /\ \A x \in 1 .. Len(w[i].data) : w[i].data[x] = told[i].data[x]
    BY <2>1
  <2>3. w \in Seq(Items) /\ told \in Seq(Items) /\ Len(w) <= Len(told)
    BY <1>1, <1>4
  <2>4. QED
    BY <2>2, <2>3, ExtendsIs
<1>8. /\ Started(c, item).wire = Open(told) /\ Started(c, item).items = more
      /\ Open(told).items = told
  BY <1>3 DEF Converters, Open
<1>9. Started(c, item) = [c EXCEPT !.items = more, !.wire = Started(c, item).wire]
  BY <1>3, <1>8 DEF Converters
<1>10. QED
  BY <1>5, <1>6, <1>7, <1>8, <1>9 DEF w, more

\* What EXCEPT leaves of an item.
LEMMA ItemWith ==
    ASSUME NEW item \in Items, NEW id \in Ids, NEW name \in Called, NEW data \in Seq(Parts)
    PROVE  /\ [item EXCEPT !.data = data] \in Items
           /\ [item EXCEPT !.id = id] \in Items
           /\ [item EXCEPT !.name = name] \in Items
           /\ [item EXCEPT !.data = data].kind = item.kind
           /\ [item EXCEPT !.data = data].data = data
           /\ item.data \in Seq(Parts) /\ item.id \in Ids /\ item.name \in Called
           /\ item = [kind |-> item.kind, id |-> item.id, name |-> item.name,
                      data |-> item.data]
BY DEF Items

LEMMA ContinuedIs ==
    ASSUME NEW c \in Converters, Alike(c.wire.items, c.items),
           NEW at \in DOMAIN c.items, NEW data \in Seq(Parts)
    PROVE  LET d == Continued(c, at, data)
           IN  /\ d \in Converters /\ Alike(d.wire.items, d.items)
               /\ d = [c EXCEPT !.items[at].data = @ \o data, !.wire = d.wire]
               /\ Extends(d.wire.items, c.wire.items)
<1> DEFINE w == c.wire.items
           items == c.items
           more == [items EXCEPT ![at].data = @ \o data]
           told == [w EXCEPT ![at].data = @ \o data]
<1>1. /\ w \in Seq(Items) /\ c.wire = Open(w) /\ items \in Seq(Items)
      /\ Len(w) = Len(items) /\ Len(w) \in Nat
      /\ \A i \in DOMAIN items : w[i].kind = items[i].kind /\ w[i].data = items[i].data
      /\ DOMAIN w = 1 .. Len(w) /\ DOMAIN items = 1 .. Len(w)
  BY DEF Converters, Open, Alike
<1>2. Received(c.wire, <<Delta(at, data)>>) = Open(told)
  <2>1. Acceptable(Open(w), Delta(at, data))
    BY <1>1 DEF Acceptable, Delta, Open, Growing
  <2>2. Accepted(Open(w), Delta(at, data)) = Open(told)
    BY <1>1 DEF Accepted, Delta, Open
  <2>3. QED
    BY <1>1, <2>1, <2>2, ReceivedOne, ReceiveIs
<1>3. Continued(c, at, data) = [c EXCEPT !.wire = Open(told), !.items = more]
  BY <1>2 DEF Continued, Told, Converters
<1>4. ASSUME NEW s \in Seq(Items), at \in DOMAIN s
      PROVE  LET t == [s EXCEPT ![at].data = @ \o data]
             IN  /\ t \in Seq(Items) /\ Len(t) = Len(s) /\ DOMAIN t = DOMAIN s
                 /\ \A i \in DOMAIN s \ {at} : t[i] = s[i]
                 /\ t[at].kind = s[at].kind /\ t[at].data = s[at].data \o data
  <2> DEFINE new == [s[at] EXCEPT !.data = @ \o data]
             t == [s EXCEPT ![at] = new]
  <2>1. s[at] \in Items /\ s[at].data \in Seq(Parts) /\ s[at].data \o data \in Seq(Parts)
    BY <1>4, ItemsAre
  <2>2. new = [s[at] EXCEPT !.data = s[at].data \o data]
    OBVIOUS
  <2>3. new \in Items /\ new.kind = s[at].kind /\ new.data = s[at].data \o data
    BY <2>1, <2>2 DEF Items
  <2> HIDE DEF new
  <2>4. /\ t \in Seq(Items) /\ Len(t) = Len(s) /\ DOMAIN t = DOMAIN s
        /\ \A i \in DOMAIN s \ {at} : t[i] = s[i]
        /\ t[at] = new
    BY <1>4, <2>3
  <2>5. QED
    BY <2>3, <2>4 DEF new
<1>5. /\ told \in Seq(Items) /\ Len(told) = Len(w) /\ DOMAIN told = DOMAIN w
      /\ \A i \in DOMAIN w \ {at} : told[i] = w[i]
      /\ told[at].kind = w[at].kind /\ told[at].data = w[at].data \o data
  BY <1>1, <1>4
<1>6. /\ more \in Seq(Items) /\ Len(more) = Len(items) /\ DOMAIN more = DOMAIN items
      /\ \A i \in DOMAIN items \ {at} : more[i] = items[i]
      /\ more[at].kind = items[at].kind /\ more[at].data = items[at].data \o data
  BY <1>1, <1>4
<1>7. c.items = items /\ c.wire.items = w
  OBVIOUS
<1> HIDE DEF told, more, w, items
<1>8. Continued(c, at, data) \in Converters
  BY <1>3, <1>5, <1>6 DEF Converters
<1>9. Alike(told, more)
  BY <1>1, <1>5, <1>6 DEF Alike
<1>10. Extends(told, w)
  <2>1. ASSUME NEW i \in DOMAIN w
        PROVE  /\ told[i].kind = w[i].kind
               /\ Len(w[i].data) <= Len(told[i].data)
               /\ \A n \in 1 .. Len(w[i].data) : w[i].data[n] = told[i].data[n]
    <3>1. w[i].data \in Seq(Parts) /\ Len(w[i].data) \in Nat
      BY <1>1, ItemsAre
    <3>2. CASE i = at
      BY <1>5, <3>1, <3>2
    <3>3. CASE i # at
      BY <1>5, <3>1, <3>3
    <3>4. QED
      BY <3>2, <3>3
  <2>2. w \in Seq(Items) /\ told \in Seq(Items) /\ Len(w) <= Len(told)
    BY <1>1, <1>5
  <2>3. QED
    BY <2>1, <2>2, ExtendsIs
<1>11. /\ Continued(c, at, data).wire = Open(told) /\ Open(told).items = told
       /\ Continued(c, at, data).items = more
  BY <1>3 DEF Converters, Open
<1>12. Continued(c, at, data) = [c EXCEPT !.items = more, !.wire = Continued(c, at, data).wire]
  BY <1>3, <1>11 DEF Converters
<1>13. [c EXCEPT !.items[at].data = @ \o data, !.wire = Continued(c, at, data).wire]
       = [c EXCEPT !.items = more, !.wire = Continued(c, at, data).wire]
  BY <1>7 DEF more, items, Converters
<1>14. QED
  BY <1>7, <1>8, <1>9, <1>10, <1>11, <1>12, <1>13

\* The item of a call.
ItemOf(call) ==
    Call(IF call.named THEN Id(call) ELSE <<0, call.index>>,
         IF call.named THEN call.name ELSE NoName, Args(call))

ToolsFollow(items, tools, s) ==
    /\ Len(tools) = Len(s)
    /\ \A x \in DOMAIN s : tools[x] \in DOMAIN items /\ items[tools[x]] = ItemOf(s[x])
    /\ \A x, y \in DOMAIN s : tools[x] = tools[y] => x = y
    /\ \A p \in DOMAIN items :
          items[p].kind = "function_call" => \E x \in DOMAIN s : tools[x] = p

Narrated(items, at, kind) == at # 0 => at \in DOMAIN items /\ items[at].kind = kind

\* A converter that has followed a stream in which calls s were sent.
Follows(c, s) ==
    /\ c \in Converters
    /\ Alike(c.wire.items, c.items)
    /\ Narrated(c.items, c.text, "message") /\ Narrated(c.items, c.reasoning, "reasoning")
    /\ ToolsFollow(c.items, c.tools, s)

LEMMA ConverterIs ==
    ASSUME NEW c \in Converters
    PROVE  /\ c.items \in Seq(Items) /\ c.wire.items \in Seq(Items) /\ c.tools \in Seq(Nat)
           /\ c.wire = Open(c.wire.items) /\ c.finalized = FALSE /\ c.finish \in Stops
           /\ c.text \in Nat /\ c.reasoning \in Nat
           /\ Len(c.items) \in Nat /\ DOMAIN c.items = 1 .. Len(c.items)
<1>1. /\ c.items \in Seq(Items) /\ c.tools \in Seq(Nat) /\ c.finalized = FALSE
      /\ c.finish \in Stops /\ c.text \in Nat /\ c.reasoning \in Nat
      /\ c.wire \in {Open(items) : items \in Seq(Items)}
  BY DEF Converters
<1>2. PICK w \in Seq(Items) : c.wire = Open(w)
  BY <1>1
<1>3. c.wire.items = w
  BY <1>2 DEF Open
<1>4. Len(c.items) \in Nat /\ DOMAIN c.items = 1 .. Len(c.items)
  BY <1>1
<1>5. QED
  BY <1>1, <1>2, <1>3, <1>4

LEMMA ConverterWith ==
    ASSUME NEW c \in Converters, NEW n \in Nat
    PROVE  /\ LET t == [c EXCEPT !.text = n]
              IN  /\ t \in Converters /\ t.items = c.items /\ t.wire = c.wire
                  /\ t.tools = c.tools /\ t.text = n /\ t.reasoning = c.reasoning
                  /\ t.finish = c.finish
           /\ LET t == [c EXCEPT !.reasoning = n]
              IN  /\ t \in Converters /\ t.items = c.items /\ t.wire = c.wire
                  /\ t.tools = c.tools /\ t.text = c.text /\ t.reasoning = n
                  /\ t.finish = c.finish
BY DEF Converters

\* An item of text or reasoning at the next place changes nothing for the calls.
LEMMA NarrativeStarted ==
    ASSUME NEW s \in Seq(Calls), NEW c, Follows(c, s), NEW kind \in {"message", "reasoning"}
    PROVE  LET d == Started(c, Narrative(kind, <<>>))
           IN  /\ Follows(d, s) /\ Extends(d.wire.items, c.wire.items)
               /\ d = [c EXCEPT !.items = d.items, !.wire = d.wire]
               /\ Len(d.items) = Len(c.items) + 1
               /\ d.items[Len(c.items) + 1].kind = kind
<1> DEFINE item == Narrative(kind, <<>>)
           d == Started(c, item)
<1>1. c \in Converters /\ Alike(c.wire.items, c.items)
  BY DEF Follows
<1>2. item \in Items /\ item.kind = kind
  BY DEF Narrative, Items, Ids, Called
<1> HIDE DEF item
<1>3. /\ d \in Converters /\ Alike(d.wire.items, d.items)
      /\ d = [c EXCEPT !.items = Append(c.items, item), !.wire = d.wire]
      /\ Extends(d.wire.items, c.wire.items)
  BY <1>1, <1>2, StartedIs
<1> HIDE DEF d
<1>4. /\ d.items = Append(c.items, item) /\ d.text = c.text /\ d.reasoning = c.reasoning
      /\ d.tools = c.tools
  BY <1>1, <1>3 DEF Converters
<1>5. /\ Len(d.items) = Len(c.items) + 1 /\ DOMAIN d.items = 1 .. Len(c.items) + 1
      /\ \A i \in DOMAIN c.items : d.items[i] = c.items[i] /\ i \in DOMAIN d.items
      /\ d.items[Len(c.items) + 1] = item /\ DOMAIN c.items = 1 .. Len(c.items)
      /\ Len(c.items) \in Nat
  BY <1>1, <1>2, <1>4, ConverterIs
<1>6. Narrated(d.items, d.text, "message") /\ Narrated(d.items, d.reasoning, "reasoning")
  BY <1>4, <1>5 DEF Follows, Narrated
<1>7. ToolsFollow(d.items, d.tools, s)
  <2>1. ASSUME NEW p \in DOMAIN d.items, d.items[p].kind = "function_call"
        PROVE  \E x \in DOMAIN s : d.tools[x] = p
    <3>1. p \in DOMAIN c.items /\ c.items[p].kind = "function_call"
      BY <1>2, <1>5, <2>1
    <3>2. QED
      BY <1>4, <3>1 DEF Follows, ToolsFollow
  <2>2. QED
    BY <1>4, <1>5, <2>1 DEF Follows, ToolsFollow
<1>8. QED
  BY <1>2, <1>3, <1>4, <1>5, <1>6, <1>7 DEF Follows, d, item

LEMMA NarrativeContinued ==
    ASSUME NEW s \in Seq(Calls), NEW c, Follows(c, s), NEW data \in Seq(Parts),
           NEW at \in DOMAIN c.items, c.items[at].kind # "function_call"
    PROVE  LET d == Continued(c, at, data)
           IN  /\ Follows(d, s) /\ Extends(d.wire.items, c.wire.items)
               /\ d = [c EXCEPT !.items = d.items, !.wire = d.wire]
               /\ Len(d.items) = Len(c.items)
<1> DEFINE d == Continued(c, at, data)
           new == [c.items[at] EXCEPT !.data = c.items[at].data \o data]
<1>1. c \in Converters /\ Alike(c.wire.items, c.items)
  BY DEF Follows
<1>2. /\ d \in Converters /\ Alike(d.wire.items, d.items)
      /\ d = [c EXCEPT !.items[at].data = @ \o data, !.wire = d.wire]
      /\ Extends(d.wire.items, c.wire.items)
  BY <1>1, ContinuedIs
<1> HIDE DEF d
<1>3. /\ d.items = [c.items EXCEPT ![at] = new] /\ d.text = c.text
      /\ d.reasoning = c.reasoning /\ d.tools = c.tools
      /\ d = [c EXCEPT !.items = d.items, !.wire = d.wire]
  BY <1>1, <1>2 DEF Converters
<1>4. /\ c.items[at] \in Items /\ c.items[at].data \o data \in Seq(Parts)
      /\ c.items \in Seq(Items)
  <2>1. c.items \in Seq(Items)
    BY <1>1, ConverterIs
  <2>2. c.items[at] \in Items /\ c.items[at].data \in Seq(Parts)
    BY <2>1, ItemsAre
  <2>3. QED
    BY <2>1, <2>2
<1>5. new \in Items /\ new.kind = c.items[at].kind
  BY <1>4 DEF Items
<1> HIDE DEF new
<1>6. /\ Len(d.items) = Len(c.items) /\ DOMAIN d.items = DOMAIN c.items
      /\ \A i \in DOMAIN c.items : d.items[i].kind = c.items[i].kind
      /\ \A i \in DOMAIN c.items \ {at} : d.items[i] = c.items[i]
  BY <1>3, <1>4, <1>5
<1>7. Narrated(d.items, d.text, "message") /\ Narrated(d.items, d.reasoning, "reasoning")
  BY <1>3, <1>6 DEF Follows, Narrated
<1>8. ToolsFollow(d.items, d.tools, s)
  <2>1. \A x \in DOMAIN s : c.items[c.tools[x]].kind = "function_call"
    <3>1. \A call : ItemOf(call).kind = "function_call"
      BY DEF ItemOf, Call
    <3>2. QED
      BY <3>1 DEF Follows, ToolsFollow
  <2>2. \A x \in DOMAIN s : c.tools[x] # at
    BY <2>1
  <2>3. QED
    BY <1>3, <1>6, <2>2 DEF Follows, ToolsFollow
<1>9. QED
  BY <1>2, <1>3, <1>6, <1>7, <1>8 DEF Follows, d

LEMMA TextFollows ==
    ASSUME NEW s \in Seq(Calls), NEW c, Follows(c, s), NEW data \in Seq(Parts)
    PROVE  LET d == handleText(c, data)
           IN  /\ Follows(d, s) /\ Extends(d.wire.items, c.wire.items)
               /\ d.finish = c.finish
               /\ c.text = 0 => Len(d.items) = Len(c.items) + 1
<1>1. c \in Converters /\ c.items \in Seq(Items) /\ Len(c.items) \in Nat
  BY ConverterIs DEF Follows
<1>2. CASE c.text # 0
  <2>1. c.text \in DOMAIN c.items /\ c.items[c.text].kind # "function_call"
    BY <1>2 DEF Follows, Narrated
  <2> DEFINE d == Continued(c, c.text, data)
  <2>2. /\ Follows(d, s) /\ Extends(d.wire.items, c.wire.items)
        /\ d = [c EXCEPT !.items = d.items, !.wire = d.wire]
    BY <2>1, NarrativeContinued
  <2>3. d.finish = c.finish
    BY <1>1, <2>2 DEF Converters
  <2>4. QED
    BY <1>2, <2>2, <2>3 DEF handleText
<1>3. CASE c.text = 0
  <2> DEFINE at == Len(c.items) + 1
             b == Started(c, Narrative("message", <<>>))
             t == [b EXCEPT !.text = at]
             d == Continued(t, at, data)
  <2>1. /\ Follows(b, s) /\ Extends(b.wire.items, c.wire.items)
        /\ b = [c EXCEPT !.items = b.items, !.wire = b.wire]
        /\ Len(b.items) = at /\ b.items[at].kind = "message"
    BY NarrativeStarted
  <2> HIDE DEF b
  <2>2. b \in Converters /\ b.finish = c.finish
    BY <1>1, <2>1 DEF Follows, Converters
  <2>3. /\ t \in Converters /\ t.items = b.items /\ t.wire = b.wire /\ t.tools = b.tools
        /\ t.text = at /\ t.reasoning = b.reasoning /\ t.finish = b.finish
    <3>1. at \in Nat
      BY <1>1
    <3>2. QED
      BY <2>2, <3>1, ConverterWith
  <2> HIDE DEF t
  <2>4. at \in DOMAIN t.items
    BY <1>1, <2>1, <2>3, ConverterIs
  <2>5. Follows(t, s)
    BY <2>1, <2>3, <2>4 DEF Follows, Narrated
  <2>6. /\ Follows(d, s) /\ Extends(d.wire.items, t.wire.items)
        /\ d = [t EXCEPT !.items = d.items, !.wire = d.wire]
        /\ Len(d.items) = Len(t.items)
    <3>1. t.items[at].kind # "function_call"
      BY <2>1, <2>3
    <3>2. QED
      BY <2>4, <2>5, <3>1, NarrativeContinued
  <2> HIDE DEF d
  <2>7. d.finish = t.finish
    BY <2>3, <2>6 DEF Converters
  <2>8. Extends(d.wire.items, c.wire.items)
    <3>1. /\ c.wire.items \in Seq(Items) /\ t.wire.items \in Seq(Items)
          /\ d.wire.items \in Seq(Items) /\ Extends(t.wire.items, c.wire.items)
      BY <1>1, <2>1, <2>3, <2>6, ConverterIs DEF Follows
    <3>2. QED
      BY <2>6, <3>1, ExtendsOn
  <2>9. handleText(c, data) = d
    BY <1>3 DEF handleText, d, t, b
  <2>10. QED
    BY <2>1, <2>2, <2>3, <2>6, <2>7, <2>8, <2>9
<1>4. QED
  BY <1>2, <1>3

LEMMA ReasoningFollows ==
    ASSUME NEW s \in Seq(Calls), NEW c, Follows(c, s), NEW data \in Seq(Parts)
    PROVE  LET d == handleReasoning(c, data)
           IN  /\ Follows(d, s) /\ Extends(d.wire.items, c.wire.items)
               /\ d.finish = c.finish
<1>1. c \in Converters /\ c.items \in Seq(Items) /\ Len(c.items) \in Nat
  BY ConverterIs DEF Follows
<1>2. CASE c.reasoning # 0
  <2>1. c.reasoning \in DOMAIN c.items /\ c.items[c.reasoning].kind # "function_call"
    BY <1>2 DEF Follows, Narrated
  <2> DEFINE d == Continued(c, c.reasoning, data)
  <2>2. /\ Follows(d, s) /\ Extends(d.wire.items, c.wire.items)
        /\ d = [c EXCEPT !.items = d.items, !.wire = d.wire]
    BY <2>1, NarrativeContinued
  <2>3. d.finish = c.finish
    BY <1>1, <2>2 DEF Converters
  <2>4. QED
    BY <1>2, <2>2, <2>3 DEF handleReasoning
<1>3. CASE c.reasoning = 0
  <2> DEFINE at == Len(c.items) + 1
             b == Started(c, Narrative("reasoning", <<>>))
             t == [b EXCEPT !.reasoning = at]
             d == Continued(t, at, data)
  <2>1. /\ Follows(b, s) /\ Extends(b.wire.items, c.wire.items)
        /\ b = [c EXCEPT !.items = b.items, !.wire = b.wire]
        /\ Len(b.items) = at /\ b.items[at].kind = "reasoning"
    BY NarrativeStarted
  <2> HIDE DEF b
  <2>2. b \in Converters /\ b.finish = c.finish
    BY <1>1, <2>1 DEF Follows, Converters
  <2>3. /\ t \in Converters /\ t.items = b.items /\ t.wire = b.wire /\ t.tools = b.tools
        /\ t.reasoning = at /\ t.text = b.text /\ t.finish = b.finish
    <3>1. at \in Nat
      BY <1>1
    <3>2. QED
      BY <2>2, <3>1, ConverterWith
  <2> HIDE DEF t
  <2>4. at \in DOMAIN t.items
    BY <1>1, <2>1, <2>3, ConverterIs
  <2>5. Follows(t, s)
    BY <2>1, <2>3, <2>4 DEF Follows, Narrated
  <2>6. /\ Follows(d, s) /\ Extends(d.wire.items, t.wire.items)
        /\ d = [t EXCEPT !.items = d.items, !.wire = d.wire]
    <3>1. t.items[at].kind # "function_call"
      BY <2>1, <2>3
    <3>2. QED
      BY <2>4, <2>5, <3>1, NarrativeContinued
  <2> HIDE DEF d
  <2>7. d.finish = t.finish
    BY <2>3, <2>6 DEF Converters
  <2>8. Extends(d.wire.items, c.wire.items)
    <3>1. /\ c.wire.items \in Seq(Items) /\ t.wire.items \in Seq(Items)
          /\ d.wire.items \in Seq(Items) /\ Extends(t.wire.items, c.wire.items)
      BY <1>1, <2>1, <2>3, <2>6, ConverterIs DEF Follows
    <3>2. QED
      BY <2>6, <3>1, ExtendsOn
  <2>9. handleReasoning(c, data) = d
    BY <1>3 DEF handleReasoning, d, t, b
  <2>10. QED
    BY <2>2, <2>3, <2>6, <2>7, <2>8, <2>9
<1>4. QED
  BY <1>2, <1>3

\* A fragment of a call whose item is at a place.
Meets(item, frag) ==
    [kind |-> item.kind, id |-> Or(frag.id, NoId, item.id),
     name |-> Or(frag.name, NoName, item.name), data |-> item.data \o frag.args]

LEMMA MeetsIs ==
    ASSUME NEW item \in Items, NEW frag, frag.id \in Ids, frag.name \in Called,
           frag.args \in Seq(Parts)
    PROVE  Meets(item, frag) \in Items
<1>1. item.data \in Seq(Parts) /\ item.id \in Ids /\ item.name \in Called
  BY DEF Items
<1>2. item.data \o frag.args \in Seq(Parts)
  BY <1>1
<1>3. QED
  BY <1>1, <1>2 DEF Meets, Items, Or

LEMMA ItemRenamed ==
    ASSUME NEW item \in Items, NEW id, NEW name
    PROVE  /\ [[item EXCEPT !.id = id] EXCEPT !.name = name]
              = [kind |-> item.kind, id |-> id, name |-> name, data |-> item.data]
           /\ [item EXCEPT !.id = id].name = item.name
<1>1. item = [kind |-> item.kind, id |-> item.id, name |-> item.name, data |-> item.data]
  BY DEF Items
<1>2. [item EXCEPT !.id = id]
      = [kind |-> item.kind, id |-> id, name |-> item.name, data |-> item.data]
  BY <1>1
<1> DEFINE once == [item EXCEPT !.id = id]
<1> HIDE DEF once
<1>3. [once EXCEPT !.name = name]
      = [kind |-> item.kind, id |-> id, name |-> name, data |-> item.data]
  <2>1. once = [kind |-> item.kind, id |-> id, name |-> item.name, data |-> item.data]
    BY <1>2 DEF once
  <2>2. QED
    BY <2>1
<1>4. QED
  BY <1>2, <1>3 DEF once

Handled(c, at, frag) ==
    LET n == [c EXCEPT !.items[at].id = Or(frag.id, NoId, @),
                       !.items[at].name = Or(frag.name, NoName, @)]
    IN  IF frag.args = <<>> THEN n ELSE Continued(n, at, frag.args)

\* Converter d is c but for the item at a place and what the client was told.
Updated(d, c, at, item) ==
    /\ d \in Converters /\ Alike(d.wire.items, d.items)
    /\ Extends(d.wire.items, c.wire.items)
    /\ d = [c EXCEPT !.items = d.items, !.wire = d.wire]
    /\ d.items = [c.items EXCEPT ![at] = item]

LEMMA ToolHandled ==
    ASSUME NEW c \in Converters, Alike(c.wire.items, c.items),
           NEW at \in DOMAIN c.items, NEW frag, frag.id \in Ids, frag.name \in Called,
           frag.args \in Seq(Parts)
    PROVE  Updated(Handled(c, at, frag), c, at, Meets(c.items[at], frag))
<1> DEFINE n == [c EXCEPT !.items[at].id = Or(frag.id, NoId, @),
                          !.items[at].name = Or(frag.name, NoName, @)]
           d == IF frag.args = <<>> THEN n ELSE Continued(n, at, frag.args)
           old == c.items[at]
           id == Or(frag.id, NoId, old.id)
           name == Or(frag.name, NoName, old.name)
           called == [kind |-> old.kind, id |-> id, name |-> name, data |-> old.data]
           new == Meets(old, frag)
           Goal(e) == /\ e \in Converters /\ Alike(e.wire.items, e.items)
                      /\ Extends(e.wire.items, c.wire.items)
                      /\ e = [c EXCEPT !.items = e.items, !.wire = e.wire]
                      /\ e.items = [c.items EXCEPT ![at] = new]
<1>0. Handled(c, at, frag) = d
  BY DEF Handled
<1>1. c.items \in Seq(Items) /\ c.wire.items \in Seq(Items) /\ DOMAIN c.items = 1 .. Len(c.items)
  BY ConverterIs
<1>2. old \in Items /\ old.data \in Seq(Parts) /\ old.id \in Ids /\ old.name \in Called
  <2>1. old \in Items
    BY <1>1
  <2>2. QED
    BY <2>1, ItemWith
<1>3. id \in Ids /\ name \in Called
  BY <1>2 DEF Or
<1>4. new \in Items /\ called \in Items
  BY <1>2, <1>3, MeetsIs DEF Items
<1>5. n = [c EXCEPT !.items = [c.items EXCEPT ![at] = called]]
  <2>1. [[old EXCEPT !.id = id] EXCEPT !.name = name] = called
    BY <1>2, ItemRenamed
  <2>2. [c.items EXCEPT ![at] = [old EXCEPT !.id = id]][at] = [old EXCEPT !.id = id]
    BY <1>1
  <2>3. [old EXCEPT !.id = id].name = old.name
    BY <1>2, ItemRenamed
  <2> DEFINE once == [c EXCEPT !.items[at].id = id]
  <2>4. n = [once EXCEPT !.items[at].name = Or(frag.name, NoName, @)]
    OBVIOUS
  <2>5. once = [c EXCEPT !.items = [c.items EXCEPT ![at] = [old EXCEPT !.id = id]]]
    OBVIOUS
  <2>6. once.items = [c.items EXCEPT ![at] = [old EXCEPT !.id = id]]
    BY <2>5 DEF Converters
  <2>7. once.items[at] = [old EXCEPT !.id = id]
    BY <2>2, <2>6
  <2>8. n = [once EXCEPT !.items = [once.items EXCEPT ![at] = [once.items[at] EXCEPT
                !.name = Or(frag.name, NoName, once.items[at].name)]]]
    BY <2>4
  <2>9. [once.items[at] EXCEPT !.name = Or(frag.name, NoName, once.items[at].name)] = called
    BY <2>1, <2>3, <2>7
  <2>10. n = [once EXCEPT !.items = [once.items EXCEPT ![at] = called]]
    BY <2>8, <2>9
  <2> HIDE DEF called
  <2>11. [once.items EXCEPT ![at] = called] = [c.items EXCEPT ![at] = called]
    BY <1>1, <2>6
  <2>12. n = [once EXCEPT !.items = [c.items EXCEPT ![at] = called]]
    BY <2>10, <2>11
  <2>13. QED
    BY <2>5, <2>12 DEF Converters
<1> HIDE DEF n
<1>6. /\ n \in Converters /\ n.items = [c.items EXCEPT ![at] = called] /\ n.wire = c.wire
      /\ n = [c EXCEPT !.items = n.items]
  <2> HIDE DEF called
  <2>1. [c.items EXCEPT ![at] = called] \in Seq(Items)
    BY <1>1, <1>4
  <2>2. QED
    BY <1>5, <2>1 DEF Converters
<1>7. DOMAIN n.items = DOMAIN c.items /\ Len(n.items) = Len(c.items) /\ n.items[at] = called
  <2> HIDE DEF called
  <2>1. QED
    BY <1>1, <1>4, <1>6
<1>8. Alike(n.wire.items, n.items)
  <2>1. called.kind = old.kind /\ called.data = old.data
    OBVIOUS
  <2> HIDE DEF called
  <2>2. QED
    BY <1>1, <1>6, <1>7, <2>1 DEF Alike
<1>9. ASSUME frag.args = <<>> PROVE Goal(d)
  <2>1. d = n
    BY <1>9
  <2>2. new = called
    BY <1>2, <1>9 DEF Meets
  <2>3. Extends(n.wire.items, c.wire.items)
    BY <1>1, <1>6, ExtendsItself
  <2>4. n = [c EXCEPT !.items = n.items, !.wire = n.wire]
    BY <1>6 DEF Converters
  <2> HIDE DEF called, new, d
  <2>5. Goal(n)
    BY <1>6, <1>8, <2>2, <2>3, <2>4
  <2> HIDE DEF Goal
  <2>6. QED
    BY <2>1, <2>5
<1>10. ASSUME frag.args # <<>> PROVE Goal(d)
  <2>1. d = Continued(n, at, frag.args)
    BY <1>10
  <2> HIDE DEF d
  <2>2. /\ d \in Converters /\ Alike(d.wire.items, d.items)
        /\ d = [n EXCEPT !.items[at].data = @ \o frag.args, !.wire = d.wire]
        /\ Extends(d.wire.items, n.wire.items)
    <3> DEFINE e == Continued(n, at, frag.args)
    <3> HIDE DEF called
    <3>1. at \in DOMAIN n.items /\ n \in Converters
      BY <1>6, <1>7
    <3>2. /\ e \in Converters /\ Alike(e.wire.items, e.items)
          /\ e = [n EXCEPT !.items[at].data = @ \o frag.args, !.wire = e.wire]
          /\ Extends(e.wire.items, n.wire.items)
      BY <1>8, <3>1, ContinuedIs, Zenon
    <3>3. QED
      BY <2>1, <3>2
  <2>3. d.items = [n.items EXCEPT ![at] = [n.items[at] EXCEPT !.data = @ \o frag.args]]
    BY <1>6, <2>2 DEF Converters
  <2>4. [called EXCEPT !.data = @ \o frag.args] = new
    <3>1. new = [kind |-> old.kind, id |-> id, name |-> name, data |-> old.data \o frag.args]
      BY DEF Meets
    <3> DEFINE D == called.data \o frag.args
               more == [called EXCEPT !.data = D]
    <3>3. /\ called.kind = old.kind /\ called.id = id /\ called.name = name
          /\ called.data = old.data
      OBVIOUS
    <3> HIDE DEF called, id, name, old
    <3>2. D = old.data \o frag.args /\ D \in Seq(Parts)
      BY <1>2, <3>3
    <3> HIDE DEF D
    <3>4. /\ more \in Items /\ more.kind = called.kind /\ more.id = called.id
          /\ more.name = called.name /\ more.data = D
      BY <1>4, <3>2 DEF Items
    <3>5. more = [kind |-> more.kind, id |-> more.id, name |-> more.name, data |-> more.data]
      BY <3>4 DEF Items
    <3>6. QED
      BY <3>1, <3>2, <3>3, <3>4, <3>5 DEF D
  <2> HIDE DEF called, new
  <2>5. d.items = [c.items EXCEPT ![at] = new]
    BY <1>1, <1>6, <1>7, <2>3, <2>4
  <2>6. d = [c EXCEPT !.items = d.items, !.wire = d.wire]
    BY <1>6, <2>2 DEF Converters
  <2>7. QED
    BY <1>6, <2>2, <2>5, <2>6
<1>11. Goal(d)
  BY <1>9, <1>10
<1> HIDE DEF d, new
<1>12. Updated(d, c, at, new)
  BY <1>11 DEF Updated
<1>13. QED
  BY <1>0, <1>12 DEF new

LEMMA ToolHandledBy ==
    ASSUME NEW c, NEW frag
    PROVE  LET t == toolState(c, frag)
           IN  handleTool(c, frag) = Handled(t, t.tools[frag.index], frag)
BY DEF handleTool, Handled

LEMMA FragmentsAre ==
    ASSUME NEW call \in Calls
    PROVE  /\ First(call).index = call.index /\ Following(call).index = call.index
           /\ First(call).id = (IF call.named THEN Id(call) ELSE NoId)
           /\ First(call).name = (IF call.named THEN call.name ELSE NoName)
           /\ Following(call).id = (IF call.named THEN NoId ELSE Id(call))
           /\ Following(call).name = (IF call.named THEN NoName ELSE call.name)
           /\ call.at \in {0, 1} => First(call).args = Args(call)
           /\ Following(call).args = <<Piece(call, call.at + 1)>>
           /\ Id(call) \in Ids /\ Id(call) # NoId /\ <<0, call.index>> \in Ids
           /\ <<0, call.index>> # NoId /\ NoId \in Ids /\ NoName \in Called
           /\ call.name \in Called /\ call.name # NoName
<1>1. call.index \in Nat /\ call.name \in Names /\ call.at \in {0, 1, 2}
  BY DEF Calls
<1>2. <<1, call.index>> \in {0, 1} \X Nat /\ <<0, call.index>> \in {0, 1} \X Nat
  BY <1>1
<1>3. /\ Id(call) \in Ids /\ Id(call) # NoId /\ <<0, call.index>> \in Ids
      /\ <<0, call.index>> # NoId /\ NoId \in Ids /\ NoName \in Called
      /\ call.name \in Called /\ call.name # NoName
  BY <1>1, <1>2, LanesAssumption DEF Id, Ids, Called
<1>4. call.at \in {0, 1} => First(call).args = Args(call)
  <2>1. call.at = 0 => Args(call) = <<>>
    BY ArgsAre
  <2>2. call.at = 1 => Args(call) = <<Piece(call, 1)>>
    BY ArgsAre
  <2>3. First(call).args = IF call.at = 0 THEN <<>> ELSE <<Piece(call, 1)>>
    BY DEF First, Fragment
  <2>4. QED
    BY <2>1, <2>2, <2>3
<1>5. /\ First(call).index = call.index /\ Following(call).index = call.index
      /\ First(call).id = (IF call.named THEN Id(call) ELSE NoId)
      /\ First(call).name = (IF call.named THEN call.name ELSE NoName)
      /\ Following(call).id = (IF ~call.named THEN Id(call) ELSE NoId)
      /\ Following(call).name = (IF ~call.named THEN call.name ELSE NoName)
      /\ Following(call).args = <<Piece(call, call.at + 1)>>
  BY DEF First, Following, Fragment
<1>6. QED
  BY <1>3, <1>4, <1>5

LEMMA BeginningsAre ==
    ASSUME NEW i \in Nat, NEW b \in Beginnings(i)
    PROVE  /\ b \in Calls /\ b.index = i /\ b.at \in {0, 1} /\ b.at <= b.size
           /\ ~b.named => b.at = 1 /\ b.size = 2
<1> DEFINE A == [index : {i}, name : Names, size : {1, 2}, at : {0, 1}, named : {TRUE}]
           B == [index : {i}, name : Names, size : {2}, at : {1}, named : {FALSE}]
<1>1. b \in A \/ b \in B
  BY DEF Beginnings
<1>2. CASE b \in A
  <2>1. b \in Calls
    BY <1>2 DEF Calls
  <2>2. b.index = i /\ b.at \in {0, 1} /\ b.size \in {1, 2}
    BY <1>2
  <2>3. b.named
    BY <1>2
  <2>4. QED
    BY <2>1, <2>2, <2>3
<1>3. CASE b \in B
  <2>1. b \in Calls
    BY <1>3 DEF Calls
  <2>2. b.index = i /\ b.at = 1 /\ b.size = 2
    BY <1>3
  <2>3. QED
    BY <2>1, <2>2
<1>4. QED
  BY <1>1, <1>2, <1>3

\* A call that begins has its item from then on.
LEMMA ToolBegun ==
    ASSUME NEW s, Numbered(s), NEW c, Follows(c, s), NEW b \in Beginnings(Len(s) + 1)
    PROVE  LET d == handleTool(c, First(b))
           IN  /\ Follows(d, Append(s, b)) /\ Extends(d.wire.items, c.wire.items)
               /\ d.finish = c.finish
<1> DEFINE frag == First(b)
           i == Len(s) + 1
           at == Len(c.items) + 1
           item == Call(Or(frag.id, NoId, <<0, i>>), frag.name, <<>>)
           a == Started(c, item)
           t == [a EXCEPT !.tools = With(@, i, at)]
           d == handleTool(c, frag)
           s2 == Append(s, b)
<1>1. /\ s \in Seq(Calls) /\ Len(s) \in Nat /\ DOMAIN s = 1 .. Len(s) /\ b \in Calls
      /\ b.index = i /\ b.at \in {0, 1}
  <2>1. s \in Seq(Calls) /\ Len(s) \in Nat /\ DOMAIN s = 1 .. Len(s)
    BY DEF Numbered
  <2>2. i \in Nat
    BY <2>1
  <2> HIDE DEF i
  <2>3. b \in Calls /\ b.index = i /\ b.at \in {0, 1}
    BY <2>2, BeginningsAre DEF i
  <2>4. QED
    BY <2>1, <2>3 DEF i
<1>2. /\ c \in Converters /\ Alike(c.wire.items, c.items) /\ c.items \in Seq(Items)
      /\ Len(c.items) \in Nat /\ DOMAIN c.items = 1 .. Len(c.items)
      /\ c.tools \in Seq(Nat) /\ Len(c.tools) = Len(s) /\ DOMAIN c.tools = 1 .. Len(s)
  <2>1. c \in Converters /\ Alike(c.wire.items, c.items) /\ Len(c.tools) = Len(s)
    BY DEF Follows, ToolsFollow
  <2>2. c.items \in Seq(Items) /\ c.tools \in Seq(Nat)
    BY <2>1, ConverterIs
  <2>3. /\ Len(c.items) \in Nat /\ DOMAIN c.items = 1 .. Len(c.items)
        /\ DOMAIN c.tools = 1 .. Len(c.tools)
    BY <2>2
  <2>4. QED
    BY <2>1, <2>2, <2>3
<1>3. /\ frag.index = i /\ frag.id \in Ids /\ frag.name \in Called /\ frag.args = Args(b)
      /\ frag.id = (IF b.named THEN Id(b) ELSE NoId) /\ Id(b) # NoId
      /\ frag.name = (IF b.named THEN b.name ELSE NoName) /\ b.name # NoName
      /\ Or(frag.id, NoId, <<0, i>>) \in Ids /\ Args(b) \in Seq(Parts)
  BY <1>1, FragmentsAre, ArgsAre DEF Or
<1> HIDE DEF frag
<1>4. /\ item \in Items /\ item.kind = "function_call"
      /\ item.id = Or(frag.id, NoId, <<0, i>>) /\ item.name = frag.name /\ item.data = <<>>
  BY <1>3 DEF Call, Items
<1> HIDE DEF item
<1>5. /\ a \in Converters /\ Alike(a.wire.items, a.items)
      /\ a = [c EXCEPT !.items = Append(c.items, item), !.wire = a.wire]
      /\ Extends(a.wire.items, c.wire.items)
  BY <1>2, <1>4, StartedIs
<1> HIDE DEF a
<1>6. /\ a.items = Append(c.items, item) /\ a.tools = c.tools /\ a.text = c.text
      /\ a.reasoning = c.reasoning /\ a.finish = c.finish
  BY <1>2, <1>5 DEF Converters
<1>7. With(c.tools, i, at) = Append(c.tools, at)
  <2> DEFINE tools == c.tools
             n == Len(s)
             f == With(tools, i, at)
  <2>1. DOMAIN f = 1 .. n + 1 /\ f = [x \in 1 .. n + 1 |-> IF x \in 1 .. n THEN tools[x] ELSE at]
    BY <1>1, <1>2 DEF With
  <2>2. /\ Append(tools, at) = [x \in 1 .. n + 1 |-> IF x \in 1 .. n THEN tools[x] ELSE at]
    BY <1>1, <1>2
  <2>3. QED
    BY <2>1, <2>2
<1>8. /\ t \in Converters /\ t.items = a.items /\ t.wire = a.wire /\ t.text = c.text
      /\ t.reasoning = c.reasoning /\ t.finish = c.finish /\ t.tools = Append(c.tools, at)
  <2>1. Append(c.tools, at) \in Seq(Nat)
    BY <1>2
  <2>2. t = [a EXCEPT !.tools = Append(c.tools, at)]
    BY <1>6, <1>7
  <2>3. QED
    BY <1>5, <1>6, <2>1, <2>2 DEF Converters
<1> HIDE DEF t
<1>9. /\ DOMAIN t.items = 1 .. at /\ Len(t.items) = at /\ t.items[at] = item
      /\ \A p \in 1 .. Len(c.items) : t.items[p] = c.items[p]
      /\ t.tools[i] = at /\ \A x \in 1 .. Len(s) : t.tools[x] = c.tools[x]
      /\ Len(t.tools) = i
  BY <1>1, <1>2, <1>4, <1>6, <1>8
<1>10. toolState(c, frag) = t
  <2>1. frag.index \notin DOMAIN c.tools
    BY <1>1, <1>2, <1>3
  <2>2. QED
    BY <1>3, <2>1 DEF toolState, t, a, item
<1>11. /\ d \in Converters /\ Alike(d.wire.items, d.items)
       /\ Extends(d.wire.items, t.wire.items)
       /\ d = [t EXCEPT !.items = d.items, !.wire = d.wire]
       /\ d.items = [t.items EXCEPT ![at] = Meets(@, frag)]
  <2>1. at \in DOMAIN t.items /\ frag.args \in Seq(Parts)
    BY <1>2, <1>3, <1>9
  <2>2. Alike(t.wire.items, t.items)
    BY <1>5, <1>8
  <2>3. d = Handled(t, at, frag)
    BY <1>3, <1>9, <1>10, ToolHandledBy
  <2> HIDE DEF d
  <2>4. t \in Converters /\ frag.id \in Ids /\ frag.name \in Called
    BY <1>3, <1>8
  <2>5. Updated(d, t, at, Meets(t.items[at], frag))
    BY <1>3, <2>1, <2>2, <2>3, <2>4, ToolHandled
  <2>6. QED
    BY <2>5 DEF Updated
<1> HIDE DEF d
<1>12. /\ d.text = c.text /\ d.reasoning = c.reasoning /\ d.finish = c.finish
       /\ d.tools = t.tools
  BY <1>8, <1>11 DEF Converters
<1>13. Meets(item, frag) = ItemOf(b)
  <2>1. Or(frag.id, NoId, item.id) = IF b.named THEN Id(b) ELSE <<0, b.index>>
    BY <1>1, <1>3, <1>4 DEF Or
  <2>2. Or(frag.name, NoName, item.name) = IF b.named THEN b.name ELSE NoName
    BY <1>3, <1>4 DEF Or
  <2>3. item.data \o frag.args = Args(b)
    BY <1>3, <1>4
  <2>4. QED
    BY <1>4, <2>1, <2>2, <2>3 DEF Meets, ItemOf, Call
<1>14. /\ DOMAIN d.items = 1 .. at /\ d.items[at] = ItemOf(b)
       /\ \A p \in 1 .. Len(c.items) : d.items[p] = c.items[p]
  BY <1>2, <1>9, <1>11, <1>13
<1>15. /\ s2 \in Seq(Calls) /\ Len(s2) = i /\ DOMAIN s2 = 1 .. i /\ s2[i] = b
       /\ \A x \in 1 .. Len(s) : s2[x] = s[x]
  BY <1>1
<1> HIDE DEF s2
<1>16. Narrated(d.items, d.text, "message") /\ Narrated(d.items, d.reasoning, "reasoning")
  BY <1>2, <1>12, <1>14 DEF Follows, Narrated
<1>17. ToolsFollow(d.items, d.tools, s2)
  <2>1. /\ \A x \in 1 .. Len(s) : c.tools[x] \in 1 .. Len(c.items)
        /\ \A x \in 1 .. Len(s) : c.items[c.tools[x]] = ItemOf(s[x])
        /\ \A x, y \in 1 .. Len(s) : c.tools[x] = c.tools[y] => x = y
        /\ \A p \in 1 .. Len(c.items) :
              c.items[p].kind = "function_call" => \E x \in 1 .. Len(s) : c.tools[x] = p
    BY <1>1, <1>2 DEF Follows, ToolsFollow
  <2>2. ASSUME NEW x \in DOMAIN s2
        PROVE  d.tools[x] \in DOMAIN d.items /\ d.items[d.tools[x]] = ItemOf(s2[x])
    <3>1. CASE x = i
      <4>1. d.tools[x] = at /\ s2[x] = b
        BY <1>9, <1>12, <1>15, <3>1
      <4>2. at \in 1 .. at
        BY <1>2
      <4>3. QED
        BY <1>14, <4>1, <4>2
    <3>2. CASE x \in 1 .. Len(s)
      <4>1. d.tools[x] = c.tools[x] /\ s2[x] = s[x]
        BY <1>9, <1>12, <1>15, <3>2
      <4>2. c.tools[x] \in 1 .. Len(c.items) /\ c.items[c.tools[x]] = ItemOf(s[x])
        BY <2>1, <3>2
      <4>3. c.tools[x] \in 1 .. at /\ d.items[c.tools[x]] = ItemOf(s[x])
        BY <1>2, <1>14, <4>2
      <4>4. QED
        BY <1>14, <4>1, <4>3
    <3>3. QED
      BY <1>1, <1>15, <3>1, <3>2
  <2>3. ASSUME NEW x \in DOMAIN s2, NEW y \in DOMAIN s2, d.tools[x] = d.tools[y]
        PROVE  x = y
    <3>1. \A z \in 1 .. Len(s) : d.tools[z] = c.tools[z] /\ d.tools[z] # at
      BY <1>2, <1>9, <1>12, <2>1
    <3>2. d.tools[i] = at /\ DOMAIN s2 = 1 .. Len(s) \cup {i}
      BY <1>1, <1>9, <1>12, <1>15
    <3>3. QED
      BY <2>1, <2>3, <3>1, <3>2
  <2>4. ASSUME NEW p \in DOMAIN d.items, d.items[p].kind = "function_call"
        PROVE  \E x \in DOMAIN s2 : d.tools[x] = p
    <3>1. CASE p = at
      BY <1>1, <1>9, <1>12, <1>15, <3>1
    <3>2. CASE p \in 1 .. Len(c.items)
      <4>1. PICK x \in 1 .. Len(s) : c.tools[x] = p
        BY <1>14, <2>1, <2>4, <3>2
      <4>2. x \in DOMAIN s2 /\ d.tools[x] = p
        BY <1>1, <1>9, <1>12, <1>15, <4>1
      <4>3. QED
        BY <4>2
    <3>3. QED
      BY <1>2, <1>14, <3>1, <3>2
  <2>5. QED
    BY <1>9, <1>12, <1>15, <2>2, <2>3, <2>4 DEF ToolsFollow
<1>18. Extends(d.wire.items, c.wire.items)
  <2>1. /\ c.wire.items \in Seq(Items) /\ t.wire.items \in Seq(Items)
        /\ d.wire.items \in Seq(Items) /\ Extends(t.wire.items, c.wire.items)
    BY <1>2, <1>5, <1>8, <1>11, ConverterIs
  <2>2. QED
    BY <1>11, <2>1, ExtendsOn
<1>19. QED
  BY <1>11, <1>12, <1>16, <1>17, <1>18 DEF Follows, d, s2, frag

\* More of a call goes to its item.
LEMMA ToolContinued ==
    ASSUME NEW s, Numbered(s), NEW c, Follows(c, s), NEW i \in DOMAIN s,
           s[i].at < s[i].size
    PROVE  LET d == handleTool(c, Following(s[i]))
           IN  /\ Follows(d, [s EXCEPT ![i] = Further(s[i])])
               /\ Extends(d.wire.items, c.wire.items)
               /\ d.finish = c.finish
<1> DEFINE frag == Following(s[i])
           at == c.tools[i]
           d == handleTool(c, frag)
           s2 == [s EXCEPT ![i] = Further(s[i])]
<1>1. /\ s \in Seq(Calls) /\ DOMAIN s = 1 .. Len(s) /\ s[i] \in Calls /\ s[i].index = i
      /\ Further(s[i]) \in Calls
  <2>1. s \in Seq(Calls) /\ DOMAIN s = 1 .. Len(s) /\ s[i] \in Calls /\ s[i].index = i
    BY DEF Numbered
  <2>2. QED
    BY <2>1, FurtherIs
<1>2. /\ c \in Converters /\ Alike(c.wire.items, c.items) /\ c.items \in Seq(Items)
      /\ c.tools \in Seq(Nat) /\ Len(c.tools) = Len(s) /\ i \in DOMAIN c.tools
      /\ at \in DOMAIN c.items /\ c.items[at] = ItemOf(s[i])
  <2>1. /\ c \in Converters /\ Alike(c.wire.items, c.items) /\ Len(c.tools) = Len(s)
        /\ at \in DOMAIN c.items /\ c.items[at] = ItemOf(s[i])
    BY DEF Follows, ToolsFollow
  <2>2. c.items \in Seq(Items) /\ c.tools \in Seq(Nat)
    BY <2>1, ConverterIs
  <2>3. QED
    BY <1>1, <2>1, <2>2
<1>3. /\ frag.index = i /\ frag.id \in Ids /\ frag.name \in Called
      /\ frag.args = <<Piece(s[i], s[i].at + 1)>> /\ frag.args \in Seq(Parts)
      /\ frag.id = (IF s[i].named THEN NoId ELSE Id(s[i])) /\ Id(s[i]) # NoId
      /\ frag.name = (IF s[i].named THEN NoName ELSE s[i].name) /\ s[i].name # NoName
  <2> DEFINE call == s[i]
  <2>1. call \in Calls /\ call.index = i /\ call.at < call.size
    BY <1>1
  <2> HIDE DEF call
  <2>2. Piece(call, call.at + 1) \in Parts
    BY <2>1, FurtherIs
  <2>3. <<Piece(call, call.at + 1)>> \in Seq(Parts)
    BY <2>2
  <2>4. LET f == Following(call)
        IN  /\ f.index = i /\ f.id \in Ids /\ f.name \in Called
            /\ f.args = <<Piece(call, call.at + 1)>>
            /\ f.id = (IF call.named THEN NoId ELSE Id(call)) /\ Id(call) # NoId
            /\ f.name = (IF call.named THEN NoName ELSE call.name) /\ call.name # NoName
    BY <2>1, FragmentsAre
  <2>5. QED
    BY <2>3, <2>4 DEF call
<1> HIDE DEF frag
<1>4. /\ d \in Converters /\ Alike(d.wire.items, d.items)
      /\ Extends(d.wire.items, c.wire.items)
      /\ d = [c EXCEPT !.items = d.items, !.wire = d.wire]
      /\ d.items = [c.items EXCEPT ![at] = Meets(@, frag)]
  <2>1. toolState(c, frag) = c
    BY <1>2, <1>3 DEF toolState
  <2>2. d = Handled(c, at, frag)
    BY <1>3, <2>1, ToolHandledBy
  <2> HIDE DEF d
  <2>3. /\ c \in Converters /\ Alike(c.wire.items, c.items) /\ at \in DOMAIN c.items
        /\ frag.id \in Ids /\ frag.name \in Called /\ frag.args \in Seq(Parts)
    BY <1>2, <1>3
  <2> HIDE DEF at
  <2>4. Updated(d, c, at, Meets(c.items[at], frag))
    BY <2>2, <2>3, ToolHandled
  <2>5. QED
    BY <2>4 DEF Updated
<1> HIDE DEF d
<1>5. /\ d.text = c.text /\ d.reasoning = c.reasoning /\ d.finish = c.finish
      /\ d.tools = c.tools
  BY <1>2, <1>4 DEF Converters
<1>6. Meets(ItemOf(s[i]), frag) = ItemOf(Further(s[i]))
  <2> DEFINE item == ItemOf(s[i])
             more == Further(s[i])
  <2>1. /\ item.kind = "function_call"
        /\ item.id = (IF s[i].named THEN Id(s[i]) ELSE <<0, s[i].index>>)
        /\ item.name = (IF s[i].named THEN s[i].name ELSE NoName)
        /\ item.data = Args(s[i])
    BY DEF ItemOf, Call
  <2>2. /\ more.index = s[i].index /\ more.name = s[i].name /\ more.named
        /\ Args(more) = Args(s[i]) \o frag.args
    BY <1>1, <1>3, FurtherIs
  <2> HIDE DEF item, more
  <2>3. Or(frag.id, NoId, item.id) = Id(more)
    BY <1>3, <2>1, <2>2 DEF Or, Id
  <2>4. Or(frag.name, NoName, item.name) = more.name
    BY <1>3, <2>1, <2>2 DEF Or
  <2>5. Meets(item, frag) = ItemOf(more)
    BY <2>1, <2>2, <2>3, <2>4 DEF Meets, ItemOf, Call
  <2>6. QED
    BY <2>5 DEF item, more
<1>7. /\ DOMAIN d.items = DOMAIN c.items /\ d.items[at] = ItemOf(Further(s[i]))
      /\ \A p \in DOMAIN c.items \ {at} : d.items[p] = c.items[p]
      /\ d.items[at].kind = c.items[at].kind
  <2>1. \A call : ItemOf(call).kind = "function_call"
    BY DEF ItemOf, Call
  <2>2. QED
    BY <1>2, <1>4, <1>6, <2>1
<1>8. /\ Len(s2) = Len(s) /\ DOMAIN s2 = DOMAIN s /\ s2[i] = Further(s[i])
      /\ \A x \in DOMAIN s \ {i} : s2[x] = s[x]
  BY <1>1
<1> HIDE DEF s2
<1>9. Narrated(d.items, d.text, "message") /\ Narrated(d.items, d.reasoning, "reasoning")
  <2>1. \A p \in DOMAIN c.items : d.items[p].kind = c.items[p].kind
    BY <1>7
  <2>2. QED
    BY <1>5, <1>7, <2>1 DEF Follows, Narrated
<1>10. ToolsFollow(d.items, d.tools, s2)
  <2>1. ToolsFollow(c.items, c.tools, s)
    BY DEF Follows
  <2>2. ASSUME NEW x \in DOMAIN s2
        PROVE  d.tools[x] \in DOMAIN d.items /\ d.items[d.tools[x]] = ItemOf(s2[x])
    <3>1. CASE x = i
      BY <1>2, <1>5, <1>7, <1>8, <3>1
    <3>2. CASE x # i
      <4>1. x \in DOMAIN s /\ c.tools[x] # at
        BY <1>8, <2>1, <3>2 DEF ToolsFollow
      <4>2. QED
        BY <1>5, <1>7, <1>8, <2>1, <3>2, <4>1 DEF ToolsFollow
    <3>3. QED
      BY <3>1, <3>2
  <2>3. ASSUME NEW p \in DOMAIN d.items, d.items[p].kind = "function_call"
        PROVE  \E x \in DOMAIN s2 : d.tools[x] = p
    <3>1. c.items[p].kind = "function_call"
      BY <1>7, <2>3
    <3>2. QED
      BY <1>5, <1>7, <1>8, <2>1, <3>1 DEF ToolsFollow
  <2>4. \A x, y \in DOMAIN s2 : d.tools[x] = d.tools[y] => x = y
    BY <1>5, <1>8, <2>1 DEF ToolsFollow
  <2>5. Len(d.tools) = Len(s2)
    BY <1>2, <1>5, <1>8
  <2>6. QED
    BY <2>2, <2>3, <2>4, <2>5 DEF ToolsFollow
<1>11. QED
  BY <1>4, <1>5, <1>9, <1>10 DEF Follows, d, s2, frag

----------------------------------------------------------------------------
(* The loops over the fragments of a chunk.                                *)

\* What handleTools computes, fragment by fragment.
LEMMA ToolsHandledAre ==
    ASSUME NEW c, NEW frags, Len(frags) \in Nat
    PROVE  \E so : /\ so[0] = c
                   /\ \A i \in 1 .. Len(frags) : so[i] = handleTool(so[i - 1], frags[i])
                   /\ handleTools(c, frags) = so[Len(frags)]
<1> DEFINE Body(g, k) ==
             [i \in 0 .. k |-> IF i = 0 THEN c ELSE handleTool(g[i - 1], frags[i])]
           Good == {k \in Nat : \E g : g = Body(g, k)}
           so == CHOOSE g : g = Body(g, Len(frags))
<1>1. 0 \in Good
  <2>1. [i \in 0 .. 0 |-> c] = Body([i \in 0 .. 0 |-> c], 0)
    OBVIOUS
  <2>2. QED
    BY <2>1
<1>2. ASSUME NEW k \in Nat, k \in Good
      PROVE  k + 1 \in Good
  <2>1. PICK g : g = Body(g, k)
    BY <1>2
  <2> DEFINE h == [i \in 0 .. k + 1 |->
                     IF i <= k THEN g[i] ELSE handleTool(g[k], frags[k + 1])]
  <2>2. ASSUME NEW i \in 0 .. k + 1
        PROVE  h[i] = Body(h, k + 1)[i]
    <3>1. CASE i = 0
      BY <2>1, <3>1
    <3>2. CASE i # 0 /\ i <= k
      <4>1. i - 1 \in 0 .. k + 1 /\ i - 1 <= k /\ i \in 0 .. k
        BY <3>2
      <4>2. h[i - 1] = g[i - 1] /\ h[i] = g[i]
        BY <3>2, <4>1
      <4>3. g[i] = handleTool(g[i - 1], frags[i])
        BY <2>1, <3>2, <4>1
      <4>4. QED
        BY <3>2, <4>2, <4>3
    <3>3. CASE i = k + 1
      <4>1. i - 1 = k /\ i # 0 /\ ~(i <= k) /\ k \in 0 .. k + 1
        BY <3>3
      <4>2. h[i] = handleTool(g[k], frags[k + 1]) /\ h[i - 1] = g[k]
        BY <3>3, <4>1
      <4>3. QED
        BY <3>3, <4>1, <4>2
    <3>4. QED
      BY <3>1, <3>2, <3>3
  <2>3. h = Body(h, k + 1)
    <3> HIDE DEF h
    <3>1. DOMAIN h = 0 .. k + 1 /\ h = [i \in 0 .. k + 1 |-> h[i]]
      BY DEF h
    <3>2. QED
      BY <2>2, <3>1
  <2>4. \E f : f = Body(f, k + 1)
    <3> HIDE DEF h, Body
    <3>1. QED
      BY <2>3
  <2>5. QED
    BY <2>4
<1>3. Nat \subseteq Good
  <2>1. \A k \in Nat : k \in Good => k + 1 \in Good
    BY <1>2
  <2> HIDE DEF Good
  <2>2. QED
    BY <1>1, <2>1, EveryNat
<1>4. so = Body(so, Len(frags))
  <2>1. \E g : g = Body(g, Len(frags))
    BY <1>3
  <2>2. QED
    BY <2>1
<1>5. handleTools(c, frags) = so[Len(frags)]
  BY DEF handleTools
<1> HIDE DEF so
<1>6. so[0] = c
  BY <1>4
<1>7. ASSUME NEW i \in 1 .. Len(frags)
      PROVE  so[i] = handleTool(so[i - 1], frags[i])
  BY <1>4
<1>8. QED
  BY <1>5, <1>6, <1>7

\* A chunk has two fragments at most.
LEMMA ToolsHandled ==
    ASSUME NEW c, NEW a
    PROVE  /\ handleTools(c, <<>>) = c
           /\ handleTools(c, <<a>>) = handleTool(c, a)
<1>1. handleTools(c, <<>>) = c
  <2>1. Len(<<>>) = 0
    OBVIOUS
  <2>2. QED
    BY <2>1, ToolsHandledAre
<1>2. handleTools(c, <<a>>) = handleTool(c, a)
  <2> DEFINE frags == <<a>>
  <2>1. Len(frags) = 1 /\ frags[1] = a /\ 1 \in 1 .. 1 /\ 1 - 1 = 0
    OBVIOUS
  <2> HIDE DEF frags
  <2>2. handleTools(c, frags) = handleTool(c, a)
    BY <2>1, ToolsHandledAre
  <2>3. QED
    BY <2>2 DEF frags
<1>3. QED
  BY <1>1, <1>2

LEMMA ToolsHandledTwo ==
    ASSUME NEW c, NEW frags
    PROVE  Len(frags) = 2 => handleTools(c, frags) = handleTool(handleTool(c, frags[1]), frags[2])
<1>1. 1 \in 1 .. 2 /\ 1 - 1 = 0 /\ 2 \in 1 .. 2 /\ 2 - 1 = 1
  OBVIOUS
<1>2. Len(frags) \in Nat =>
         \E so : /\ so[0] = c
                /\ \A i \in 1 .. Len(frags) : so[i] = handleTool(so[i - 1], frags[i])
                /\ handleTools(c, frags) = so[Len(frags)]
  BY ToolsHandledAre
<1>3. HAVE Len(frags) = 2
<1>4. PICK so : /\ so[0] = c
                /\ \A i \in 1 .. Len(frags) : so[i] = handleTool(so[i - 1], frags[i])
                /\ handleTools(c, frags) = so[Len(frags)]
  BY <1>2, <1>3
<1>5. so[1] = handleTool(so[0], frags[1]) /\ so[2] = handleTool(so[1], frags[2])
  BY <1>1, <1>3, <1>4
<1>6. QED
  BY <1>3, <1>4, <1>5

\* What verdicts computes, fragment by fragment.
LEMMA VerdictsAre ==
    ASSUME NEW f, NEW frags, Len(frags) \in Nat
    PROVE  \E so : /\ so[0] = f
                   /\ \A i \in 1 .. Len(frags) : so[i] = verdictFor(so[i - 1], frags[i])
                   /\ verdicts(f, frags) = so[Len(frags)]
<1> DEFINE Body(g, k) ==
             [i \in 0 .. k |-> IF i = 0 THEN f ELSE verdictFor(g[i - 1], frags[i])]
           Good == {k \in Nat : \E g : g = Body(g, k)}
           so == CHOOSE g : g = Body(g, Len(frags))
<1>1. 0 \in Good
  <2>1. [i \in 0 .. 0 |-> f] = Body([i \in 0 .. 0 |-> f], 0)
    OBVIOUS
  <2>2. QED
    BY <2>1
<1>2. ASSUME NEW k \in Nat, k \in Good
      PROVE  k + 1 \in Good
  <2>1. PICK g : g = Body(g, k)
    BY <1>2
  <2> DEFINE h == [i \in 0 .. k + 1 |->
                     IF i <= k THEN g[i] ELSE verdictFor(g[k], frags[k + 1])]
  <2>2. ASSUME NEW i \in 0 .. k + 1
        PROVE  h[i] = Body(h, k + 1)[i]
    <3>1. CASE i = 0
      BY <2>1, <3>1
    <3>2. CASE i # 0 /\ i <= k
      <4>1. i - 1 \in 0 .. k + 1 /\ i - 1 <= k /\ i \in 0 .. k
        BY <3>2
      <4>2. h[i - 1] = g[i - 1] /\ h[i] = g[i]
        BY <3>2, <4>1
      <4>3. g[i] = verdictFor(g[i - 1], frags[i])
        BY <2>1, <3>2, <4>1
      <4>4. QED
        BY <3>2, <4>2, <4>3
    <3>3. CASE i = k + 1
      <4>1. i - 1 = k /\ i # 0 /\ ~(i <= k) /\ k \in 0 .. k + 1
        BY <3>3
      <4>2. h[i] = verdictFor(g[k], frags[k + 1]) /\ h[i - 1] = g[k]
        BY <3>3, <4>1
      <4>3. QED
        BY <3>3, <4>1, <4>2
    <3>4. QED
      BY <3>1, <3>2, <3>3
  <2>3. h = Body(h, k + 1)
    <3> HIDE DEF h
    <3>1. DOMAIN h = 0 .. k + 1 /\ h = [i \in 0 .. k + 1 |-> h[i]]
      BY DEF h
    <3>2. QED
      BY <2>2, <3>1
  <2>4. \E x : x = Body(x, k + 1)
    <3> HIDE DEF h, Body
    <3>1. QED
      BY <2>3
  <2>5. QED
    BY <2>4
<1>3. Nat \subseteq Good
  <2>1. \A k \in Nat : k \in Good => k + 1 \in Good
    BY <1>2
  <2> HIDE DEF Good
  <2>2. QED
    BY <1>1, <2>1, EveryNat
<1>4. so = Body(so, Len(frags))
  <2>1. \E g : g = Body(g, Len(frags))
    BY <1>3
  <2>2. QED
    BY <2>1
<1>5. verdicts(f, frags) = so[Len(frags)]
  BY DEF verdicts
<1> HIDE DEF so
<1>6. so[0] = f
  BY <1>4
<1>7. ASSUME NEW i \in 1 .. Len(frags)
      PROVE  so[i] = verdictFor(so[i - 1], frags[i])
  BY <1>4
<1>8. QED
  BY <1>5, <1>6, <1>7

\* A chunk has two fragments at most.
LEMMA VerdictsOf ==
    ASSUME NEW f, NEW a
    PROVE  /\ verdicts(f, <<>>) = f
           /\ verdicts(f, <<a>>) = verdictFor(f, a)
<1>1. verdicts(f, <<>>) = f
  <2>1. Len(<<>>) = 0
    OBVIOUS
  <2>2. QED
    BY <2>1, VerdictsAre
<1>2. verdicts(f, <<a>>) = verdictFor(f, a)
  <2> DEFINE frags == <<a>>
  <2>1. Len(frags) = 1 /\ frags[1] = a /\ 1 \in 1 .. 1 /\ 1 - 1 = 0
    OBVIOUS
  <2> HIDE DEF frags
  <2>2. verdicts(f, frags) = verdictFor(f, a)
    BY <2>1, VerdictsAre
  <2>3. QED
    BY <2>2 DEF frags
<1>3. QED
  BY <1>1, <1>2

LEMMA VerdictsOfTwo ==
    ASSUME NEW f, NEW frags
    PROVE  Len(frags) = 2 => verdicts(f, frags) = verdictFor(verdictFor(f, frags[1]), frags[2])
<1>1. 1 \in 1 .. 2 /\ 1 - 1 = 0 /\ 2 \in 1 .. 2 /\ 2 - 1 = 1
  OBVIOUS
<1>2. Len(frags) \in Nat =>
         \E so : /\ so[0] = f
                /\ \A i \in 1 .. Len(frags) : so[i] = verdictFor(so[i - 1], frags[i])
                /\ verdicts(f, frags) = so[Len(frags)]
  BY VerdictsAre
<1>3. HAVE Len(frags) = 2
<1>4. PICK so : /\ so[0] = f
                /\ \A i \in 1 .. Len(frags) : so[i] = verdictFor(so[i - 1], frags[i])
                /\ verdicts(f, frags) = so[Len(frags)]
  BY <1>2, <1>3
<1>5. so[1] = verdictFor(so[0], frags[1]) /\ so[2] = verdictFor(so[1], frags[2])
  BY <1>1, <1>3, <1>4
<1>6. QED
  BY <1>3, <1>4, <1>5

\* What appendTools computes, fragment by fragment.
LEMMA AppendedAre ==
    ASSUME NEW calls, NEW frags, Len(frags) \in Nat
    PROVE  \E so : /\ so[0] = calls
                   /\ \A i \in 1 .. Len(frags) : so[i] = appendTool(so[i - 1], frags[i])
                   /\ appendTools(calls, frags) = so[Len(frags)]
<1> DEFINE Body(g, k) ==
             [i \in 0 .. k |-> IF i = 0 THEN calls ELSE appendTool(g[i - 1], frags[i])]
           Good == {k \in Nat : \E g : g = Body(g, k)}
           so == CHOOSE g : g = Body(g, Len(frags))
<1>1. 0 \in Good
  <2>1. [i \in 0 .. 0 |-> calls] = Body([i \in 0 .. 0 |-> calls], 0)
    OBVIOUS
  <2>2. QED
    BY <2>1
<1>2. ASSUME NEW k \in Nat, k \in Good
      PROVE  k + 1 \in Good
  <2>1. PICK g : g = Body(g, k)
    BY <1>2
  <2> DEFINE h == [i \in 0 .. k + 1 |->
                     IF i <= k THEN g[i] ELSE appendTool(g[k], frags[k + 1])]
  <2>2. ASSUME NEW i \in 0 .. k + 1
        PROVE  h[i] = Body(h, k + 1)[i]
    <3>1. CASE i = 0
      BY <2>1, <3>1
    <3>2. CASE i # 0 /\ i <= k
      <4>1. i - 1 \in 0 .. k + 1 /\ i - 1 <= k /\ i \in 0 .. k
        BY <3>2
      <4>2. h[i - 1] = g[i - 1] /\ h[i] = g[i]
        BY <3>2, <4>1
      <4>3. g[i] = appendTool(g[i - 1], frags[i])
        BY <2>1, <3>2, <4>1
      <4>4. QED
        BY <3>2, <4>2, <4>3
    <3>3. CASE i = k + 1
      <4>1. i - 1 = k /\ i # 0 /\ ~(i <= k) /\ k \in 0 .. k + 1
        BY <3>3
      <4>2. h[i] = appendTool(g[k], frags[k + 1]) /\ h[i - 1] = g[k]
        BY <3>3, <4>1
      <4>3. QED
        BY <3>3, <4>1, <4>2
    <3>4. QED
      BY <3>1, <3>2, <3>3
  <2>3. h = Body(h, k + 1)
    <3> HIDE DEF h
    <3>1. DOMAIN h = 0 .. k + 1 /\ h = [i \in 0 .. k + 1 |-> h[i]]
      BY DEF h
    <3>2. QED
      BY <2>2, <3>1
  <2>4. \E f : f = Body(f, k + 1)
    <3> HIDE DEF h, Body
    <3>1. QED
      BY <2>3
  <2>5. QED
    BY <2>4
<1>3. Nat \subseteq Good
  <2>1. \A k \in Nat : k \in Good => k + 1 \in Good
    BY <1>2
  <2> HIDE DEF Good
  <2>2. QED
    BY <1>1, <2>1, EveryNat
<1>4. so = Body(so, Len(frags))
  <2>1. \E g : g = Body(g, Len(frags))
    BY <1>3
  <2>2. QED
    BY <2>1
<1>5. appendTools(calls, frags) = so[Len(frags)]
  BY DEF appendTools
<1> HIDE DEF so
<1>6. so[0] = calls
  BY <1>4
<1>7. ASSUME NEW i \in 1 .. Len(frags)
      PROVE  so[i] = appendTool(so[i - 1], frags[i])
  BY <1>4
<1>8. QED
  BY <1>5, <1>6, <1>7

\* A chunk has two fragments at most.
LEMMA AppendedOf ==
    ASSUME NEW calls, NEW a
    PROVE  /\ appendTools(calls, <<>>) = calls
           /\ appendTools(calls, <<a>>) = appendTool(calls, a)
<1>1. appendTools(calls, <<>>) = calls
  <2>1. Len(<<>>) = 0
    OBVIOUS
  <2>2. QED
    BY <2>1, AppendedAre
<1>2. appendTools(calls, <<a>>) = appendTool(calls, a)
  <2> DEFINE frags == <<a>>
  <2>1. Len(frags) = 1 /\ frags[1] = a /\ 1 \in 1 .. 1 /\ 1 - 1 = 0
    OBVIOUS
  <2> HIDE DEF frags
  <2>2. appendTools(calls, frags) = appendTool(calls, a)
    BY <2>1, AppendedAre
  <2>3. QED
    BY <2>2 DEF frags
<1>3. QED
  BY <1>1, <1>2

LEMMA AppendedOfTwo ==
    ASSUME NEW calls, NEW frags
    PROVE  Len(frags) = 2 => appendTools(calls, frags) = appendTool(appendTool(calls, frags[1]), frags[2])
<1>1. 1 \in 1 .. 2 /\ 1 - 1 = 0 /\ 2 \in 1 .. 2 /\ 2 - 1 = 1
  OBVIOUS
<1>2. Len(frags) \in Nat =>
         \E so : /\ so[0] = calls
                /\ \A i \in 1 .. Len(frags) : so[i] = appendTool(so[i - 1], frags[i])
                /\ appendTools(calls, frags) = so[Len(frags)]
  BY AppendedAre
<1>3. HAVE Len(frags) = 2
<1>4. PICK so : /\ so[0] = calls
                /\ \A i \in 1 .. Len(frags) : so[i] = appendTool(so[i - 1], frags[i])
                /\ appendTools(calls, frags) = so[Len(frags)]
  BY <1>2, <1>3
<1>5. so[1] = appendTool(so[0], frags[1]) /\ so[2] = appendTool(so[1], frags[2])
  BY <1>1, <1>3, <1>4
<1>6. QED
  BY <1>3, <1>4, <1>5

----------------------------------------------------------------------------
(* What the upstream sends.                                                *)

LEMMA CallBegun ==
    ASSUME NEW s, Numbered(s), NEW b \in Beginnings(Len(s) + 1)
    PROVE  Numbered(Append(s, b))
<1> DEFINE i == Len(s) + 1
           t == Append(s, b)
<1>1. /\ s \in Seq(Calls) /\ Len(s) \in Nat /\ DOMAIN s = 1 .. Len(s) /\ i \in Nat
      /\ \A x \in 1 .. Len(s) : /\ s[x].index = x /\ s[x].at <= s[x].size
                                /\ ~s[x].named => s[x].at = 1 /\ s[x].size = 2
  BY DEF Numbered
<1>2. /\ b \in Calls /\ b.index = i /\ b.at <= b.size
      /\ ~b.named => b.at = 1 /\ b.size = 2
  BY <1>1, BeginningsAre
<1>3. /\ t \in Seq(Calls) /\ DOMAIN t = 1 .. i /\ t[i] = b
      /\ \A x \in 1 .. Len(s) : t[x] = s[x]
  BY <1>1, <1>2
<1> HIDE DEF t
<1>4. ASSUME NEW x \in DOMAIN t
      PROVE  /\ t[x].index = x /\ t[x].at <= t[x].size
             /\ ~t[x].named => t[x].at = 1 /\ t[x].size = 2
  <2>1. CASE x = i
    BY <1>2, <1>3, <2>1
  <2>2. CASE x \in 1 .. Len(s)
    BY <1>1, <1>3, <2>2
  <2>3. QED
    BY <1>1, <1>3, <2>1, <2>2
<1>5. Numbered(t)
  BY <1>3, <1>4 DEF Numbered
<1>6. QED
  BY <1>5 DEF t

LEMMA CallContinued ==
    ASSUME NEW s, Numbered(s), NEW i \in DOMAIN s, s[i].at < s[i].size
    PROVE  Numbered([s EXCEPT ![i] = Further(s[i])])
<1> DEFINE t == [s EXCEPT ![i] = Further(s[i])]
<1>1. /\ s \in Seq(Calls) /\ s[i] \in Calls /\ s[i].index = i
  BY DEF Numbered
<1>2. /\ Further(s[i]) \in Calls /\ Further(s[i]).index = i /\ Further(s[i]).named
      /\ Further(s[i]).at <= Further(s[i]).size
  BY <1>1, FurtherIs
<1>3. /\ t \in Seq(Calls) /\ DOMAIN t = DOMAIN s /\ t[i] = Further(s[i])
      /\ \A x \in DOMAIN s \ {i} : t[x] = s[x]
  BY <1>1, <1>2
<1> HIDE DEF t
<1>4. Numbered(t)
  BY <1>2, <1>3 DEF Numbered
<1>5. QED
  BY <1>4 DEF t

Chunk(text, reasoning, calls, finish) ==
    [text |-> text, reasoning |-> reasoning, calls |-> calls, finish |-> finish]
WithText(chunk, v) == [chunk EXCEPT !.text = v]
WithReasoning(chunk, v) == [chunk EXCEPT !.reasoning = v]
WithCalls(chunk, v) == [chunk EXCEPT !.calls = v]
WithFinish(chunk, v) == [chunk EXCEPT !.finish = v]

LEMMA ChunkWith ==
    ASSUME NEW t, NEW r, NEW c, NEW f, NEW v
    PROVE  /\ WithText(Chunk(t, r, c, f), v) = Chunk(v, r, c, f)
           /\ WithReasoning(Chunk(t, r, c, f), v) = Chunk(t, v, c, f)
           /\ WithCalls(Chunk(t, r, c, f), v) = Chunk(t, r, v, f)
           /\ WithFinish(Chunk(t, r, c, f), v) = Chunk(t, r, c, v)
<1>1. WithText(Chunk(t, r, c, f), v) = Chunk(v, r, c, f)
  BY Z3 DEF Chunk, WithText
<1>2. WithReasoning(Chunk(t, r, c, f), v) = Chunk(t, v, c, f)
  BY Z3 DEF Chunk, WithReasoning
<1>3. WithCalls(Chunk(t, r, c, f), v) = Chunk(t, r, v, f)
  BY Z3 DEF Chunk, WithCalls
<1>4. WithFinish(Chunk(t, r, c, f), v) = Chunk(t, r, c, v)
  BY Z3 DEF Chunk, WithFinish
<1>5. QED
  BY <1>1, <1>2, <1>3, <1>4

LEMMA SilentWith ==
    ASSUME NEW v
    PROVE  /\ Silent = Chunk(<<>>, <<>>, <<>>, "")
           /\ WithText(Silent, v) = Chunk(v, <<>>, <<>>, "")
           /\ WithReasoning(Silent, v) = Chunk(<<>>, v, <<>>, "")
           /\ WithCalls(Silent, v) = Chunk(<<>>, <<>>, v, "")
<1> DEFINE E == <<>>
           F == ""
<1>1. Silent = Chunk(E, E, E, F)
  BY DEF Silent, Chunk
<1> HIDE DEF E, F
<1>2. /\ WithText(Chunk(E, E, E, F), v) = Chunk(v, E, E, F)
      /\ WithReasoning(Chunk(E, E, E, F), v) = Chunk(E, v, E, F)
      /\ WithCalls(Chunk(E, E, E, F), v) = Chunk(E, E, v, F)
  BY ChunkWith
<1>3. QED
  BY <1>1, <1>2, Zenon DEF E, F

\* The fragments of a chunk and the record of calls it leaves: no call's, those
\* of one that begins, of two, or of one that goes on.
Sending(s, calls, t) ==
    \/ calls = <<>> /\ t = s
    \/ \E b \in Beginnings(Len(s) + 1) : calls = <<First(b)>> /\ t = Append(s, b)
    \/ \E b \in Beginnings(Len(s) + 1) : \E d \in Beginnings(Len(s) + 2) :
          /\ b.size = 1 /\ d.size = 1 /\ b.at = 1 /\ d.at = 1
          /\ calls = <<First(b), First(d)>> /\ t = s \o <<b, d>>
    \/ \E i \in DOMAIN s :
          /\ s[i].at < s[i].size
          /\ calls = <<Following(s[i])>>
          /\ t = [s EXCEPT ![i] = Further(s[i])]

Wholes(index) == {b \in Beginnings(index) : b.size = 1 /\ b.at = 1}
Both(c, d) == [calls |-> <<First(c), First(d)>>, sent |-> sent \o <<c, d>>]

LEMMA BothOpen ==
    ASSUME NEW p \in OpeningTwo
    PROVE  \E c \in Wholes(Len(sent) + 1) : \E d \in Wholes(Len(sent) + 2) : p = Both(c, d)
<1> DEFINE None == Len(sent) + 2 > MaxCalls \/ request.lane = "native"
           Two == IF None THEN {}
                  ELSE {Both(c, d) : c \in Wholes(Len(sent) + 1), d \in Wholes(Len(sent) + 2)}
<1>1. Two = OpeningTwo
  BY DEF Both, Wholes, OpeningTwo
<1>2. p \in Two
  BY <1>1
<1>3. QED
  BY <1>2

LEMMA BodyIs ==
    ASSUME Numbered(sent), count \in Nat, NEW o \in Bodies
    PROVE  \E text \in Seq(Parts) : \E reasoning \in Seq(Parts) : \E calls, s :
              /\ o = [chunk |-> Chunk(text, reasoning, calls, ""), sent |-> s]
              /\ Sending(sent, calls, s)
<1>1. sent \in Seq(Calls)
  BY DEF Numbered
<1>2. <<count + 1>> \in Seq(Parts) /\ <<>> \in Seq(Parts)
  <2>1. count + 1 \in Parts
    BY DEF Parts
  <2>2. QED
    BY <2>1
<1>3. CASE o \in {[chunk |-> c, sent |-> sent] : c \in Texts \cup {Silent}}
  <2>1. PICK c \in Texts \cup {Silent} : o = [chunk |-> c, sent |-> sent]
    BY <1>3
  <2>2. \/ c = Silent \/ c = WithText(Silent, <<count + 1>>)
        \/ c = WithReasoning(Silent, <<count + 1>>)
    BY DEF Texts, WithText, WithReasoning
  <2>3. \E text \in Seq(Parts) : \E reasoning \in Seq(Parts) :
           c = Chunk(text, reasoning, <<>>, "")
    BY <1>2, <2>2, SilentWith, Zenon
  <2>4. Sending(sent, <<>>, sent)
    BY DEF Sending
  <2>5. QED
    BY <2>1, <2>3, <2>4, Zenon
<1>4. CASE o \in {[chunk |-> [Silent EXCEPT !.calls = p.calls], sent |-> p.sent] :
                     p \in Opening \cup OpeningTwo \cup Continuing}
  <2>1. PICK p \in Opening \cup OpeningTwo \cup Continuing :
           o = [chunk |-> WithCalls(Silent, p.calls), sent |-> p.sent]
    BY <1>4, Zenon DEF WithCalls
  <2>2. o = [chunk |-> Chunk(<<>>, <<>>, p.calls, ""), sent |-> p.sent]
    BY <2>1, SilentWith, Zenon
  <2>3. CASE p \in Opening
    <3>1. PICK b \in Beginnings(Len(sent) + 1) :
             p = [calls |-> <<First(b)>>, sent |-> Append(sent, b)]
      BY <2>3 DEF Opening
    <3>2. p.calls = <<First(b)>> /\ p.sent = Append(sent, b)
      BY <3>1
    <3>3. Sending(sent, p.calls, p.sent)
      BY <3>2, Zenon DEF Sending
    <3>4. QED
      BY <1>2, <2>2, <3>3, Zenon
  <2>4. CASE p \in OpeningTwo
    <3>1. PICK c \in Wholes(Len(sent) + 1) : \E d \in Wholes(Len(sent) + 2) : p = Both(c, d)
      BY <2>4, BothOpen
    <3>2. PICK d \in Wholes(Len(sent) + 2) : p = Both(c, d)
      BY <3>1
    <3>4. p = [calls |-> <<First(c), First(d)>>, sent |-> sent \o <<c, d>>]
      BY <3>2 DEF Both
    <3>5. p.calls = <<First(c), First(d)>> /\ p.sent = sent \o <<c, d>>
      BY <3>4
    <3>6. /\ c \in Beginnings(Len(sent) + 1) /\ c.size = 1 /\ c.at = 1
          /\ d \in Beginnings(Len(sent) + 2) /\ d.size = 1 /\ d.at = 1
      BY DEF Wholes
    <3>7. Sending(sent, p.calls, p.sent)
      BY <3>5, <3>6, Zenon DEF Sending
    <3>8. QED
      BY <1>2, <2>2, <3>7, Zenon
  <2>5. CASE p \in Continuing
    <3>1. PICK i \in DOMAIN sent :
             /\ sent[i].at < sent[i].size
             /\ p = [calls |-> <<Following(sent[i])>>,
                     sent |-> [sent EXCEPT ![i].at = @ + 1, ![i].named = TRUE]]
      BY <2>5 DEF Continuing
    <3>2. [sent EXCEPT ![i].at = @ + 1, ![i].named = TRUE]
          = [sent EXCEPT ![i] = Further(sent[i])]
      BY <1>1 DEF Further
    <3>3. /\ p.calls = <<Following(sent[i])>>
          /\ p.sent = [sent EXCEPT ![i] = Further(sent[i])]
      BY <3>1, <3>2
    <3>4. Sending(sent, p.calls, p.sent)
      BY <3>1, <3>3, Zenon DEF Sending
    <3>5. QED
      BY <1>2, <2>2, <3>4, Zenon
  <2>6. QED
    BY <2>3, <2>4, <2>5
<1>5. QED
  BY <1>3, <1>4 DEF Bodies

Ends == IF request.lane = "native" THEN {"", "tool_use", "max_tokens", "end_turn"}
        ELSE {"", "stop", "length", "tool_calls"}

LEMMA OfferIs ==
    ASSUME Numbered(sent), count \in Nat, NEW o \in Offers
    PROVE  \E text \in Seq(Parts) : \E reasoning \in Seq(Parts) : \E calls : \E f \in Ends :
              /\ o.chunk = Chunk(text, reasoning, calls, f)
              /\ Sending(sent, calls, o.sent)
<1>1. PICK body \in Bodies : o \in {[body EXCEPT !.chunk.finish = f] : f \in Finishes(body)}
  BY DEF Offers
<1>2. PICK f \in Finishes(body) : o = [body EXCEPT !.chunk.finish = f]
  BY <1>1
<1>3. f \in Ends
  <2>1. \A calls : Reasons(calls) \subseteq {"stop", "length", "tool_calls"}
    BY DEF Reasons
  <2>2. \A r \in {"stop", "length", "tool_calls"} :
           anthropicReason(r) \in {"tool_use", "max_tokens", "end_turn"}
    BY DEF anthropicReason
  <2>3. QED
    BY <2>1, <2>2 DEF Finishes, Ends
<1>4. PICK text \in Seq(Parts) : \E reasoning \in Seq(Parts) : \E calls, s :
              /\ body = [chunk |-> Chunk(text, reasoning, calls, ""), sent |-> s]
              /\ Sending(sent, calls, s)
  BY BodyIs
<1>5. PICK reasoning \in Seq(Parts) : \E calls, s :
              /\ body = [chunk |-> Chunk(text, reasoning, calls, ""), sent |-> s]
              /\ Sending(sent, calls, s)
  BY <1>4
<1>6. PICK calls, s :
              /\ body = [chunk |-> Chunk(text, reasoning, calls, ""), sent |-> s]
              /\ Sending(sent, calls, s)
  BY <1>5
<1>7. /\ o = [body EXCEPT !.chunk = [body.chunk EXCEPT !.finish = f]]
  BY <1>2
<1>8. o.chunk = WithFinish(body.chunk, f) /\ o.sent = s
  BY <1>6, <1>7 DEF WithFinish
<1>9. body.chunk = Chunk(text, reasoning, calls, "")
  BY <1>6, Zenon
<1> DEFINE F == ""
<1>10. body.chunk = Chunk(text, reasoning, calls, F)
  BY <1>9
<1> HIDE DEF F
<1>11. o.chunk = Chunk(text, reasoning, calls, f)
  BY <1>8, <1>10, ChunkWith
<1>12. QED
  BY <1>3, <1>6, <1>8, <1>11, Zenon

LEMMA Two ==
    ASSUME NEW s \in Seq(Calls), NEW b \in Calls, NEW d \in Calls
    PROVE  s \o <<b, d>> = Append(Append(s, b), d)
  OBVIOUS

LEMMA SendingNumbered ==
    ASSUME NEW s, Numbered(s), NEW calls, NEW t, Sending(s, calls, t)
    PROVE  Numbered(t)
<1>1. s \in Seq(Calls) /\ Len(s) + 1 \in Nat /\ Len(s) + 2 \in Nat
  BY DEF Numbered
<1>2. CASE calls = <<>> /\ t = s
  BY <1>2
<1>3. CASE \E b \in Beginnings(Len(s) + 1) : calls = <<First(b)>> /\ t = Append(s, b)
  BY <1>3, CallBegun
<1>4. ASSUME NEW b \in Beginnings(Len(s) + 1), NEW d \in Beginnings(Len(s) + 2),
             t = s \o <<b, d>>
      PROVE  Numbered(t)
  <2>1. b \in Calls /\ d \in Calls
    BY <1>1, BeginningsAre
  <2>2. Numbered(Append(s, b))
    BY CallBegun
  <2>3. Len(Append(s, b)) + 1 = Len(s) + 2
    BY <1>1, <2>1
  <2>4. Numbered(Append(Append(s, b), d))
    BY <2>2, <2>3, CallBegun
  <2>5. QED
    BY <1>1, <1>4, <2>1, <2>4, Two
<1>5. CASE \E i \in DOMAIN s : /\ s[i].at < s[i].size
                               /\ calls = <<Following(s[i])>>
                               /\ t = [s EXCEPT ![i] = Further(s[i])]
  BY <1>5, CallContinued
<1>6. QED
  BY <1>2, <1>3, <1>4, <1>5 DEF Sending

\* The fragments of a chunk bring the items up to the calls.
LEMMA ToolsFollowed ==
    ASSUME NEW s, Numbered(s), NEW c, Follows(c, s), NEW calls, NEW t,
           Sending(s, calls, t)
    PROVE  LET d == handleTools(c, calls)
           IN  /\ Follows(d, t) /\ Extends(d.wire.items, c.wire.items)
               /\ d.finish = c.finish
<1> DEFINE Good(d, u) == /\ Follows(d, u) /\ Extends(d.wire.items, c.wire.items)
                         /\ d.finish = c.finish
<1>1. s \in Seq(Calls) /\ Len(s) + 1 \in Nat /\ Len(s) + 2 \in Nat
  BY DEF Numbered
<1>2. \A d, u : Follows(d, u) => d.wire.items \in Seq(Items)
  BY ConverterIs DEF Follows
<1>3. ASSUME calls = <<>>, t = s
      PROVE  Good(handleTools(c, calls), t)
  BY <1>2, <1>3, ToolsHandled, ExtendsItself
<1>4. ASSUME NEW b \in Beginnings(Len(s) + 1), calls = <<First(b)>>, t = Append(s, b)
      PROVE  Good(handleTools(c, calls), t)
  <2>1. handleTools(c, calls) = handleTool(c, First(b))
    BY <1>4, ToolsHandled
  <2>2. Good(handleTool(c, First(b)), Append(s, b))
    BY ToolBegun
  <2> HIDE DEF Good
  <2>3. QED
    BY <1>4, <2>1, <2>2
<1>5. ASSUME NEW b \in Beginnings(Len(s) + 1), NEW d \in Beginnings(Len(s) + 2),
             calls = <<First(b), First(d)>>, t = s \o <<b, d>>
      PROVE  Good(handleTools(c, calls), t)
  <2> DEFINE one == handleTool(c, First(b))
             two == handleTool(one, First(d))
  <2>1. handleTools(c, calls) = two
    <3>1. Len(calls) = 2 /\ calls[1] = First(b) /\ calls[2] = First(d)
      BY <1>5
    <3>2. QED
      BY <3>1, ToolsHandledTwo
  <2>2. Follows(one, Append(s, b)) /\ Extends(one.wire.items, c.wire.items)
        /\ one.finish = c.finish
    BY ToolBegun
  <2>3. b \in Calls /\ d \in Calls
    BY <1>1, BeginningsAre
  <2>4. Numbered(Append(s, b)) /\ Len(Append(s, b)) + 1 = Len(s) + 2
    BY <1>1, <2>3, CallBegun
  <2> HIDE DEF one
  <2>5. d \in Beginnings(Len(Append(s, b)) + 1)
    BY <2>4
  <2>6. Follows(two, Append(Append(s, b), d)) /\ Extends(two.wire.items, one.wire.items)
        /\ two.finish = one.finish
    BY <2>2, <2>4, <2>5, ToolBegun
  <2> HIDE DEF two
  <2>7. Extends(two.wire.items, c.wire.items)
    BY <1>2, <2>2, <2>6, ExtendsOn
  <2>8. t = Append(Append(s, b), d)
    BY <1>1, <1>5, <2>3, Two
  <2>9. QED
    BY <2>1, <2>2, <2>6, <2>7, <2>8
<1>6. ASSUME NEW i \in DOMAIN s, s[i].at < s[i].size, calls = <<Following(s[i])>>,
             t = [s EXCEPT ![i] = Further(s[i])]
      PROVE  Good(handleTools(c, calls), t)
  <2>1. handleTools(c, calls) = handleTool(c, Following(s[i]))
    BY <1>6, ToolsHandled
  <2>2. Good(handleTool(c, Following(s[i])), [s EXCEPT ![i] = Further(s[i])])
    BY <1>6, ToolContinued
  <2> HIDE DEF Good
  <2>3. QED
    BY <1>6, <2>1, <2>2
<1> HIDE DEF Good
<1>7. Good(handleTools(c, calls), t)
  BY <1>3, <1>4, <1>5, <1>6, Zenon DEF Sending
<1>8. QED
  BY <1>7 DEF Good

LEMMA FinishSaid ==
    ASSUME NEW s, NEW c, Follows(c, s), NEW f \in Stops
    PROVE  LET d == [c EXCEPT !.finish = Or(f, "", @)]
           IN  /\ Follows(d, s) /\ d.wire = c.wire /\ d.items = c.items
               /\ d.finish = IF f = "" THEN c.finish ELSE f
<1> DEFINE d == [c EXCEPT !.finish = Or(f, "", @)]
           g == IF f = "" THEN c.finish ELSE f
<1>1. c \in Converters
  BY DEF Follows
<1>2. d = [c EXCEPT !.finish = g] /\ g \in Stops
  BY <1>1 DEF Or, Converters
<1> HIDE DEF g
<1>3. /\ d \in Converters /\ d.items = c.items /\ d.wire = c.wire /\ d.tools = c.tools
      /\ d.text = c.text /\ d.reasoning = c.reasoning /\ d.finish = g
  BY <1>1, <1>2 DEF Converters
<1> HIDE DEF d
<1>4. Follows(d, s)
  BY <1>3 DEF Follows
<1>5. QED
  BY <1>3, <1>4 DEF d, g

\* Converter d is c after a chunk that leaves calls t and ends with f.
Brought(d, c, t, f) ==
    /\ Follows(d, t) /\ Extends(d.wire.items, c.wire.items)
    /\ d.finish = IF f = "" THEN c.finish ELSE f

\* A chunk leaves a converter that has followed it.
LEMMA ChunkFollows ==
    ASSUME NEW s, Numbered(s), NEW c, Follows(c, s),
           NEW text \in Seq(Parts), NEW reasoning \in Seq(Parts), NEW calls,
           NEW f \in Stops, NEW t, Sending(s, calls, t)
    PROVE  Brought(HandleChunk(c, Chunk(text, reasoning, calls, f)), c, t, f)
<1> DEFINE r == IF reasoning = <<>> THEN c ELSE handleReasoning(c, reasoning)
           x == IF text = <<>> THEN r ELSE handleText(r, text)
           y == handleTools(x, calls)
           d == HandleChunk(c, Chunk(text, reasoning, calls, f))
<1>0. s \in Seq(Calls)
  BY DEF Numbered
<1>1. d = [y EXCEPT !.finish = Or(f, "", @)]
  BY DEF HandleChunk, Chunk
<1>2. \A e, u : Follows(e, u) => e.wire.items \in Seq(Items)
  BY ConverterIs DEF Follows
<1>3. Follows(r, s) /\ Extends(r.wire.items, c.wire.items) /\ r.finish = c.finish
  BY <1>0, <1>2, ReasoningFollows, ExtendsItself
<1> HIDE DEF r
<1>4. Follows(x, s) /\ Extends(x.wire.items, r.wire.items) /\ x.finish = r.finish
  BY <1>0, <1>2, <1>3, TextFollows, ExtendsItself
<1> HIDE DEF x
<1>5. Follows(y, t) /\ Extends(y.wire.items, x.wire.items) /\ y.finish = x.finish
  BY <1>4, ToolsFollowed
<1> HIDE DEF y, d
<1>6. Extends(y.wire.items, c.wire.items)
  <2>1. Extends(x.wire.items, c.wire.items)
    BY <1>2, <1>3, <1>4, ExtendsOn
  <2>2. QED
    BY <1>2, <1>3, <1>4, <1>5, <2>1, ExtendsOn
<1>7. /\ Follows(d, t) /\ d.wire = y.wire /\ d.finish = IF f = "" THEN y.finish ELSE f
  BY <1>1, <1>5, FinishSaid
<1>8. Brought(d, c, t, f)
  BY <1>3, <1>4, <1>5, <1>6, <1>7 DEF Brought
<1>9. QED
  BY <1>8 DEF d

----------------------------------------------------------------------------
(* How a converter ends.                                                   *)

\* Sequence p has each member of S once.
Enumerates(p, S) ==
    /\ p \in Seq(S)
    /\ \A k, l \in DOMAIN p : p[k] = p[l] => k = l
    /\ \A x \in S : \E k \in DOMAIN p : p[k] = x

LEMMA EnumeratesBoth ==
    ASSUME NEW p, NEW q, NEW S, NEW T, Enumerates(p, S), Enumerates(q, T), S \cap T = {}
    PROVE  Enumerates(p \o q, S \cup T)
<1> DEFINE r == p \o q
<1>1. /\ p \in Seq(S) /\ q \in Seq(T) /\ Len(p) \in Nat /\ Len(q) \in Nat
      /\ DOMAIN p = 1 .. Len(p) /\ DOMAIN q = 1 .. Len(q)
      /\ \A k \in DOMAIN p : p[k] \in S
      /\ \A k \in DOMAIN q : q[k] \in T
      /\ \A k, l \in DOMAIN p : p[k] = p[l] => k = l
      /\ \A k, l \in DOMAIN q : q[k] = q[l] => k = l
      /\ \A x \in S : \E k \in DOMAIN p : p[k] = x
      /\ \A x \in T : \E k \in DOMAIN q : q[k] = x
  <2>1. p \in Seq(S) /\ q \in Seq(T)
    BY DEF Enumerates
  <2>2. /\ \A k, l \in DOMAIN p : p[k] = p[l] => k = l
        /\ \A k, l \in DOMAIN q : q[k] = q[l] => k = l
        /\ \A x \in S : \E k \in DOMAIN p : p[k] = x
        /\ \A x \in T : \E k \in DOMAIN q : q[k] = x
    BY DEF Enumerates
  <2>3. QED
    BY <2>1, <2>2
<1>2. p \in Seq(S \cup T) /\ q \in Seq(S \cup T)
  BY <1>1
<1>3. /\ r \in Seq(S \cup T) /\ Len(r) = Len(p) + Len(q)
      /\ DOMAIN r = 1 .. (Len(p) + Len(q))
      /\ \A k \in 1 .. Len(p) : r[k] = p[k]
      /\ \A k \in 1 .. Len(q) : r[Len(p) + k] = q[k]
  BY <1>1, <1>2
<1> HIDE DEF r
<1>4. \A k \in DOMAIN r : \/ k \in DOMAIN p /\ r[k] = p[k] /\ r[k] \in S
                          \/ /\ ~(k \in DOMAIN p) /\ k - Len(p) \in DOMAIN q
                             /\ r[k] = q[k - Len(p)] /\ r[k] \in T
  <2>1. \A k \in DOMAIN r : ~(k \in DOMAIN p) => k - Len(p) \in 1 .. Len(q) /\ Len(p) + (k - Len(p)) = k
    BY <1>1, <1>3
  <2>2. QED
    BY <1>1, <1>3, <2>1
<1>5. ASSUME NEW k \in DOMAIN r, NEW l \in DOMAIN r, r[k] = r[l]
      PROVE  k = l
  <2>1. CASE k \in DOMAIN p /\ l \in DOMAIN p
    BY <1>1, <1>4, <1>5, <2>1
  <2>2. CASE ~(k \in DOMAIN p) /\ ~(l \in DOMAIN p)
    <3>1. k - Len(p) = l - Len(p)
      BY <1>1, <1>4, <1>5, <2>2
    <3>2. k \in Nat /\ l \in Nat
      BY <1>3, <1>1
    <3>3. QED
      BY <1>1, <3>1, <3>2
  <2>3. QED
    BY <1>4, <1>5, <2>1, <2>2
<1>6. ASSUME NEW x \in S \cup T
      PROVE  \E k \in DOMAIN r : r[k] = x
  <2>1. CASE x \in S
    <3>1. PICK k \in DOMAIN p : p[k] = x
      BY <1>1, <2>1
    <3>2. k \in DOMAIN r /\ r[k] = x
      BY <1>1, <1>3, <3>1
    <3>3. QED
      BY <3>2
  <2>2. CASE x \in T
    <3>1. PICK k \in DOMAIN q : q[k] = x
      BY <1>1, <2>2
    <3>2. Len(p) + k \in DOMAIN r /\ r[Len(p) + k] = x
      BY <1>1, <1>3, <3>1
    <3>3. QED
      BY <3>2
  <2>3. QED
    BY <2>1, <2>2
<1>7. Enumerates(r, S \cup T)
  BY <1>3, <1>5, <1>6 DEF Enumerates
<1>8. QED
  BY <1>7 DEF r

\* Sequence p has the elements of s at the given places, as at tells.
PicksAt(at, p, s, places) ==
    /\ \A k \in DOMAIN p : at[k] \in DOMAIN s \cap places /\ p[k] = s[at[k]]
    /\ \A k, l \in DOMAIN p : at[k] = at[l] => k = l
    /\ \A i \in DOMAIN s \cap places : \E k \in DOMAIN p : at[k] = i

LEMMA PickedAt ==
    ASSUME NEW T, NEW s \in Seq(T), NEW places
    PROVE  \E at : PicksAt(at, Picked(s, places), s, places)
BY PickedPlaces DEF PicksAt

Having(items, kind) == {i \in DOMAIN items : items[i].kind = kind}

LEMMA PlacesAre ==
    ASSUME NEW c, c.items \in Seq(Items), NEW kind
    PROVE  Enumerates(Places(c, kind), Having(c.items, kind))
<1> DEFINE own == [i \in DOMAIN c.items |-> i]
           K == Having(c.items, kind)
           p == Picked(own, K)
<1>1. own \in Seq(Nat) /\ DOMAIN own = DOMAIN c.items /\ \A i \in DOMAIN c.items : own[i] = i
  <2>1. Len(c.items) \in Nat /\ DOMAIN c.items = 1 .. Len(c.items)
    BY ItemsAre
  <2>2. QED
    BY <2>1
<1>2. Places(c, kind) = p
  BY DEF Places, Having
<1> HIDE DEF own
<1> HIDE DEF K
<1>3. p \in Seq(Nat)
  BY <1>1, PickedPlaces
<1>4. PICK at : PicksAt(at, p, own, K)
  BY <1>1, PickedAt
<1>5. \A k \in DOMAIN p : at[k] \in K /\ p[k] = at[k]
  BY <1>1, <1>4 DEF PicksAt
<1>6. K \subseteq DOMAIN own
  BY <1>1 DEF Having, K
<1> HIDE DEF p
<1>7. p \in Seq(K)
  <2>1. Len(p) \in Nat /\ DOMAIN p = 1 .. Len(p) /\ p = [k \in 1 .. Len(p) |-> p[k]]
    BY <1>3
  <2>2. \A k \in 1 .. Len(p) : p[k] \in K
    BY <1>5, <2>1
  <2>3. [k \in 1 .. Len(p) |-> p[k]] \in Seq(K)
    BY <2>1, <2>2
  <2>4. QED
    BY <2>1, <2>3
<1>8. Enumerates(p, K)
  <2>1. \A k, l \in DOMAIN p : p[k] = p[l] => k = l
    BY <1>4, <1>5 DEF PicksAt
  <2>2. \A x \in K : \E k \in DOMAIN p : p[k] = x
    BY <1>4, <1>5, <1>6 DEF PicksAt
  <2>3. QED
    BY <1>7, <2>1, <2>2 DEF Enumerates
<1>9. QED
  BY <1>2, <1>8 DEF K

LEMMA OrderIs ==
    ASSUME NEW c, c.items \in Seq(Items)
    PROVE  Enumerates(Places(c, "reasoning") \o Places(c, "message")
                         \o Places(c, "function_call"), DOMAIN c.items)
<1> DEFINE r == Places(c, "reasoning")
           m == Places(c, "message")
           f == Places(c, "function_call")
           R == Having(c.items, "reasoning")
           M == Having(c.items, "message")
           F == Having(c.items, "function_call")
<1>1. Enumerates(r, R) /\ Enumerates(m, M) /\ Enumerates(f, F)
  BY PlacesAre
<1>2. R \cap M = {} /\ (R \cup M) \cap F = {}
  BY DEF Having
<1>3. (R \cup M) \cup F = DOMAIN c.items
  <2>1. \A i \in DOMAIN c.items : c.items[i].kind \in {"message", "reasoning", "function_call"}
    <3>1. \A i \in DOMAIN c.items : c.items[i] \in Items
      BY ItemsAre
    <3>2. QED
      BY <3>1 DEF Items
  <2>2. QED
    BY <2>1 DEF Having
<1> HIDE DEF r, m, f, R, M, F
<1>4. Enumerates(r \o m, R \cup M)
  BY <1>1, <1>2, EnumeratesBoth
<1>5. Enumerates((r \o m) \o f, DOMAIN c.items)
  BY <1>1, <1>2, <1>3, <1>4, EnumeratesBoth
<1>6. QED
  BY <1>5 DEF r, m, f

Answer(st, items, done, valid) ==
    [status |-> st, items |-> items, done |-> done, valid |-> valid]
Itemized(r, items) == [r EXCEPT !.items = items]
Doing(r, done) == [r EXCEPT !.done = done]
Ending(r, st) == [r EXCEPT !.status = st]

LEMMA ResponseWith ==
    ASSUME NEW st, NEW items, NEW done, NEW v, NEW x
    PROVE  /\ Itemized(Answer(st, items, done, v), x) = Answer(st, x, done, v)
           /\ Doing(Answer(st, items, done, v), x) = Answer(st, items, x, v)
           /\ Ending(Answer(st, items, done, v), x) = Answer(x, items, done, v)
<1>1. Itemized(Answer(st, items, done, v), x) = Answer(st, x, done, v)
  BY Z3 DEF Itemized, Answer
<1>2. Doing(Answer(st, items, done, v), x) = Answer(st, items, x, v)
  BY Z3 DEF Doing, Answer
<1>3. Ending(Answer(st, items, done, v), x) = Answer(x, items, done, v)
  BY Z3 DEF Ending, Answer
<1>4. QED
  BY <1>1, <1>2, <1>3

\* The response when the items D have been done.
Mid(w, items, D) ==
    [status |-> "in_progress", items |-> [i \in DOMAIN items |-> IF i \in D THEN items[i] ELSE w[i]],
     done |-> D, valid |-> TRUE]

LEMMA DoneReceived ==
    ASSUME NEW w \in Seq(Items), NEW items \in Seq(Items), Alike(w, items),
           NEW D, D \subseteq DOMAIN items, NEW at \in DOMAIN items \ D
    PROVE  Receive(Mid(w, items, D), Done(at, items[at])) = Mid(w, items, D \cup {at})
<1> DEFINE item == items[at]
           now == [i \in DOMAIN items |-> IF i \in D THEN items[i] ELSE w[i]]
           next == [i \in DOMAIN items |-> IF i \in D \cup {at} THEN items[i] ELSE w[i]]
           m == Mid(w, items, D)
           e == Done(at, item)
<1>1. /\ m.status = "in_progress" /\ m.items = now /\ m.done = D /\ m.valid = TRUE
      /\ m = [status |-> "in_progress", items |-> now, done |-> D, valid |-> TRUE]
  BY DEF Mid
<1>2. e.ev = "done" /\ e.at = at /\ e.item = item
  BY DEF Done
<1>3. DOMAIN now = DOMAIN items /\ now[at] = w[at]
  OBVIOUS
<1>4. w[at].kind = item.kind /\ w[at].data = item.data
  BY DEF Alike
<1>5. next = [now EXCEPT ![at] = item]
  OBVIOUS
<1> HIDE DEF now, next, m, e, item
<1>6. Acceptable(m, e)
  BY <1>1, <1>2, <1>3, <1>4 DEF Acceptable, Growing
<1>7. Accepted(m, e) = [m EXCEPT !.items[at] = item, !.done = @ \cup {at}]
  BY <1>2 DEF Accepted
<1>8. [m EXCEPT !.items[at] = item, !.done = @ \cup {at}]
      = Doing(Itemized(m, next), D \cup {at})
  BY <1>1, <1>5 DEF Doing, Itemized
<1> DEFINE st == "in_progress"
           yes == TRUE
<1>9. /\ m = Answer(st, now, D, yes)
      /\ Mid(w, items, D \cup {at}) = Answer(st, next, D \cup {at}, yes)
  BY <1>1 DEF Answer, Mid, next
<1> HIDE DEF st, yes
<1>10. Doing(Itemized(m, next), D \cup {at}) = Mid(w, items, D \cup {at})
  BY <1>9, ResponseWith
<1>11. Receive(m, e) = Mid(w, items, D \cup {at})
  BY <1>6, <1>7, <1>8, <1>10, ReceiveIs
<1>12. QED
  BY <1>11 DEF m, e, item

\* All items done, in any order, then the terminal event.
LEMMA EndReceived ==
    ASSUME NEW w \in Seq(Items), NEW items \in Seq(Items), Alike(w, items),
           NEW order, Enumerates(order, DOMAIN items), NEW st
    PROVE  Received(Open(w), Append([k \in DOMAIN order |-> Done(order[k], items[order[k]])],
                                    Terminal(st, items)))
           = Whole(st, items)
<1> DEFINE n == Len(order)
           done == [k \in DOMAIN order |-> Done(order[k], items[order[k]])]
           es == Append(done, Terminal(st, items))
           D(k) == {order[j] : j \in 1 .. k}
<1>1. /\ order \in Seq(DOMAIN items) /\ n \in Nat /\ DOMAIN order = 1 .. n
      /\ \A k, l \in 1 .. n : order[k] = order[l] => k = l
      /\ \A x \in DOMAIN items : \E k \in 1 .. n : order[k] = x
      /\ \A k \in 1 .. n : order[k] \in DOMAIN items
  <2>1. order \in Seq(DOMAIN items)
    BY DEF Enumerates
  <2>2. n \in Nat /\ DOMAIN order = 1 .. n /\ \A k \in 1 .. n : order[k] \in DOMAIN items
    BY <2>1
  <2>3. QED
    BY <2>1, <2>2 DEF Enumerates
<1>2. /\ Len(es) = n + 1 /\ es[n + 1] = Terminal(st, items)
      /\ \A k \in 1 .. n : es[k] = Done(order[k], items[order[k]])
  <2> DEFINE ev(k) == Done(order[k], items[order[k]])
             E == {ev(k) : k \in 1 .. n} \cup {Terminal(st, items)}
  <2> HIDE DEF ev
  <2>1. [k \in 1 .. n |-> ev(k)] \in Seq(E) /\ Terminal(st, items) \in E
    BY <1>1
  <2>2. done = [k \in 1 .. n |-> ev(k)]
    BY <1>1 DEF ev
  <2> HIDE DEF done, E
  <2>3. Len(done) = n /\ done \in Seq(E) /\ \A k \in 1 .. n : done[k] = ev(k)
    BY <1>1, <2>1, <2>2
  <2>4. /\ Len(es) = n + 1 /\ es[n + 1] = Terminal(st, items)
        /\ \A k \in 1 .. n : es[k] = done[k]
    BY <1>1, <2>1, <2>3
  <2>5. QED
    BY <2>3, <2>4 DEF ev
<1> HIDE DEF es
<1>3. PICK so : Receives(so, Open(w), es)
  <2>1. Len(es) \in Nat
    BY <1>1, <1>2
  <2>2. QED
    BY <2>1, ReceivedIs
<1>4. /\ so[0] = Open(w)
      /\ \A i \in 1 .. n + 1 : so[i] = Receive(so[i - 1], es[i])
      /\ Received(Open(w), es) = so[n + 1]
  BY <1>2, <1>3 DEF Receives
<1> DEFINE Good == {k \in Nat : k <= n => so[k] = Mid(w, items, D(k))}
<1>5. 0 \in Good
  <2>1. D(0) = {}
    OBVIOUS
  <2>2. w = [i \in DOMAIN items |-> w[i]]
    BY DEF Alike
  <2>3. Open(w) = Mid(w, items, {})
    BY <2>2 DEF Open, Mid
  <2> HIDE DEF D
  <2>4. QED
    BY <1>4, <2>1, <2>3
<1>6. ASSUME NEW k \in Nat, k \in Good
      PROVE  k + 1 \in Good
  <2>1. SUFFICES ASSUME k + 1 <= n PROVE so[k + 1] = Mid(w, items, D(k + 1))
    OBVIOUS
  <2>2. /\ k + 1 \in 1 .. n /\ k + 1 \in 1 .. n + 1 /\ (k + 1) - 1 = k /\ k <= n
    BY <1>1, <2>1
  <2>3. so[k] = Mid(w, items, D(k))
    BY <1>6, <2>2
  <2>4. so[k + 1] = Receive(so[k], Done(order[k + 1], items[order[k + 1]]))
    BY <1>2, <1>4, <2>2
  <2>5. D(k) \subseteq DOMAIN items /\ order[k + 1] \in DOMAIN items \ D(k)
    <3>1. \A j \in 1 .. k : j \in 1 .. n /\ j # k + 1
      BY <1>1, <2>2
    <3>2. QED
      BY <1>1, <2>2, <3>1
  <2>6. D(k + 1) = D(k) \cup {order[k + 1]}
    <3>1. \A j : j \in 1 .. k + 1 <=> j \in 1 .. k \/ j = k + 1
      OBVIOUS
    <3>2. QED
      BY <3>1
  <2> HIDE DEF D
  <2>7. QED
    BY <2>3, <2>4, <2>5, <2>6, DoneReceived
<1>7. so[n] = Mid(w, items, D(n))
  <2>1. \A k \in Nat : k \in Good => k + 1 \in Good
    BY <1>6
  <2> HIDE DEF Good
  <2>2. Nat \subseteq Good
    BY <1>5, <2>1, EveryNat
  <2>3. n \in Good
    BY <1>1, <2>2
  <2>4. QED
    BY <1>1, <2>3 DEF Good
<1>8. D(n) = DOMAIN items
  <2>1. \A x : x \in D(n) => x \in DOMAIN items
    BY <1>1
  <2>2. ASSUME NEW x \in DOMAIN items PROVE x \in D(n)
    <3>1. PICK k \in 1 .. n : order[k] = x
      BY <1>1
    <3>2. QED
      BY <3>1
  <2>3. QED
    BY <2>1, <2>2
<1>9. Mid(w, items, DOMAIN items) = [status |-> "in_progress", items |-> items,
                                     done |-> DOMAIN items, valid |-> TRUE]
  <2>1. items = [i \in DOMAIN items |-> items[i]]
    OBVIOUS
  <2>2. QED
    BY <2>1 DEF Mid
<1> HIDE DEF D
<1> DEFINE m == Mid(w, items, DOMAIN items)
           e == Terminal(st, items)
<1>10. Receive(m, e) = Whole(st, items)
  <2>1. Acceptable(m, e)
    BY <1>9 DEF Acceptable, Terminal
  <2>2. Accepted(m, e) = Ending(m, st)
    BY DEF Accepted, Terminal, Ending
  <2> DEFINE now == "in_progress"
  <2> DEFINE yes == TRUE
  <2>3. /\ m = Answer(now, items, DOMAIN items, yes)
        /\ Whole(st, items) = Answer(st, items, DOMAIN items, yes)
    BY <1>9 DEF Whole, Answer
  <2> HIDE DEF now, yes
  <2>5. Ending(m, st) = Whole(st, items)
    BY <2>3, ResponseWith
  <2>4. QED
    BY <2>1, <2>2, <2>5, ReceiveIs
<1>11. so[n + 1] = Receive(so[n], e)
  <2>1. n + 1 \in 1 .. n + 1 /\ (n + 1) - 1 = n
    BY <1>1
  <2>2. QED
    BY <1>2, <1>4, <2>1
<1>12. QED
  BY <1>4, <1>7, <1>8, <1>10, <1>11 DEF es

\* What a converter leaves of a stream that is over.
LEMMA FinalizeIs ==
    ASSUME NEW s, Numbered(s), NEW c, Follows(c, s)
    PROVE  \E d : /\ Follows(d, s) /\ d.finish = c.finish
                  /\ Finalize(c).wire = Whole(status(c.finish), d.items)
                  /\ IF c.items = <<>> THEN Len(d.items) = 1 ELSE d = c
<1> DEFINE d == IF c.items = <<>> THEN handleText(c, <<>>) ELSE c
           order == Places(d, "reasoning") \o Places(d, "message") \o Places(d, "function_call")
           done == [i \in DOMAIN order |-> Done(order[i], d.items[order[i]])]
           es == Append(done, Terminal(status(d.finish), Output(d)))
<1>1. s \in Seq(Calls) /\ c \in Converters /\ c.finalized = FALSE
  BY ConverterIs DEF Follows, Numbered
<1>2. Finalize(c) = [Told(d, es) EXCEPT !.finalized = TRUE]
  BY <1>1 DEF Finalize
<1>3. /\ Follows(d, s) /\ d.finish = c.finish
      /\ IF c.items = <<>> THEN Len(d.items) = 1 ELSE d = c
  <2>1. CASE c.items = <<>>
    <3>1. c.text = 0
      <4>1. DOMAIN c.items = {}
        BY <2>1
      <4>2. QED
        BY <4>1 DEF Follows, Narrated
    <3>2. <<>> \in Seq(Parts) /\ Len(c.items) = 0
      BY <2>1
    <3>3. d = handleText(c, <<>>)
      BY <2>1
    <3> HIDE DEF d
    <3>4. Follows(d, s) /\ d.finish = c.finish /\ Len(d.items) = Len(c.items) + 1
      BY <1>1, <3>1, <3>2, <3>3, TextFollows
    <3>5. QED
      BY <2>1, <3>2, <3>4
  <2>2. CASE c.items # <<>>
    <3>1. d = c
      BY <2>2
    <3> HIDE DEF d
    <3>2. QED
      BY <2>2, <3>1
  <2>3. QED
    BY <2>1, <2>2
<1> HIDE DEF d
<1>4. d \in Converters /\ Alike(d.wire.items, d.items)
  BY <1>3 DEF Follows
<1>5. d.items \in Seq(Items) /\ d.wire.items \in Seq(Items) /\ d.wire = Open(d.wire.items)
  BY <1>4, ConverterIs
<1>6. Enumerates(order, DOMAIN d.items)
  BY <1>5, OrderIs
<1> HIDE DEF order
<1>7. Received(Open(d.wire.items), es) = Whole(status(d.finish), d.items)
  BY <1>4, <1>5, <1>6, EndReceived DEF Output
<1> HIDE DEF es
<1>8. Finalize(c).wire = Received(d.wire, es)
  BY <1>2, <1>4 DEF Told, Converters
<1>9. QED
  BY <1>3, <1>5, <1>7, <1>8

LEMMA EmitErrorIs ==
    ASSUME NEW c \in Converters
    PROVE  EmitError(c).wire = [c.wire EXCEPT !.status = "failed"]
<1> DEFINE e == Terminal("failed", <<>>)
           w == c.wire
<1>1. /\ c.finalized = FALSE /\ w = Open(w.items)
  BY ConverterIs
<1>2. EmitError(c).wire = Received(w, <<e>>)
  BY <1>1 DEF EmitError, Told, Converters
<1>3. Acceptable(w, e)
  BY <1>1 DEF Acceptable, Terminal, Open
<1>4. Accepted(w, e) = [w EXCEPT !.status = "failed"]
  BY DEF Accepted, Terminal
<1>5. QED
  BY <1>2, <1>3, <1>4, ReceivedOne, ReceiveIs

----------------------------------------------------------------------------
(* The turn.                                                               *)

Common ==
    /\ request \in Requests /\ phase \in {"open", "answered", "failed"} /\ count \in Nat
    /\ phase = "open" => Numbered(sent) /\ reason \in Ends

\* A streamed response mirrors what was sent.
Mirrored ==
    Responses /\ Streamed /\ phase = "open" =>
        /\ Follows(conv, sent) /\ conv.finish = openAIFinishReasonFromAnthropic(reason)
        /\ response = conv.wire

Unanswered == Responses /\ ~Streamed /\ phase = "open" => response = NoResponse

LEMMA FinishesAre ==
    ASSUME NEW f \in Ends
    PROVE  /\ openAIFinishReasonFromAnthropic(f) \in Stops
           /\ openAIFinishReasonFromAnthropic(f) = "" <=> f = ""
           /\ openAIFinishReasonFromAnthropic(f) = "length" <=> f \in {"length", "max_tokens"}
           /\ openAIFinishReasonFromAnthropic("") = ""
  BY DEF Ends, Stops, openAIFinishReasonFromAnthropic

\* A chunk comes.
LEMMA Sent ==
    ASSUME Common, NEW o \in Offers, Sends(o), request' = request, phase' = phase
    PROVE  /\ Common' /\ Numbered(sent) /\ sent' = o.sent
           /\ \E text \in Seq(Parts) : \E reasoning \in Seq(Parts) : \E calls : \E f \in Ends :
                 /\ o.chunk = Chunk(text, reasoning, calls, f)
                 /\ Sending(sent, calls, sent')
                 /\ reason = "" /\ reason' = f
<1>1. Numbered(sent) /\ count \in Nat /\ phase = "open" /\ reason = ""
  BY DEF Common, Sends
<1>2. sent' = o.sent /\ reason' = o.chunk.finish /\ count' = count + 1
  BY DEF Sends
<1>3. PICK text \in Seq(Parts) : \E reasoning \in Seq(Parts) : \E calls : \E f \in Ends :
              /\ o.chunk = Chunk(text, reasoning, calls, f)
              /\ Sending(sent, calls, o.sent)
  BY <1>1, OfferIs
<1>4. PICK reasoning \in Seq(Parts) : \E calls : \E f \in Ends :
              /\ o.chunk = Chunk(text, reasoning, calls, f)
              /\ Sending(sent, calls, o.sent)
  BY <1>3
<1>5. PICK calls : \E f \in Ends :
              /\ o.chunk = Chunk(text, reasoning, calls, f)
              /\ Sending(sent, calls, o.sent)
  BY <1>4
<1>6. PICK f \in Ends :
              /\ o.chunk = Chunk(text, reasoning, calls, f)
              /\ Sending(sent, calls, o.sent)
  BY <1>5
<1>7. o.chunk.finish = f
  BY <1>6 DEF Chunk
<1>8. Numbered(sent')
  BY <1>1, <1>2, <1>6, SendingNumbered
<1>9. reason' \in Ends'
  BY <1>2, <1>7 DEF Ends
<1>10. Common'
  <2>1. request' \in Requests /\ phase' \in {"open", "answered", "failed"}
    BY DEF Common
  <2>2. count' \in Nat
    <3>1. count \in Nat
      BY <1>1
    <3>2. count' = count + 1
      BY <1>2
    <3>3. QED
      BY <3>1, <3>2
  <2>3. QED
    BY <1>8, <1>9, <2>1, <2>2, Zenon DEF Common
<1>11. /\ o.chunk = Chunk(text, reasoning, calls, f)
       /\ Sending(sent, calls, sent')
       /\ reason = "" /\ reason' = f
  BY <1>1, <1>2, <1>6, <1>7
<1>12. QED
  BY <1>1, <1>2, <1>10, <1>11, Zenon

\* A chunk becomes Responses events.
LEMMA RelayedResponses ==
    ASSUME Common, Mirrored, RelayResponses
    PROVE  /\ Common' /\ Mirrored' /\ Extends(response'.items, response.items)
           /\ \E w, v \in Seq(Items) : response = Open(w) /\ response' = Open(v)
<1>1. PICK o \in Offers : Sends(o) /\ conv' = HandleChunk(conv, Normalized(o.chunk))
  BY DEF RelayResponses
<1>2. /\ request' = request /\ phase' = phase /\ response' = conv'.wire
      /\ Responses /\ Streamed /\ phase = "open"
  BY <1>1 DEF RelayResponses, Sends
<1>3. /\ Common' /\ Numbered(sent)
      /\ \E text \in Seq(Parts) : \E reasoning \in Seq(Parts) : \E calls : \E f \in Ends :
                 /\ o.chunk = Chunk(text, reasoning, calls, f)
                 /\ Sending(sent, calls, sent')
                 /\ reason = "" /\ reason' = f
  BY <1>1, <1>2, Sent
<1>4. PICK text \in Seq(Parts) : \E reasoning \in Seq(Parts) : \E calls : \E f \in Ends :
                 /\ o.chunk = Chunk(text, reasoning, calls, f)
                 /\ Sending(sent, calls, sent')
                 /\ reason = "" /\ reason' = f
  BY <1>3
<1>5. PICK reasoning \in Seq(Parts) : \E calls : \E f \in Ends :
                 /\ o.chunk = Chunk(text, reasoning, calls, f)
                 /\ Sending(sent, calls, sent')
                 /\ reason = "" /\ reason' = f
  BY <1>4
<1>6. PICK calls : \E f \in Ends :
                 /\ o.chunk = Chunk(text, reasoning, calls, f)
                 /\ Sending(sent, calls, sent')
                 /\ reason = "" /\ reason' = f
  BY <1>5
<1>7. PICK f \in Ends :
                 /\ o.chunk = Chunk(text, reasoning, calls, f)
                 /\ Sending(sent, calls, sent')
                 /\ reason = "" /\ reason' = f
  BY <1>6
<1> DEFINE g == openAIFinishReasonFromAnthropic(f)
<1>8. /\ Follows(conv, sent) /\ conv.finish = openAIFinishReasonFromAnthropic(reason)
      /\ response = conv.wire
  BY <1>2 DEF Mirrored
<1>9. g \in Stops /\ conv.finish = ""
  BY <1>7, <1>8, FinishesAre
<1>10. Normalized(o.chunk) = Chunk(text, reasoning, calls, g)
  <2>1. o.chunk.finish = f
    <3>1. o.chunk = Chunk(text, reasoning, calls, f)
      BY <1>7
    <3>2. QED
      BY <3>1 DEF Chunk
  <2>2. Normalized(o.chunk) = WithFinish(o.chunk, g)
    BY <2>1 DEF Normalized, WithFinish
  <2>3. WithFinish(Chunk(text, reasoning, calls, f), g) = Chunk(text, reasoning, calls, g)
    <3> HIDE DEF g
    <3>1. QED
      BY ChunkWith
  <2>4. QED
    BY <1>7, <2>2, <2>3
<1>11. /\ Follows(conv', sent') /\ Extends(conv'.wire.items, conv.wire.items)
       /\ conv'.finish = IF g = "" THEN conv.finish ELSE g
  <2>1. conv' = HandleChunk(conv, Chunk(text, reasoning, calls, g))
    BY <1>1, <1>10
  <2> HIDE DEF g
  <2>2. Sending(sent, calls, sent')
    BY <1>7
  <2> DEFINE d == HandleChunk(conv, Chunk(text, reasoning, calls, g))
  <2>3. /\ Follows(d, sent') /\ Extends(d.wire.items, conv.wire.items)
        /\ d.finish = IF g = "" THEN conv.finish ELSE g
    <3>1. Numbered(sent) /\ Follows(conv, sent) /\ g \in Stops
      BY <1>3, <1>8, <1>9
    <3>2. Brought(d, conv, sent', g)
      BY <2>2, <3>1, ChunkFollows
    <3>3. QED
      BY <3>2 DEF Brought
  <2> HIDE DEF d
  <2>4. conv' = d
    BY <2>1 DEF d
  <2>5. QED
    BY <2>3, <2>4
<1>12. conv'.finish = openAIFinishReasonFromAnthropic(reason')
  BY <1>7, <1>9, <1>11
<1>13. Mirrored'
  BY <1>2, <1>11, <1>12 DEF Mirrored
<1>14. \E w, v \in Seq(Items) : response = Open(w) /\ response' = Open(v)
  BY <1>2, <1>8, <1>11, ConverterIs DEF Follows
<1>15. QED
  BY <1>2, <1>3, <1>8, <1>11, <1>13, <1>14

----------------------------------------------------------------------------
(* The contract of a response, step by step.                               *)

LEMMA GoingIs ==
    ASSUME NEW w, response = Open(w)
    PROVE  ResponseContract!Going /\ response.items = w
  BY DEF Open, ResponseContract!Going

LEMMA Grown ==
    ASSUME NEW w, NEW v, response = Open(w), response' = Open(v),
           Extends(response'.items, response.items)
    PROVE  ResponseContract!Grow
<1>1. response' = [response EXCEPT !.items = v]
  <2> DEFINE st == "in_progress"
             yes == TRUE
             none == {}
  <2>1. /\ Open(w) = Answer(st, w, none, yes)
        /\ Open(v) = Answer(st, v, none, yes)
    BY DEF Open, Answer
  <2> HIDE DEF st, yes, none
  <2>2. Itemized(Answer(st, w, none, yes), v) = Answer(st, v, none, yes)
    BY ResponseWith
  <2>3. response' = Itemized(response, v)
    BY <2>1, <2>2
  <2>4. QED
    BY <2>3 DEF Itemized
<1>2. response'.items = v
  BY DEF Open
<1>3. ResponseContract!Extends(response'.items, response.items)
  BY DEF Extends
<1>4. QED
  BY <1>1, <1>2, <1>3, GoingIs DEF ResponseContract!Grow

LEMMA Unmade ==
    ASSUME Common, Mirrored, phase = "open", Fails
    PROVE  /\ phase' = "failed"
           /\ ResponseContract!Fail \/ response' = response
<1>1. CASE Responses /\ Streamed
  <2>1. /\ conv \in Converters /\ response = conv.wire
        /\ conv' = EmitError(conv) /\ response' = conv'.wire
    BY <1>1 DEF Mirrored, Follows, Fails
  <2>2. response' = [response EXCEPT !.status = "failed"]
    BY <2>1, EmitErrorIs
  <2>3. response = Open(conv.wire.items)
    BY <2>1, ConverterIs
  <2>4. ResponseContract!Fail
    BY <2>2, <2>3, GoingIs DEF ResponseContract!Fail
  <2>5. QED
    BY <2>4 DEF Fails
<1>2. CASE ~(Responses /\ Streamed)
  BY <1>2 DEF Fails
<1>3. QED
  BY <1>1, <1>2

LEMMA WholeIs ==
    ASSUME NEW st, NEW items, NEW r, r = Whole(st, items)
    PROVE  /\ r.status = st /\ r.items = items
           /\ r.done = DOMAIN items /\ r.valid
           /\ r = ResponseContract!Whole(st, items)
  BY DEF Whole, ResponseContract!Whole

LEMMA StatusIs ==
    ASSUME NEW f
    PROVE  /\ status(f) \in {"completed", "incomplete"}
           /\ status(f) = "incomplete" <=> f = "length"
  BY DEF status

LEMMA Completed ==
    ASSUME Common, Mirrored, Responses, Streamed, phase = "open",
           response' = Finalize(conv).wire
    PROVE  ResponseContract!Complete
<1>1. /\ Numbered(sent) /\ Follows(conv, sent) /\ response = conv.wire
  BY DEF Common, Mirrored
<1>2. PICK d : /\ Follows(d, sent) /\ d.finish = conv.finish
               /\ Finalize(conv).wire = Whole(status(conv.finish), d.items)
               /\ IF conv.items = <<>> THEN Len(d.items) = 1 ELSE d = conv
  BY <1>1, FinalizeIs
<1>3. /\ response'.status = status(conv.finish) /\ response'.items = d.items
      /\ response'.done = DOMAIN d.items /\ response'.valid
  <2>1. response' = Whole(status(conv.finish), d.items)
    BY <1>2
  <2>2. QED
    BY <2>1, WholeIs
<1>4. /\ response = Open(response.items) /\ response.items \in Seq(Items)
      /\ conv.items \in Seq(Items)
  BY <1>1, ConverterIs DEF Follows
<1>5. Alike(response.items, conv.items)
  BY <1>1 DEF Follows
<1>6. response.items = <<>> <=> conv.items = <<>>
  <2>1. Len(response.items) = Len(conv.items)
    BY <1>5 DEF Alike
  <2>2. QED
    BY <1>4, <2>1
<1>7. ASSUME response.items # <<>>
      PROVE  /\ Len(response'.items) = Len(response.items)
             /\ \A i \in DOMAIN response.items :
                   response'.items[i].data = response.items[i].data
  <2>1. response'.items = conv.items
    BY <1>2, <1>3, <1>6, <1>7
  <2>2. DOMAIN response.items = DOMAIN conv.items
    BY <1>4, <1>5 DEF Alike
  <2>3. QED
    BY <1>5, <2>1, <2>2 DEF Alike
<1>8. response.items = <<>> => Len(response'.items) = 1
  BY <1>2, <1>3, <1>6
<1>9. ResponseContract!Going
  BY <1>4, GoingIs
<1>10. /\ response'.status \in {"completed", "incomplete"} /\ response'.valid
       /\ response'.done = DOMAIN response'.items
  BY <1>3, StatusIs
<1>11. QED
  BY <1>7, <1>8, <1>9, <1>10 DEF ResponseContract!Complete

LEMMA Delivered ==
    ASSUME Unanswered, Responses, ~Streamed, phase = "open",
           NEW st \in {"completed", "incomplete"}, NEW items, response' = Whole(st, items)
    PROVE  ResponseContract!Deliver
<1>1. response = NoResponse
  BY DEF Unanswered
<1>2. response'.status = st /\ response'.items = items
      /\ response' = ResponseContract!Whole(st, items)
  BY WholeIs
<1>3. response = ResponseContract!NoResponse
  BY <1>1 DEF NoResponse, ResponseContract!NoResponse
<1>4. QED
  BY <1>2, <1>3 DEF ResponseContract!Deliver

----------------------------------------------------------------------------
(* What a response mirrors, whatever happens.                              *)

WireInv == Common /\ Mirrored /\ Unanswered

\* The turn is over.
LEMMA Ended ==
    ASSUME Common, UNCHANGED <<request, count>>, phase' \in {"answered", "failed"}
    PROVE  WireInv'
  BY DEF WireInv, Common, Mirrored, Unanswered

\* The actions that end it.
LEMMA TurnEnds ==
    ASSUME WireInv, StreamEnds \/ AggregateEnds \/ Breaks \/ Answered
    PROVE  /\ phase = "open" /\ UNCHANGED <<request, count>>
           /\ phase' \in {"answered", "failed"}
<1>1. \/ Fails \/ phase' = "answered"
  <2>1. CASE StreamEnds
    BY <2>1 DEF StreamEnds
  <2>2. CASE AggregateEnds
    BY <2>2 DEF AggregateEnds
  <2>3. CASE Breaks
    BY <2>3 DEF Breaks
  <2>4. CASE Answered
    BY <2>4 DEF Answered
  <2>5. QED
    BY <2>1, <2>2, <2>3, <2>4
<1>2. phase = "open" /\ UNCHANGED <<request, count>>
  BY DEF StreamEnds, AggregateEnds, Breaks, Answered
<1>3. QED
  BY <1>1, <1>2 DEF Fails

LEMMA WireInit ==
    ASSUME Init
    PROVE  WireInv
<1>1. Common
  <2>1. Numbered(<<>>)
    BY DEF Numbered
  <2>2. "" \in Ends
    BY DEF Ends
  <2>3. request \in Requests /\ phase = "open" /\ count = 0 /\ sent = <<>> /\ reason = ""
    BY DEF Init
  <2>4. QED
    BY <2>1, <2>2, <2>3 DEF Common
<1>2. Mirrored
  <2> DEFINE c == NewResponsesStreamConverter
  <2>1. c.wire = Open(<<>>)
    <3>1. Received(NoResponse, <<Created>>) = Receive(NoResponse, Created)
      BY ReceivedOne
    <3>2. Acceptable(NoResponse, Created)
      BY DEF Acceptable, Created
    <3>3. Accepted(NoResponse, Created) = Ending(NoResponse, "in_progress")
      BY DEF Accepted, Created, Ending
    <3>4. Ending(NoResponse, "in_progress") = Open(<<>>)
      <4> DEFINE a == "none"
                 b == "in_progress"
                 none == {}
                 yes == TRUE
                 items == <<>>
      <4>1. /\ NoResponse = Answer(a, items, none, yes)
            /\ Open(<<>>) = Answer(b, items, none, yes)
        BY DEF NoResponse, Answer, Open
      <4>2. b = "in_progress"
        OBVIOUS
      <4> HIDE DEF a, b, none, yes, items
      <4>3. Ending(Answer(a, items, none, yes), b) = Answer(b, items, none, yes)
        BY ResponseWith
      <4>4. QED
        BY <4>1, <4>2, <4>3
    <3>5. QED
      BY <3>1, <3>2, <3>3, <3>4, ReceiveIs DEF NewResponsesStreamConverter
  <2>2. /\ c.items = <<>> /\ c.text = 0 /\ c.reasoning = 0 /\ c.tools = <<>> /\ c.finish = ""
        /\ c.finalized = FALSE
        /\ c = [items |-> c.items, text |-> c.text, reasoning |-> c.reasoning,
                tools |-> c.tools, finish |-> c.finish, finalized |-> c.finalized,
                wire |-> c.wire]
    BY DEF NewResponsesStreamConverter
  <2>3. Open(<<>>).items = <<>> /\ <<>> \in Seq(Items) /\ <<>> \in Seq(Nat) /\ "" \in Stops
    BY DEF Open, Stops
  <2> HIDE DEF c
  <2>4. c \in Converters
    <3>1. c.wire \in {Open(items) : items \in Seq(Items)}
      BY <2>1, <2>3
    <3>2. /\ c.items \in Seq(Items) /\ c.text \in Nat /\ c.reasoning \in Nat
          /\ c.tools \in Seq(Nat)
      <4>1. c.items = <<>> /\ c.text = 0 /\ c.reasoning = 0 /\ c.tools = <<>>
        BY <2>2
      <4>2. c.items \in Seq(Items) /\ c.tools \in Seq(Nat)
        BY <2>3, <4>1, Zenon
      <4>3. c.text \in Nat /\ c.reasoning \in Nat
        BY <4>1
      <4>4. QED
        BY <4>2, <4>3
    <3>3. c.finish \in Stops /\ c.finalized \in {FALSE}
      <4>1. c.finish = "" /\ c.finalized = FALSE
        BY <2>2
      <4>2. c.finish \in Stops
        BY <2>3, <4>1, Zenon
      <4>3. c.finalized \in {FALSE}
        BY <4>1, Zenon
      <4>4. QED
        BY <4>2, <4>3
    <3>4. c = [items |-> c.items, text |-> c.text, reasoning |-> c.reasoning,
               tools |-> c.tools, finish |-> c.finish, finalized |-> c.finalized,
               wire |-> c.wire]
      BY <2>2
    <3>5. QED
      BY <3>1, <3>2, <3>3, <3>4, Zenon DEF Converters
  <2>5. Alike(c.wire.items, c.items)
    BY <2>1, <2>2, <2>3 DEF Alike
  <2>6. ToolsFollow(c.items, c.tools, <<>>)
    <3>1. DOMAIN <<>> = {} /\ Len(<<>>) = Len(<<>>)
      OBVIOUS
    <3>2. ToolsFollow(<<>>, <<>>, <<>>)
      BY <3>1, Zenon DEF ToolsFollow
    <3>3. QED
      BY <2>2, <3>2
  <2>7. Follows(c, <<>>)
    BY <2>2, <2>4, <2>5, <2>6 DEF Follows, Narrated
  <2>8. conv = c /\ sent = <<>> /\ reason = ""
    BY DEF Init, c
  <2>9. openAIFinishReasonFromAnthropic("") = ""
    BY DEF openAIFinishReasonFromAnthropic
  <2>10. Responses /\ Streamed => response = conv.wire
    BY DEF Init
  <2>11. QED
    BY <2>2, <2>7, <2>8, <2>9, <2>10 DEF Mirrored
<1>3. Unanswered
  BY DEF Init, Unanswered
<1>4. QED
  BY <1>1, <1>2, <1>3 DEF WireInv

LEMMA WireStep ==
    ASSUME WireInv, [Next]_vars
    PROVE  WireInv'
<1>1. Common /\ Mirrored /\ Unanswered
  BY DEF WireInv
<1>2. CASE RelayChat
  <2>1. PICK o \in Offers : Sends(o)
    BY <1>2 DEF RelayChat
  <2>2. /\ request' = request /\ phase' = phase /\ ~Responses /\ Streamed
    BY <1>2 DEF RelayChat
  <2>3. Common'
    BY <1>1, <2>1, <2>2, Sent
  <2>4. Mirrored' /\ Unanswered'
    BY <2>2 DEF Mirrored, Unanswered, Responses, Streamed
  <2>5. QED
    BY <2>3, <2>4 DEF WireInv
<1>3. CASE RelayResponses
  <2>1. Common' /\ Mirrored'
    BY <1>1, <1>3, RelayedResponses
  <2>2. request' = request /\ Streamed
    BY <1>3 DEF RelayResponses
  <2>3. Unanswered'
    BY <2>2 DEF Unanswered, Streamed
  <2>4. QED
    BY <2>1, <2>3 DEF WireInv
<1>4. CASE Gather
  <2>1. PICK o \in Offers : Sends(o)
    BY <1>4 DEF Gather
  <2>2. /\ request' = request /\ phase' = phase /\ ~Streamed /\ response' = response
    BY <1>4 DEF Gather, Streamed
  <2>3. Common'
    BY <1>1, <2>1, <2>2, Sent
  <2>4. Mirrored' /\ Unanswered'
    BY <1>1, <2>2 DEF Mirrored, Unanswered, Responses, Streamed
  <2>5. QED
    BY <2>3, <2>4 DEF WireInv
<1>5. CASE StreamEnds \/ AggregateEnds \/ Breaks \/ Answered
  BY <1>1, <1>5, TurnEnds, Ended
<1>6. CASE UNCHANGED vars
  BY <1>1, <1>6 DEF vars, WireInv, Common, Mirrored, Unanswered, Responses, Streamed, Ends
<1>7. QED
  BY <1>2, <1>3, <1>4, <1>5, <1>6 DEF Next

\* A gathered or whole answer comes as one response.
LEMMA AggregatedWhole ==
    ASSUME AggregateEnds
    PROVE  \/ Fails
           \/ /\ answer.any /\ phase' = "answered"
              /\ IF Responses
                 THEN /\ response' = Whole(status(AggregateOpenAIStream(answer).finish),
                                           response'.items)
                      /\ response' = filterUndeclaredResponsesTools(
                                        ConvertResponsesResponse(AggregateOpenAIStream(answer)),
                                        request.declared)
                 ELSE /\ response' = response
                      /\ answer' = filterUndeclaredOpenAITools(AggregateOpenAIStream(answer),
                                                               request.declared)
<1> DEFINE whole == AggregateOpenAIStream(answer)
           converted == ConvertResponsesResponse(whole)
           r == filterUndeclaredResponsesTools(converted, request.declared)
<1>1. converted.status = status(whole.finish)
  BY WholeIs DEF ConvertResponsesResponse
<1>2. r = Whole(converted.status, r.items)
  <2> DEFINE kept == Picked(converted.items, {i \in DOMAIN converted.items :
        converted.items[i].kind = "function_call" =>
            ~Undeclared(request.declared, converted.items[i].name)})
  <2>1. r = Whole(converted.status, kept)
    BY DEF filterUndeclaredResponsesTools
  <2> HIDE DEF kept, converted, r
  <2>2. r.items = kept
    BY <2>1, WholeIs
  <2>3. QED
    BY <2>1, <2>2
<1>3. CASE ~Fails
  <2>1. answer.any /\ phase' = "answered"
    BY <1>3 DEF AggregateEnds
  <2>2. CASE Responses
    <3>1. response' = r
      BY <1>3, <2>2 DEF AggregateEnds
    <3> HIDE DEF whole, converted, r
    <3>2. response' = Whole(status(whole.finish), response'.items)
      BY <1>1, <1>2, <3>1
    <3>3. QED
      BY <2>1, <2>2, <3>1, <3>2 DEF whole, converted, r
  <2>3. CASE ~Responses
    BY <1>3, <2>1, <2>3 DEF AggregateEnds
  <2>4. QED
    BY <2>2, <2>3
<1>4. QED
  BY <1>3

LEMMA PlainWhole ==
    ASSUME NEW calls, NEW r \in {"stop", "tool_calls", "length"}
    PROVE  /\ PlainChat(calls, r) => response' = Whole(status(r), response'.items)
           /\ PlainAnthropic(calls, r) => response' = Whole(status(r), response'.items)
<1>1. ASSUME PlainChat(calls, r)
      PROVE  response' = Whole(status(r), response'.items)
  <2>1. PICK text, reasoning : response' = ConvertResponsesResponse(
            [text |-> text, reasoning |-> reasoning, finish |-> r,
             calls |-> [i \in DOMAIN calls |-> First(calls[i])]])
    BY <1>1 DEF PlainChat
  <2>2. \E items : response' = Whole(status(r), items)
    BY <2>1 DEF ConvertResponsesResponse
  <2>3. QED
    BY <2>2, WholeIs
<1>2. ASSUME PlainAnthropic(calls, r)
      PROVE  response' = Whole(status(r), response'.items)
  <2>1. PICK blocks : response' = ConvertAnthropicResponseToResponses(blocks, anthropicReason(r))
    BY <1>2 DEF PlainAnthropic
  <2>2. (IF anthropicReason(r) = "max_tokens" THEN "incomplete" ELSE "completed") = status(r)
    BY DEF anthropicReason, status
  <2>3. \E items : response' = Whole(status(r), items)
    BY <2>1, <2>2 DEF ConvertAnthropicResponseToResponses
  <2>4. QED
    BY <2>3, WholeIs
<1>3. QED
  BY <1>1, <1>2

LEMMA AnsweredWhole ==
    ASSUME Answered
    PROVE  /\ phase = "open" /\ phase' = "answered" /\ request.form = "plain"
           /\ \E calls \in Answers : \E r \in {"stop", "tool_calls", "length"} :
                 /\ IF request.lane = "native" THEN PlainAnthropic(calls, r)
                    ELSE PlainChat(calls, r)
                 /\ sent' = calls /\ reason' = r
                 /\ response' = Whole(status(r), response'.items)
<1>0. PICK calls \in Answers : \E r \in Reasons(calls) :
          /\ IF request.lane = "native" THEN PlainAnthropic(calls, r) ELSE PlainChat(calls, r)
          /\ sent' = calls
          /\ reason' = r
  BY DEF Answered
<1>1. PICK r \in Reasons(calls) :
          /\ IF request.lane = "native" THEN PlainAnthropic(calls, r) ELSE PlainChat(calls, r)
          /\ sent' = calls
          /\ reason' = r
  BY <1>0
<1>2. r \in {"stop", "tool_calls", "length"}
  BY DEF Reasons
<1>3. response' = Whole(status(r), response'.items)
  BY <1>1, <1>2, PlainWhole
<1>4. QED
  BY <1>1, <1>2, <1>3 DEF Answered

\* An answer of /v1/responses is a well-formed response: items at consecutive
\* output indexes that only grow, each done once as it was streamed, and one
\* terminal event that repeats them at their places (ResponsesStreamConverter
\* and the conversions of whole answers).
THEOREM ResponseContractKept == Spec => ResponseWellFormed
<1>1. Init => ResponseContract!Init
  <2>1. SUFFICES ASSUME Init PROVE ResponseContract!Init
    OBVIOUS
  <2>2. (Responses /\ Streamed) \/ response = NoResponse
    BY <2>1 DEF Init
  <2>3. CASE Responses /\ Streamed
    <3>1. Mirrored /\ phase = "open"
      BY <2>1, WireInit DEF WireInv, Init
    <3>2. response = Open(response.items)
      BY <2>3, <3>1, ConverterIs DEF Mirrored, Follows
    <3>3. response.items = <<>>
      <4>1. sent = <<>> /\ conv = NewResponsesStreamConverter
        BY <2>1 DEF Init
      <4>2. Alike(response.items, conv.items) /\ response.items \in Seq(Items)
        BY <2>3, <3>1, ConverterIs DEF Mirrored, Follows
      <4>3. Len(response.items) = 0
        BY <4>1, <4>2 DEF Alike, NewResponsesStreamConverter
      <4>4. QED
        BY <4>2, <4>3
    <3>4. response = Ending(ResponseContract!NoResponse, "in_progress")
      <4> DEFINE a == "none"
                 b == "in_progress"
                 none == {}
                 yes == TRUE
                 items == <<>>
      <4>1. /\ ResponseContract!NoResponse = Answer(a, items, none, yes)
            /\ Open(<<>>) = Answer(b, items, none, yes)
        BY DEF ResponseContract!NoResponse, Answer, Open
      <4>2. b = "in_progress"
        OBVIOUS
      <4> HIDE DEF a, b, none, yes, items
      <4>3. Ending(Answer(a, items, none, yes), b) = Answer(b, items, none, yes)
        BY ResponseWith
      <4>4. QED
        BY <3>2, <3>3, <4>1, <4>2, <4>3
    <3>5. QED
      BY <3>4 DEF ResponseContract!Init, Ending
  <2>4. CASE response = NoResponse
    BY <2>4 DEF NoResponse, ResponseContract!Init, ResponseContract!NoResponse
  <2>5. QED
    BY <2>2, <2>3, <2>4
<1>2. WireInv /\ [Next]_vars => [ResponseContract!Next]_response
  <2>1. SUFFICES ASSUME WireInv, [Next]_vars
                 PROVE  ResponseContract!Next \/ response' = response
    OBVIOUS
  <2>2. Common /\ Mirrored /\ Unanswered
    BY <2>1 DEF WireInv
  <2>3. CASE RelayChat
    BY <2>3 DEF RelayChat
  <2>4. CASE RelayResponses
    <3>1. Extends(response'.items, response.items)
      BY <2>2, <2>4, RelayedResponses
    <3>2. PICK w \in Seq(Items) : \E v \in Seq(Items) : response = Open(w) /\ response' = Open(v)
      BY <2>2, <2>4, RelayedResponses
    <3>3. PICK v \in Seq(Items) : response = Open(w) /\ response' = Open(v)
      BY <3>2
    <3>4. ResponseContract!Grow
      BY <3>1, <3>3, Grown
    <3>5. QED
      BY <3>4 DEF ResponseContract!Next
  <2>5. CASE Gather
    BY <2>5 DEF Gather
  <2>6. CASE StreamEnds
    <3>1. CASE ~Responses
      BY <2>6, <3>1 DEF StreamEnds, Fails
    <3>2. CASE Responses
      <4>1. phase = "open" /\ Streamed /\ (Fails \/ response' = Finalize(conv).wire)
        BY <2>6, <3>2 DEF StreamEnds
      <4>2. CASE Fails
        BY <2>2, <4>1, <4>2, Unmade DEF ResponseContract!Next
      <4>3. CASE response' = Finalize(conv).wire
        BY <2>2, <3>2, <4>1, <4>3, Completed DEF ResponseContract!Next
      <4>4. QED
        BY <4>1, <4>2, <4>3
    <3>3. QED
      BY <3>1, <3>2
  <2>7. CASE AggregateEnds
    <3>1. phase = "open" /\ ~Streamed
      BY <2>7 DEF AggregateEnds, Streamed
    <3>2. CASE Fails
      BY <2>2, <3>1, <3>2, Unmade DEF ResponseContract!Next
    <3>3. CASE ~Responses /\ response' = response
      BY <3>3
    <3>4. CASE Responses /\ \E st \in {"completed", "incomplete"} : \E items : response' = Whole(st, items)
      BY <2>2, <3>1, <3>4, Delivered DEF ResponseContract!Next
    <3>5. QED
      BY <2>7, <3>2, <3>3, <3>4, AggregatedWhole, StatusIs
  <2>8. CASE Breaks
    BY <2>2, <2>8, Unmade DEF Breaks, ResponseContract!Next
  <2>9. CASE Answered
    <3>1. phase = "open" /\ ~Streamed
      BY <2>9, AnsweredWhole DEF Streamed
    <3>2. Responses
      <4>1. request.form = "plain" /\ request \in Requests
        BY <2>2, <2>9 DEF Answered, Common
      <4>2. QED
        BY <4>1 DEF Requests, Responses
    <3>3. \E st \in {"completed", "incomplete"} : \E items : response' = Whole(st, items)
      BY <2>9, AnsweredWhole, StatusIs
    <3>4. QED
      BY <2>2, <3>1, <3>2, <3>3, Delivered DEF ResponseContract!Next
  <2>10. CASE UNCHANGED vars
    BY <2>10 DEF vars
  <2>11. QED
    BY <2>1, <2>3, <2>4, <2>5, <2>6, <2>7, <2>8, <2>9, <2>10 DEF Next
<1>3. Spec => []WireInv
  <2>1. Init => WireInv
    BY WireInit
  <2>2. WireInv /\ [Next]_vars => WireInv'
    BY WireStep
  <2>3. QED
    BY <2>1, <2>2, PTL DEF Spec
<1>4. QED
  BY <1>1, <1>2, <1>3, PTL DEF Spec, ResponseWellFormed, ResponseContract!Spec

----------------------------------------------------------------------------
(* What of the calls a client has been handed.                             *)

\* NameFor, in turn r.
NameIn(r, call) ==
    CASE r.lane = "chat" /\ r.form = "stream" ->
            ResolveDeclaredToolName(r.declared, call.name)
      [] r.form = "aggregated" ->
            IF r.declared /\ call.name = "declared" THEN call.name ELSE NoName
      [] OTHER -> call.name

Wanted(r, call) == call.named /\ NameIn(r, call) # NoName

WholeOf(r, call) == [id |-> Id(call), name |-> NameIn(r, call), args |-> Args(call)]

\* What a client of turn r may have of a call: all of it, or, if the client is
\* not to get it, its first piece.
Hand(r, call, h) ==
    IF Wanted(r, call) THEN h = WholeOf(r, call)
    ELSE h.name = NoName /\ h.args = <<Piece(call, 1)>>

\* Of calls s the client has g[1] .. g[n], each of another call; those it is to
\* get are among them.
Hands(r, s, n, g, of) ==
    /\ n \in Nat
    /\ \A k \in 1 .. n : of[k] \in DOMAIN s /\ Hand(r, s[of[k]], g[k])
    /\ \A k, l \in 1 .. n : of[k] = of[l] => k = l
    /\ \A x \in DOMAIN s : Wanted(r, s[x]) => \E k \in 1 .. n : of[k] = x

Handed ==
    phase = "answered" =>
        /\ Numbered(sent)
        /\ \E n, g, of : /\ Hands(request, sent, n, g, of)
                         /\ Got = {g[k] : k \in 1 .. n} /\ NumberGot = n

\* What is handed of two calls differs.
LEMMA HandsDiffer ==
    ASSUME NEW r, NEW s, Numbered(s), NEW x \in DOMAIN s, NEW y \in DOMAIN s,
           NEW h, Hand(r, s[x], h), Hand(r, s[y], h)
    PROVE  x = y
<1>1. s[x].index = x /\ s[y].index = y
  BY DEF Numbered
<1>2. CASE Wanted(r, s[x]) /\ Wanted(r, s[y])
  <2>1. h.id = Id(s[x]) /\ h.id = Id(s[y])
    BY <1>2 DEF Hand, WholeOf
  <2>2. QED
    BY <1>1, <2>1 DEF Id
<1>3. CASE ~Wanted(r, s[x]) /\ ~Wanted(r, s[y])
  <2>1. <<Piece(s[x], 1)>> = <<Piece(s[y], 1)>>
    BY <1>3 DEF Hand
  <2>2. Piece(s[x], 1).call = Piece(s[y], 1).call
    BY <2>1
  <2>3. QED
    BY <1>1, <2>2 DEF Piece
<1>4. CASE Wanted(r, s[x]) /\ ~Wanted(r, s[y])
  <2>1. h.name = NameIn(r, s[x]) /\ h.name = NoName
    BY <1>4 DEF Hand, WholeOf
  <2>2. QED
    BY <1>4, <2>1 DEF Wanted
<1>5. CASE ~Wanted(r, s[x]) /\ Wanted(r, s[y])
  <2>1. h.name = NameIn(r, s[y]) /\ h.name = NoName
    BY <1>5 DEF Hand, WholeOf
  <2>2. QED
    BY <1>5, <2>1 DEF Wanted
<1>6. QED
  BY <1>2, <1>3, <1>4, <1>5

Promised(r, s) == {WholeOf(r, s[x]) : x \in {y \in DOMAIN s : Wanted(r, s[y])}}

\* CallsDelivered, of n calls that are those of G.
Kept(r, s, n, G) ==
    /\ Promised(r, s) \subseteq G
    /\ \A h \in G \ Promised(r, s) : h.name = NoName /\ Len(h.args) = 1
    /\ Cardinality(G) = n

LEMMA HandsAre ==
    ASSUME NEW r, NEW s, Numbered(s), NEW n, NEW g, NEW of, Hands(r, s, n, g, of)
    PROVE  Kept(r, s, n, {g[k] : k \in 1 .. n})
<1> DEFINE G == {g[k] : k \in 1 .. n}
           W == {y \in DOMAIN s : Wanted(r, s[y])}
           whole == {WholeOf(r, s[x]) : x \in W}
<1>1. /\ n \in Nat
      /\ \A k \in 1 .. n : of[k] \in DOMAIN s /\ Hand(r, s[of[k]], g[k])
      /\ \A k, l \in 1 .. n : of[k] = of[l] => k = l
      /\ \A x \in DOMAIN s : Wanted(r, s[x]) => \E k \in 1 .. n : of[k] = x
  BY DEF Hands
<1>2. ASSUME NEW x \in W
      PROVE  WholeOf(r, s[x]) \in G
  <2>1. PICK k \in 1 .. n : of[k] = x
    BY <1>1
  <2>2. g[k] = WholeOf(r, s[x])
    BY <1>1, <2>1 DEF Hand
  <2>3. QED
    BY <2>2
<1>3. ASSUME NEW k \in 1 .. n, g[k] \notin whole
      PROVE  g[k].name = NoName /\ Len(g[k].args) = 1
  <2>1. ~Wanted(r, s[of[k]])
    BY <1>1, <1>3 DEF Hand
  <2>2. g[k].name = NoName /\ g[k].args = <<Piece(s[of[k]], 1)>>
    BY <1>1, <2>1 DEF Hand
  <2>3. QED
    BY <2>2
<1>4. Cardinality(G) = n
  <2> DEFINE f == [k \in 1 .. n |-> g[k]]
  <2>1. \A k, l \in 1 .. n : g[k] = g[l] => k = l
    <3>1. ASSUME NEW k \in 1 .. n, NEW l \in 1 .. n, g[k] = g[l]
          PROVE  k = l
      <4>1. of[k] \in DOMAIN s /\ of[l] \in DOMAIN s
            /\ Hand(r, s[of[k]], g[k]) /\ Hand(r, s[of[l]], g[k])
        BY <1>1, <3>1
      <4>2. of[k] = of[l]
        BY <4>1, HandsDiffer
      <4>3. QED
        BY <1>1, <4>2
    <3>2. QED
      BY <3>1
  <2>2. f \in Bijection(1 .. n, G)
    <3>1. f \in [1 .. n -> G]
      OBVIOUS
    <3>2. \A k, l \in 1 .. n : f[k] = f[l] => k = l
      BY <2>1
    <3>3. \A h \in G : \E k \in 1 .. n : f[k] = h
      OBVIOUS
    <3> HIDE DEF f, G
    <3>4. f \in Injection(1 .. n, G) /\ f \in Surjection(1 .. n, G)
      BY <3>1, <3>2, <3>3 DEF Injection, IsInjective, Surjection
    <3>5. QED
      BY <3>4 DEF Bijection
  <2>4. ExistsBijection(1 .. n, G)
    BY <2>2 DEF ExistsBijection
  <2> HIDE DEF G
  <2>5. Cardinality(G) = n
    BY <1>1, <2>4, FS_CountingElements
  <2>6. QED
    BY <2>5 DEF G
<1>5. /\ whole \subseteq G
      /\ \A h \in G \ whole : h.name = NoName /\ Len(h.args) = 1
  BY <1>2, <1>3
<1>6. whole = Promised(r, s)
  BY DEF Promised
<1> HIDE DEF whole, G
<1>7. Kept(r, s, n, G)
  BY <1>4, <1>5, <1>6 DEF Kept
<1>8. QED
  BY <1>7 DEF G

LEMMA HandedDelivers ==
    ASSUME Handed
    PROVE  CallsDelivered
<1> SUFFICES ASSUME phase = "answered" PROVE CallsDelivered
  BY DEF CallsDelivered
<1> DEFINE named == {c \in ToSet(sent) : c.named /\ NameFor(c) # NoName}
           all(c) == [m \in 1 .. c.at |-> Piece(c, m)]
           told == {[id |-> Id(c), name |-> NameFor(c), args |-> all(c)] : c \in named}
<1>1. PICK n, g, of : /\ Hands(request, sent, n, g, of)
                      /\ Got = {g[k] : k \in 1 .. n} /\ NumberGot = n
  BY DEF Handed
<1>2. Numbered(sent)
  BY DEF Handed
<1> DEFINE G == {g[k] : k \in 1 .. n}
           W == {y \in DOMAIN sent : Wanted(request, sent[y])}
           whole == {WholeOf(request, sent[x]) : x \in W}
<1>3. /\ whole \subseteq G
      /\ \A h \in G \ whole : h.name = NoName /\ Len(h.args) = 1
      /\ Cardinality(G) = n
  <2>1. Kept(request, sent, n, G)
    BY <1>1, <1>2, HandsAre
  <2>2. whole = Promised(request, sent)
    BY DEF Promised
  <2> HIDE DEF whole, G
  <2>3. QED
    BY <2>1, <2>2 DEF Kept
<1>4. \A c : NameFor(c) = NameIn(request, c)
  BY DEF NameFor, NameIn, Streamed
<1>5. \A c : c \in ToSet(sent) <=> \E x \in DOMAIN sent : c = sent[x]
  BY DEF ToSet
<1>6. told = whole
  <2>1. ASSUME NEW t \in told PROVE t \in whole
    <3>1. PICK c \in named : t = [id |-> Id(c), name |-> NameFor(c), args |-> all(c)]
      OBVIOUS
    <3>2. PICK x \in DOMAIN sent : c = sent[x]
      BY <1>5
    <3>3. x \in W
      BY <1>4, <3>2 DEF Wanted
    <3>4. t = WholeOf(request, sent[x])
      BY <1>4, <3>1, <3>2 DEF WholeOf, Args
    <3>5. QED
      BY <3>3, <3>4
  <2>2. ASSUME NEW t \in whole PROVE t \in told
    <3>1. PICK x \in W : t = WholeOf(request, sent[x])
      OBVIOUS
    <3>2. sent[x] \in named
      BY <1>4, <1>5 DEF Wanted
    <3>3. t = [id |-> Id(sent[x]), name |-> NameFor(sent[x]), args |-> all(sent[x])]
      BY <1>4, <3>1 DEF WholeOf, Args
    <3>4. QED
      BY <3>2, <3>3
  <2> HIDE DEF told, whole
  <2>3. QED
    BY <2>1, <2>2
<1>7. Got = G /\ NumberGot = n
  BY <1>1
<1>8. /\ told \subseteq Got
      /\ \A h \in Got \ told : h.name = NoName /\ Len(h.args) = 1
      /\ NumberGot = Cardinality(Got)
  <2> HIDE DEF told, whole, G
  <2>1. QED
    BY <1>3, <1>6, <1>7
<1>9. QED
  BY <1>8, Zenon DEF CallsDelivered

\* The calls as they are in the items of a response, or in the answer of a chat.
InItem(i) == [id |-> i.id, name |-> i.name, args |-> i.data]
InEntry(c) == [id |-> c.id, name |-> c.name, args |-> c.args]

HandsItems(r, s, items, whose) ==
    LET places == Having(items, "function_call")
    IN  /\ \A p \in places : whose[p] \in DOMAIN s /\ Hand(r, s[whose[p]], InItem(items[p]))
        /\ \A p, q \in places : whose[p] = whose[q] => p = q
        /\ \A x \in DOMAIN s : Wanted(r, s[x]) => \E p \in places : whose[p] = x

HandsEntries(r, s, calls, whose) ==
    /\ \A k \in DOMAIN calls : whose[k] \in DOMAIN s /\ Hand(r, s[whose[k]], InEntry(calls[k]))
    /\ \A k, l \in DOMAIN calls : whose[k] = whose[l] => k = l
    /\ \A x \in DOMAIN s : Wanted(r, s[x]) => \E k \in DOMAIN calls : whose[k] = x

InItems ==
    Responses /\ phase = "answered" =>
        /\ Numbered(sent)
        /\ \E T : response.items \in Seq(T)
        /\ \E whose : HandsItems(request, sent, response.items, whose)

InEntries ==
    ~Responses /\ phase = "answered" =>
        /\ Numbered(sent)
        /\ \E T : answer.calls \in Seq(T)
        /\ \E whose : HandsEntries(request, sent, answer.calls, whose)

LEMMA ItemsHanded ==
    ASSUME InItems, Responses
    PROVE  Handed
<1> SUFFICES ASSUME phase = "answered"
             PROVE  /\ Numbered(sent)
                    /\ \E n, g, of : /\ Hands(request, sent, n, g, of)
                                     /\ Got = {g[k] : k \in 1 .. n} /\ NumberGot = n
  BY DEF Handed
<1>1. /\ Numbered(sent) /\ \E T : response.items \in Seq(T)
      /\ \E whose : HandsItems(request, sent, response.items, whose)
  BY DEF InItems
<1>2. PICK T : response.items \in Seq(T)
  BY <1>1
<1>3. PICK whose : HandsItems(request, sent, response.items, whose)
  BY <1>1
<1> DEFINE items == response.items
           K == Having(items, "function_call")
           f == Picked(items, K)
           n == Len(f)
           g == [k \in 1 .. n |-> InItem(f[k])]
<1>4. FunctionCalls(response) = f
  BY DEF FunctionCalls, Having
<1>5. f \in Seq(T)
  BY <1>2, PickedPlaces
<1>6. n \in Nat /\ DOMAIN f = 1 .. n
  BY <1>5
<1>7. PICK at : PicksAt(at, f, items, K)
  BY <1>2, PickedAt
<1>8. K \subseteq DOMAIN items
  BY DEF Having
<1>9. /\ \A p \in K : whose[p] \in DOMAIN sent /\ Hand(request, sent[whose[p]], InItem(items[p]))
      /\ \A p, q \in K : whose[p] = whose[q] => p = q
      /\ \A x \in DOMAIN sent : Wanted(request, sent[x]) => \E p \in K : whose[p] = x
  BY <1>3 DEF HandsItems
<1> DEFINE of == [k \in 1 .. n |-> whose[at[k]]]
<1> HIDE DEF K, f, n, items
<1>10. /\ \A k \in 1 .. n : at[k] \in K /\ f[k] = items[at[k]]
       /\ \A k, l \in 1 .. n : at[k] = at[l] => k = l
       /\ \A p \in K : \E k \in 1 .. n : at[k] = p
  BY <1>6, <1>7, <1>8 DEF PicksAt
<1>11. \A k \in 1 .. n : g[k] = InItem(items[at[k]]) /\ of[k] = whose[at[k]]
  BY <1>10
<1> HIDE DEF g, of
<1>12. Hands(request, sent, n, g, of)
  <2>1. ASSUME NEW k \in 1 .. n
        PROVE  of[k] \in DOMAIN sent /\ Hand(request, sent[of[k]], g[k])
    BY <1>9, <1>10, <1>11
  <2>2. \A k, l \in 1 .. n : of[k] = of[l] => k = l
    BY <1>9, <1>10, <1>11
  <2>3. ASSUME NEW x \in DOMAIN sent, Wanted(request, sent[x])
        PROVE  \E k \in 1 .. n : of[k] = x
    <3>1. PICK p \in K : whose[p] = x
      BY <1>9, <2>3
    <3>2. PICK k \in 1 .. n : at[k] = p
      BY <1>10
    <3>3. QED
      BY <1>11, <3>1, <3>2
  <2>4. QED
    BY <1>6, <2>1, <2>2, <2>3 DEF Hands
<1>13. Got = {g[k] : k \in 1 .. n} /\ NumberGot = n
  <2>1. Got = {InItem(i) : i \in ToSet(f)} /\ NumberGot = Len(f)
    BY <1>4 DEF Got, NumberGot, InItem
  <2>2. ToSet(f) = {f[k] : k \in 1 .. n}
    BY <1>6 DEF ToSet
  <2>3. \A k \in 1 .. n : g[k] = InItem(f[k])
    BY <1>10, <1>11
  <2>4. {InItem(i) : i \in ToSet(f)} = {g[k] : k \in 1 .. n}
    BY <2>2, <2>3
  <2>5. QED
    BY <2>1, <2>4 DEF n
<1>14. QED
  BY <1>1, <1>12, <1>13

LEMMA EntriesHanded ==
    ASSUME InEntries, ~Responses
    PROVE  Handed
<1> SUFFICES ASSUME phase = "answered"
             PROVE  /\ Numbered(sent)
                    /\ \E n, g, of : /\ Hands(request, sent, n, g, of)
                                     /\ Got = {g[k] : k \in 1 .. n} /\ NumberGot = n
  BY DEF Handed
<1>1. /\ Numbered(sent) /\ \E T : answer.calls \in Seq(T)
      /\ \E whose : HandsEntries(request, sent, answer.calls, whose)
  BY DEF InEntries
<1>2. PICK T : answer.calls \in Seq(T)
  BY <1>1
<1>3. PICK whose : HandsEntries(request, sent, answer.calls, whose)
  BY <1>1
<1> DEFINE f == answer.calls
           n == Len(f)
           g == [k \in 1 .. n |-> InEntry(f[k])]
<1>4. n \in Nat /\ DOMAIN f = 1 .. n
  BY <1>2
<1>5. \A k \in 1 .. n : g[k] = InEntry(f[k])
  OBVIOUS
<1> HIDE DEF g
<1>6. Hands(request, sent, n, g, whose)
  BY <1>3, <1>4, <1>5 DEF Hands, HandsEntries
<1>7. Got = {g[k] : k \in 1 .. n} /\ NumberGot = n
  <2>1. Got = {InEntry(c) : c \in ToSet(f)} /\ NumberGot = Len(f)
    BY DEF Got, NumberGot, InEntry
  <2>2. ToSet(f) = {f[k] : k \in 1 .. n}
    BY <1>4 DEF ToSet
  <2> HIDE DEF f, n
  <2>3. {InEntry(c) : c \in ToSet(f)} = {g[k] : k \in 1 .. n}
    BY <1>5, <2>2
  <2>4. QED
    BY <2>1, <2>3 DEF n
<1>8. QED
  BY <1>1, <1>6, <1>7

\* In a turn that is not filtered every call that has a name is to be had.
LEMMA Unfiltered ==
    ASSUME NEW r, r.lane # "chat", r.form # "aggregated", NEW call \in Calls
    PROVE  /\ NameIn(r, call) = call.name
           /\ Wanted(r, call) <=> call.named
<1>1. NameIn(r, call) = call.name
  BY DEF NameIn
<1>2. call.name # NoName
  BY FragmentsAre
<1>3. QED
  BY <1>1, <1>2 DEF Wanted

LEMMA ItemHand ==
    ASSUME NEW r, r.lane # "chat", r.form # "aggregated", NEW call \in Calls,
           ~call.named => call.at = 1
    PROVE  Hand(r, call, InItem(ItemOf(call)))
<1>1. CASE call.named
  <2>1. Wanted(r, call) /\ NameIn(r, call) = call.name
    BY <1>1, Unfiltered
  <2>2. InItem(ItemOf(call)) = [id |-> Id(call), name |-> call.name, args |-> Args(call)]
    BY <1>1 DEF InItem, ItemOf, Call
  <2>3. QED
    BY <2>1, <2>2 DEF Hand, WholeOf
<1>2. CASE ~call.named
  <2>1. ~Wanted(r, call)
    BY <1>2, Unfiltered
  <2>2. InItem(ItemOf(call)).name = NoName /\ InItem(ItemOf(call)).args = Args(call)
    BY <1>2 DEF InItem, ItemOf, Call
  <2>3. Args(call) = <<Piece(call, 1)>>
    BY <1>2, ArgsAre
  <2>4. QED
    BY <2>1, <2>2, <2>3 DEF Hand
<1>3. QED
  BY <1>1, <1>2

LEMMA FollowedHands ==
    ASSUME NEW r, r.lane # "chat", r.form # "aggregated", NEW s, Numbered(s),
           NEW items, NEW tools, ToolsFollow(items, tools, s)
    PROVE  \E whose : HandsItems(r, s, items, whose)
<1> DEFINE K == Having(items, "function_call")
           whose == [p \in K |-> CHOOSE x \in DOMAIN s : tools[x] = p]
<1>1. /\ s \in Seq(Calls)
      /\ \A x \in DOMAIN s : s[x] \in Calls /\ (~s[x].named => s[x].at = 1)
  BY DEF Numbered
<1>2. /\ \A x \in DOMAIN s : tools[x] \in DOMAIN items /\ items[tools[x]] = ItemOf(s[x])
      /\ \A x, y \in DOMAIN s : tools[x] = tools[y] => x = y
      /\ \A p \in K : \E x \in DOMAIN s : tools[x] = p
  BY DEF ToolsFollow, Having
<1>3. \A x \in DOMAIN s : tools[x] \in K
  <2>1. \A call : ItemOf(call).kind = "function_call"
    BY DEF ItemOf, Call
  <2>2. \A x \in DOMAIN s : items[tools[x]].kind = "function_call"
    BY <1>2, <2>1
  <2>3. QED
    BY <1>2, <2>2 DEF Having
<1> HIDE DEF K
<1>4. \A p \in K : whose[p] \in DOMAIN s /\ tools[whose[p]] = p
  BY <1>2
<1> HIDE DEF whose
<1>5. ASSUME NEW p \in K
      PROVE  whose[p] \in DOMAIN s /\ Hand(r, s[whose[p]], InItem(items[p]))
  <2>1. whose[p] \in DOMAIN s /\ items[p] = ItemOf(s[whose[p]])
    BY <1>2, <1>4
  <2>2. QED
    BY <1>1, <2>1, ItemHand
<1>6. \A p, q \in K : whose[p] = whose[q] => p = q
  BY <1>4
<1>7. \A x \in DOMAIN s : \E p \in K : whose[p] = x
  BY <1>2, <1>3, <1>4
<1>8. HandsItems(r, s, items, whose)
  BY <1>5, <1>6, <1>7 DEF HandsItems, K
<1>9. QED
  BY <1>8

\* A stream of Responses ends.
LEMMA StreamHanded ==
    ASSUME WireInv, StreamEnds, phase' = "answered"
    PROVE  InItems'
<1>1. phase = "open" /\ Streamed /\ UNCHANGED <<request, sent>> /\ ~Fails
  BY DEF StreamEnds, Fails
<1>2. SUFFICES ASSUME Responses
               PROVE  /\ Numbered(sent')
                      /\ \E T : response'.items \in Seq(T)
                      /\ \E whose : HandsItems(request', sent', response'.items, whose)
  BY <1>1 DEF InItems, Responses
<1>3. response' = Finalize(conv).wire
  BY <1>1, <1>2 DEF StreamEnds
<1>4. Numbered(sent) /\ Follows(conv, sent)
  BY <1>1, <1>2 DEF WireInv, Common, Mirrored
<1>5. PICK d : /\ Follows(d, sent)
               /\ Finalize(conv).wire = Whole(status(conv.finish), d.items)
  BY <1>4, FinalizeIs
<1>6. response'.items = d.items
  <2>1. response' = Whole(status(conv.finish), d.items)
    BY <1>3, <1>5
  <2>2. QED
    BY <2>1, WholeIs
<1>7. d.items \in Seq(Items) /\ ToolsFollow(d.items, d.tools, sent)
  BY <1>5, ConverterIs DEF Follows
<1>8. request.lane # "chat" /\ request.form # "aggregated"
  BY <1>1, <1>2 DEF Responses, Streamed
<1>9. \E whose : HandsItems(request, sent, d.items, whose)
  BY <1>4, <1>7, <1>8, FollowedHands
<1>10. QED
  BY <1>1, <1>4, <1>6, <1>7, <1>9

----------------------------------------------------------------------------
(* The calls in an answer that comes whole.                                *)

\* The function calls among items are those of cs, each at a place of its own.
Lists(items, of, cs) ==
    LET places == Having(items, "function_call")
    IN  /\ \A p \in places : of[p] \in DOMAIN cs /\ items[p] = cs[of[p]]
        /\ \A p, q \in places : of[p] = of[q] => p = q
        /\ \A x \in DOMAIN cs : \E p \in places : of[p] = x

LEMMA ListedHands ==
    ASSUME NEW r, NEW s, NEW items, NEW of, NEW cs, Lists(items, of, cs),
           DOMAIN cs = DOMAIN s, \A x \in DOMAIN s : Hand(r, s[x], InItem(cs[x]))
    PROVE  HandsItems(r, s, items, of)
BY DEF Lists, HandsItems

\* What is kept of the items still has each call that is wanted.
LEMMA PickedHands ==
    ASSUME NEW r, NEW s, NEW T, NEW items \in Seq(T), NEW of, NEW cs, Lists(items, of, cs),
           DOMAIN cs = DOMAIN s, NEW places,
           \A p \in Having(items, "function_call") :
              IF p \in places THEN Hand(r, s[of[p]], InItem(items[p]))
              ELSE ~Wanted(r, s[of[p]])
    PROVE  \E whose : HandsItems(r, s, Picked(items, places), whose)
<1> DEFINE kept == Picked(items, places)
           K == Having(items, "function_call")
           L == Having(kept, "function_call")
<1>1. PICK at : PicksAt(at, kept, items, places)
  BY PickedAt
<1>2. /\ \A k \in DOMAIN kept : at[k] \in DOMAIN items \cap places /\ kept[k] = items[at[k]]
      /\ \A k, l \in DOMAIN kept : at[k] = at[l] => k = l
      /\ \A i \in DOMAIN items \cap places : \E k \in DOMAIN kept : at[k] = i
  BY <1>1 DEF PicksAt
<1> HIDE DEF kept
<1> DEFINE whose == [k \in L |-> of[at[k]]]
<1>3. \A k \in L : at[k] \in K \cap places /\ kept[k] = items[at[k]] /\ k \in DOMAIN kept
  BY <1>2 DEF Having
<1>4. /\ \A p \in K : of[p] \in DOMAIN s
      /\ \A p, q \in K : of[p] = of[q] => p = q
      /\ \A x \in DOMAIN s : \E p \in K : of[p] = x
      /\ K \subseteq DOMAIN items
  BY DEF Lists, Having
<1>5. \A p \in K \cap places : \E k \in L : at[k] = p
  <2>1. ASSUME NEW p \in K \cap places
        PROVE  \E k \in L : at[k] = p
    <3>1. PICK k \in DOMAIN kept : at[k] = p
      BY <1>2, <1>4
    <3>2. kept[k].kind = "function_call"
      BY <1>2, <3>1 DEF Having
    <3>3. QED
      BY <3>1, <3>2 DEF Having
  <2>2. QED
    BY <2>1
<1> HIDE DEF K, L
<1>6. \A k \in L : whose[k] = of[at[k]]
  OBVIOUS
<1> HIDE DEF whose
<1>7. ASSUME NEW k \in L
      PROVE  whose[k] \in DOMAIN s /\ Hand(r, s[whose[k]], InItem(kept[k]))
  BY <1>3, <1>4, <1>6 DEF K
<1>8. \A k, l \in L : whose[k] = whose[l] => k = l
  BY <1>2, <1>3, <1>4, <1>6
<1>9. ASSUME NEW x \in DOMAIN s, Wanted(r, s[x])
      PROVE  \E k \in L : whose[k] = x
  <2>1. PICK p \in K : of[p] = x
    BY <1>4
  <2>2. p \in places
    BY <1>9, <2>1 DEF K
  <2>3. PICK k \in L : at[k] = p
    BY <1>5, <2>1, <2>2
  <2>4. QED
    BY <1>6, <2>1, <2>3
<1>10. HandsItems(r, s, kept, whose)
  BY <1>7, <1>8, <1>9 DEF HandsItems, L
<1>11. QED
  BY <1>10 DEF kept

LEMMA Joined ==
    ASSUME NEW T, NEW s \in Seq(T), NEW t \in Seq(T)
    PROVE  /\ s \o t \in Seq(T) /\ Len(s) \in Nat /\ Len(t) \in Nat
           /\ Len(s \o t) = Len(s) + Len(t) /\ DOMAIN (s \o t) = 1 .. Len(s) + Len(t)
           /\ \A i \in 1 .. Len(s) : (s \o t)[i] = s[i]
           /\ \A i \in Len(s) + 1 .. Len(s) + Len(t) :
                 (s \o t)[i] = t[i - Len(s)] /\ i - Len(s) \in 1 .. Len(t)
<1>1. /\ s \o t \in Seq(T) /\ Len(s) \in Nat /\ Len(t) \in Nat
      /\ Len(s \o t) = Len(s) + Len(t)
  OBVIOUS
<1>2. DOMAIN (s \o t) = 1 .. Len(s) + Len(t)
  BY <1>1
<1>3. \A i \in 1 .. Len(s) : (s \o t)[i] = s[i]
  BY <1>1
<1>4. \A i \in Len(s) + 1 .. Len(s) + Len(t) :
                 (s \o t)[i] = t[i - Len(s)] /\ i - Len(s) \in 1 .. Len(t)
  BY <1>1
<1>5. QED
  BY <1>1, <1>2, <1>3, <1>4

\* ConvertResponsesResponse: text and reasoning, if any, then the calls.
LEMMA MessageConverted ==
    ASSUME NEW m, NEW E, m.calls \in Seq(E)
    PROVE  LET items == ConvertResponsesResponse(m).items
           IN  /\ \E T : items \in Seq(T)
               /\ \E of : Lists(items, of, [x \in DOMAIN m.calls |-> WholeCall(m.calls[x])])
<1> DEFINE items == ConvertResponsesResponse(m).items
           r == Narrative("reasoning", m.reasoning)
           t == Narrative("message", m.text)
           one == IF m.reasoning = <<>> THEN <<>> ELSE <<r>>
           two == IF m.text = <<>> THEN <<>> ELSE <<t>>
           cs == [x \in DOMAIN m.calls |-> WholeCall(m.calls[x])]
           T == {r, t} \cup {WholeCall(c) : c \in E}
           b == Len(one) + Len(two)
           n == Len(m.calls)
           K == Having(items, "function_call")
           of == [p \in K |-> p - b]
<1>1. items = one \o two \o cs
  <2> DEFINE all == one \o two \o cs
             whole == ConvertResponsesResponse(m)
             st == status(m.finish)
  <2>1. whole = Whole(st, all)
    BY DEF ConvertResponsesResponse
  <2> HIDE DEF all, whole, st
  <2>2. whole.items = all
    BY <2>1, WholeIs
  <2>3. QED
    BY <2>2 DEF all, whole
<1>2. /\ one \in Seq(T) /\ two \in Seq(T)
      /\ \A i \in DOMAIN one : one[i] = r
      /\ \A i \in DOMAIN two : two[i] = t
  <2> HIDE DEF r, t
  <2>1. r \in T /\ t \in T
    OBVIOUS
  <2> HIDE DEF T
  <2> DEFINE none == <<>>
  <2>2. \A v \in T : /\ <<v>> \in Seq(T)
                     /\ \A i \in DOMAIN <<v>> : <<v>>[i] = v
    OBVIOUS
  <2>3. none \in Seq(T) /\ DOMAIN none = {}
    OBVIOUS
  <2>4. one = none \/ one = <<r>>
    OBVIOUS
  <2>5. two = none \/ two = <<t>>
    OBVIOUS
  <2> HIDE DEF one, two, none
  <2>6. QED
    BY <2>1, <2>2, <2>3, <2>4, <2>5
<1>3. /\ n \in Nat /\ DOMAIN m.calls = 1 .. n /\ \A x \in 1 .. n : m.calls[x] \in E
  OBVIOUS
<1>4. cs \in Seq(T) /\ Len(cs) = n /\ DOMAIN cs = 1 .. n
      /\ \A x \in 1 .. n : cs[x] = WholeCall(m.calls[x])
  <2>1. \A x \in 1 .. n : WholeCall(m.calls[x]) \in T
    BY <1>3
  <2> HIDE DEF T
  <2>2. cs = [x \in 1 .. n |-> WholeCall(m.calls[x])]
    BY <1>3
  <2> HIDE DEF cs
  <2>3. cs \in Seq(T) /\ Len(cs) = n
    BY <1>3, <2>1, <2>2, IsASeq
  <2>4. QED
    BY <1>3, <2>2, <2>3
<1> HIDE DEF one, two, cs, T, n, items
<1>5. /\ Len(one) \in Nat /\ Len(two) \in Nat /\ b \in Nat
      /\ DOMAIN one = 1 .. Len(one) /\ DOMAIN two = 1 .. Len(two)
  BY <1>2
<1>6. /\ items \in Seq(T) /\ DOMAIN items = 1 .. b + n
      /\ \A i \in 1 .. Len(one) : items[i] = one[i]
      /\ \A i \in Len(one) + 1 .. b : items[i] = two[i - Len(one)] /\ i - Len(one) \in 1 .. Len(two)
      /\ \A i \in b + 1 .. b + n : items[i] = cs[i - b] /\ i - b \in 1 .. n
  <2> DEFINE front == one \o two
  <2>1. /\ front \in Seq(T) /\ Len(front) = b
        /\ \A i \in 1 .. Len(one) : front[i] = one[i]
        /\ \A i \in Len(one) + 1 .. b : front[i] = two[i - Len(one)] /\ i - Len(one) \in 1 .. Len(two)
    BY <1>2, <1>5
  <2>2. items = front \o cs
    BY <1>1
  <2> HIDE DEF front
  <2>3. /\ items \in Seq(T) /\ Len(items) = b + n
        /\ \A i \in 1 .. b : items[i] = front[i]
        /\ \A i \in b + 1 .. b + n : items[i] = cs[i - b] /\ i - b \in 1 .. n
    <3>1. Len(cs) = n /\ cs \in Seq(T) /\ front \in Seq(T) /\ Len(front) = b
      BY <1>4, <2>1
    <3> HIDE DEF b
    <3>2. /\ front \o cs \in Seq(T) /\ Len(front \o cs) = b + n
          /\ \A i \in 1 .. b : (front \o cs)[i] = front[i]
          /\ \A i \in b + 1 .. b + n : (front \o cs)[i] = cs[i - b] /\ i - b \in 1 .. n
      BY <3>1, Joined
    <3>3. QED
      BY <2>2, <3>2
  <2>4. DOMAIN items = 1 .. b + n
    BY <2>3
  <2>5. QED
    BY <1>5, <2>1, <2>3, <2>4
<1>7. /\ r.kind = "reasoning" /\ t.kind = "message"
      /\ \A x \in 1 .. n : cs[x].kind = "function_call"
  <2>1. r.kind = "reasoning" /\ t.kind = "message"
    BY DEF Narrative
  <2>2. \A c : WholeCall(c).kind = "function_call"
    BY DEF WholeCall, Call
  <2> HIDE DEF r, t
  <2>3. QED
    BY <1>4, <2>1, <2>2
<1> HIDE DEF r, t
<1>8. \A p \in 1 .. b + n : p \in K <=> p > b
  <2>1. \A p \in 1 .. Len(one) : items[p].kind # "function_call"
    BY <1>2, <1>5, <1>6, <1>7
  <2>2. \A p \in Len(one) + 1 .. b : items[p].kind # "function_call"
    BY <1>2, <1>5, <1>6, <1>7
  <2>3. \A p \in b + 1 .. b + n : items[p].kind = "function_call"
    BY <1>6, <1>7
  <2> HIDE DEF b
  <2>4. \A p \in 1 .. b + n : items[p].kind = "function_call" <=> p > b
    BY <1>3, <1>5, <2>1, <2>2, <2>3
  <2>5. QED
    BY <1>6, <2>4 DEF Having
<1>9. K \subseteq 1 .. b + n
  BY <1>6 DEF Having
<1> HIDE DEF K, b
<1>10. \A p \in K : of[p] = p - b
  OBVIOUS
<1> HIDE DEF of
<1>11. \A p \in K : p \in b + 1 .. b + n
  BY <1>3, <1>5, <1>8, <1>9
<1>12. \A p \in K : of[p] \in 1 .. n /\ items[p] = cs[of[p]]
  BY <1>6, <1>10, <1>11
<1>13. \A p, q \in K : of[p] = of[q] => p = q
  BY <1>5, <1>10, <1>11
<1>14. \A x \in 1 .. n : x + b \in K /\ of[x + b] = x
  BY <1>3, <1>5, <1>8, <1>10
<1>15. Lists(items, of, cs)
  BY <1>4, <1>12, <1>13, <1>14 DEF Lists, K
<1>16. QED
  BY <1>6, <1>15 DEF items, cs

\* The calls of an upstream that answers in one piece.
LEMMA AnswersAre ==
    ASSUME NEW s \in Answers
    PROVE  /\ Numbered(s) /\ Len(s) \in Nat /\ DOMAIN s = 1 .. Len(s)
           /\ \A x \in DOMAIN s : s[x] \in Calls /\ s[x].named /\ s[x].at = 1 /\ s[x].index = x
<1>1. PICK n \in 0 .. MaxCalls : s \in [1 .. n -> WholeCalls]
  BY DEF Answers
<1>2. \A x \in DOMAIN s : s[x].index = x
  BY DEF Answers
<1>3. \A c \in WholeCalls : c \in Calls /\ c.named /\ c.at = 1 /\ c.size = 1
  <2>1. ASSUME NEW c \in WholeCalls
        PROVE  c \in Calls /\ c.named /\ c.at = 1 /\ c.size = 1
    <3>1. c \in Beginnings(1) \/ c \in Beginnings(2)
      BY DEF WholeCalls
    <3>2. c.at = 1 /\ c.size = 1
      BY DEF WholeCalls
    <3>3. c \in Calls /\ (~c.named => c.size = 2)
      BY <3>1, BeginningsAre
    <3>4. c.named \in BOOLEAN
      BY <3>3 DEF Calls
    <3>5. QED
      BY <3>2, <3>3
  <2>2. QED
    BY <2>1
<1>4. n \in Nat /\ DOMAIN s = 1 .. n /\ \A x \in 1 .. n : s[x] \in WholeCalls
  BY <1>1, LanesAssumption
<1>5. s \in Seq(Calls)
  <2>1. s \in [1 .. n -> Calls]
    BY <1>1, <1>3
  <2>2. QED
    BY <1>4, <2>1
<1>6. Len(s) = n
  BY <1>4, <1>5
<1>7. \A x \in DOMAIN s : s[x] \in Calls /\ s[x].named /\ s[x].at = 1 /\ s[x].size = 1
  BY <1>3, <1>4
<1>8. Numbered(s)
  BY <1>2, <1>5, <1>7 DEF Numbered
<1>9. QED
  BY <1>2, <1>4, <1>6, <1>7, <1>8

LEMMA WholeCallHand ==
    ASSUME NEW r, r.lane # "chat", r.form # "aggregated", NEW call \in Calls,
           call.named, call.at = 1
    PROVE  /\ Hand(r, call, InItem(WholeCall(First(call))))
           /\ Hand(r, call, InItem(Call(Id(call), call.name, <<Piece(call, 1)>>)))
<1>1. Wanted(r, call) /\ NameIn(r, call) = call.name
  BY Unfiltered
<1>2. \A h : h = [id |-> Id(call), name |-> call.name, args |-> Args(call)] => Hand(r, call, h)
  BY <1>1 DEF Hand, WholeOf
<1>3. /\ First(call).id = Id(call) /\ First(call).name = call.name
      /\ First(call).args = Args(call) /\ Id(call) # NoId
  BY FragmentsAre
<1>4. InItem(WholeCall(First(call))) = [id |-> Id(call), name |-> call.name, args |-> Args(call)]
  BY <1>3 DEF InItem, WholeCall, Call, Or
<1>5. Args(call) = <<Piece(call, 1)>>
  BY ArgsAre
<1>6. InItem(Call(Id(call), call.name, Args(call)))
         = [id |-> Id(call), name |-> call.name, args |-> Args(call)]
  BY DEF InItem, Call
<1>7. QED
  BY <1>2, <1>4, <1>5, <1>6

LEMMA ChatAnswerHanded ==
    ASSUME NEW r, r.lane # "chat", r.form # "aggregated", NEW s \in Answers, NEW f,
           PlainChat(s, f)
    PROVE  /\ \E T : response'.items \in Seq(T)
           /\ \E whose : HandsItems(r, s, response'.items, whose)
<1> DEFINE calls == [i \in DOMAIN s |-> First(s[i])]
<1>1. PICK text, reasoning :
         response' = ConvertResponsesResponse([text |-> text, reasoning |-> reasoning,
                                               finish |-> f, calls |-> calls])
  BY DEF PlainChat
<1> DEFINE m == [text |-> text, reasoning |-> reasoning, finish |-> f, calls |-> calls]
           items == ConvertResponsesResponse(m).items
           E == {First(s[i]) : i \in DOMAIN s}
           cs == [x \in DOMAIN calls |-> WholeCall(calls[x])]
<1>2. m.calls = calls /\ response'.items = items
  BY <1>1
<1>3. /\ Len(s) \in Nat /\ DOMAIN s = 1 .. Len(s)
      /\ \A x \in DOMAIN s : s[x] \in Calls /\ s[x].named /\ s[x].at = 1
  BY AnswersAre
<1>4. calls \in Seq(E) /\ DOMAIN calls = DOMAIN s
  BY <1>3
<1> HIDE DEF m, E
<1>5. (\E T : items \in Seq(T)) /\ \E of : Lists(items, of, cs)
  <2>1. cs = [x \in DOMAIN m.calls |-> WholeCall(m.calls[x])]
    BY <1>2
  <2> HIDE DEF cs, calls
  <2>2. QED
    BY <1>2, <1>4, <2>1, MessageConverted
<1>6. PICK of : Lists(items, of, cs)
  BY <1>5
<1>7. DOMAIN cs = DOMAIN s /\ \A x \in DOMAIN s : cs[x] = WholeCall(First(s[x]))
  BY <1>4
<1>8. \A x \in DOMAIN s : Hand(r, s[x], InItem(cs[x]))
  BY <1>3, <1>7, WholeCallHand
<1> HIDE DEF cs, items
<1>9. HandsItems(r, s, items, of)
  BY <1>6, <1>7, <1>8, ListedHands
<1>10. QED
  BY <1>2, <1>5, <1>9

\* What Converted computes, block by block.
LEMMA ConvertedAre ==
    ASSUME NEW blocks, Len(blocks) \in Nat
    PROVE  \E so : /\ so[0] = [text |-> <<>>, reasoning |-> <<>>, output |-> <<>>]
                   /\ \A i \in 1 .. Len(blocks) : so[i] = Block(so[i - 1], blocks[i])
                   /\ Converted(blocks) = so[Len(blocks)]
<1> DEFINE Body(g, k) ==
             [i \in 0 .. k |-> IF i = 0 THEN [text |-> <<>>, reasoning |-> <<>>, output |-> <<>>] ELSE Block(g[i - 1], blocks[i])]
           Good == {k \in Nat : \E g : g = Body(g, k)}
           so == CHOOSE g : g = Body(g, Len(blocks))
<1>1. 0 \in Good
  <2>1. [i \in 0 .. 0 |-> [text |-> <<>>, reasoning |-> <<>>, output |-> <<>>]] = Body([i \in 0 .. 0 |-> [text |-> <<>>, reasoning |-> <<>>, output |-> <<>>]], 0)
    OBVIOUS
  <2>2. QED
    BY <2>1
<1>2. ASSUME NEW k \in Nat, k \in Good
      PROVE  k + 1 \in Good
  <2>1. PICK g : g = Body(g, k)
    BY <1>2
  <2> DEFINE h == [i \in 0 .. k + 1 |->
                     IF i <= k THEN g[i] ELSE Block(g[k], blocks[k + 1])]
  <2>2. ASSUME NEW i \in 0 .. k + 1
        PROVE  h[i] = Body(h, k + 1)[i]
    <3>1. CASE i = 0
      BY <2>1, <3>1
    <3>2. CASE i # 0 /\ i <= k
      <4>1. i - 1 \in 0 .. k + 1 /\ i - 1 <= k /\ i \in 0 .. k
        BY <3>2
      <4>2. h[i - 1] = g[i - 1] /\ h[i] = g[i]
        BY <3>2, <4>1
      <4>3. g[i] = Block(g[i - 1], blocks[i])
        BY <2>1, <3>2, <4>1
      <4>4. QED
        BY <3>2, <4>2, <4>3
    <3>3. CASE i = k + 1
      <4>1. i - 1 = k /\ i # 0 /\ ~(i <= k) /\ k \in 0 .. k + 1
        BY <3>3
      <4>2. h[i] = Block(g[k], blocks[k + 1]) /\ h[i - 1] = g[k]
        BY <3>3, <4>1
      <4>3. QED
        BY <3>3, <4>1, <4>2
    <3>4. QED
      BY <3>1, <3>2, <3>3
  <2>3. h = Body(h, k + 1)
    <3> HIDE DEF h
    <3>1. DOMAIN h = 0 .. k + 1 /\ h = [i \in 0 .. k + 1 |-> h[i]]
      BY DEF h
    <3>2. QED
      BY <2>2, <3>1
  <2>4. \E f : f = Body(f, k + 1)
    <3> HIDE DEF h, Body
    <3>1. QED
      BY <2>3
  <2>5. QED
    BY <2>4
<1>3. Nat \subseteq Good
  <2>1. \A k \in Nat : k \in Good => k + 1 \in Good
    BY <1>2
  <2> HIDE DEF Good
  <2>2. QED
    BY <1>1, <2>1, EveryNat
<1>4. so = Body(so, Len(blocks))
  <2>1. \E g : g = Body(g, Len(blocks))
    BY <1>3
  <2>2. QED
    BY <2>1
<1>5. Converted(blocks) = so[Len(blocks)]
  BY DEF Converted
<1> HIDE DEF so
<1>6. so[0] = [text |-> <<>>, reasoning |-> <<>>, output |-> <<>>]
  BY <1>4
<1>7. ASSUME NEW i \in 1 .. Len(blocks)
      PROVE  so[i] = Block(so[i - 1], blocks[i])
  BY <1>4
<1>8. QED
  BY <1>5, <1>6, <1>7

\* What is known of the blocks of an Anthropic answer, as they are gone through.
Gone(text, reasoning, output) == [text |-> text, reasoning |-> reasoning, output |-> output]
GoneOutput(a, v) == [a EXCEPT !.output = v]
GoneText(a, v) == [a EXCEPT !.text = v]
GoneReasoning(a, v) == [a EXCEPT !.reasoning = v]

Grew(new, old, kind) == \E x : new = Append(old, x) /\ x.kind = kind

LEMMA GoneWith ==
    ASSUME NEW t, NEW r, NEW o, NEW v
    PROVE  /\ GoneText(Gone(t, r, o), v) = Gone(v, r, o)
           /\ GoneReasoning(Gone(t, r, o), v) = Gone(t, v, o)
           /\ GoneOutput(Gone(t, r, o), v) = Gone(t, r, v)
<1>1. GoneText(Gone(t, r, o), v) = Gone(v, r, o)
  BY Z3 DEF Gone, GoneText
<1>2. GoneReasoning(Gone(t, r, o), v) = Gone(t, v, o)
  BY Z3 DEF Gone, GoneReasoning
<1>3. GoneOutput(Gone(t, r, o), v) = Gone(t, r, v)
  BY Z3 DEF Gone, GoneOutput
<1>4. QED
  BY <1>1, <1>2, <1>3

LEMMA GoneIs ==
    ASSUME NEW t, NEW r, NEW o
    PROVE  /\ Gone(t, r, o).text = t /\ Gone(t, r, o).reasoning = r
           /\ Gone(t, r, o).output = o
  BY DEF Gone

LEMMA Flushed ==
    ASSUME NEW t, NEW r, NEW o
    PROVE  \E u, p : /\ FlushText(Gone(t, r, o)) = Gone(u, r, p)
                     /\ p = o \/ Grew(p, o, "message")
<1> DEFINE x == Narrative("message", t)
           none == <<>>
           a == Gone(t, r, o)
<1>1. x.kind = "message"
  BY DEF Narrative
<1>2. CASE t = <<>>
  <2>1. FlushText(a) = a
    BY <1>2, GoneIs DEF FlushText
  <2>2. QED
    BY <2>1
<1>3. CASE t # <<>>
  <2>1. a.text = t /\ a.output = o
    BY GoneIs
  <2> HIDE DEF a
  <2>2. FlushText(a) = [a EXCEPT !.output = Append(o, x), !.text = none]
    BY <1>3, <2>1 DEF FlushText
  <2>3. FlushText(a) = GoneText(GoneOutput(a, Append(o, x)), none)
    BY <2>2 DEF GoneText, GoneOutput
  <2> HIDE DEF x, none
  <2>4. FlushText(a) = Gone(none, r, Append(o, x))
    BY <2>3, GoneWith DEF a
  <2>5. Grew(Append(o, x), o, "message")
    BY <1>1 DEF Grew
  <2>6. QED
    BY <2>4, <2>5 DEF a
<1>4. QED
  BY <1>2, <1>3

\* A block of text is held back, one of thinking is an item after it, and so is
\* a call: of output o comes p, when the text is flushed, then q.
Lifts(b, o, p, q) ==
    /\ p = o \/ Grew(p, o, "message")
    /\ CASE b.kind = "text" -> q = p
         [] b.kind = "thinking" -> Grew(q, p, "reasoning")
         [] b.kind = "tool_use" -> q = Append(p, Call(b.id, b.name, b.data))

LEMMA BlockIs ==
    ASSUME NEW t, NEW r, NEW o, NEW b, b.kind \in {"text", "thinking", "tool_use"}
    PROVE  \E u, v, p, q : Block(Gone(t, r, o), b) = Gone(u, v, q) /\ Lifts(b, o, p, q)
<1> DEFINE a == Gone(t, r, o)
<1>1. CASE b.kind = "text"
  <2>1. Block(a, b) = GoneText(a, a.text \o b.data)
    BY <1>1 DEF Block, GoneText
  <2>2. Block(a, b) = Gone(a.text \o b.data, r, o)
    BY <2>1, GoneWith
  <2>3. Lifts(b, o, o, o)
    BY <1>1 DEF Lifts
  <2>4. QED
    BY <2>2, <2>3
<1>2. PICK u, p : /\ FlushText(a) = Gone(u, r, p)
                  /\ p = o \/ Grew(p, o, "message")
  BY Flushed
<1>3. FlushText(a).output = p /\ FlushText(a).reasoning = r /\ a.reasoning = r
  <2>1. a.reasoning = r
    BY GoneIs
  <2> HIDE DEF a
  <2>2. FlushText(a).output = Gone(u, r, p).output
        /\ FlushText(a).reasoning = Gone(u, r, p).reasoning
    BY <1>2
  <2>3. QED
    BY <2>1, <2>2, GoneIs
<1> DEFINE f == FlushText(a)
<1>4. CASE b.kind = "thinking"
  <2> DEFINE v == r \o b.data
             x == Narrative("reasoning", v)
  <2>1. x.kind = "reasoning"
    BY DEF Narrative
  <2> HIDE DEF a
  <2>2. Block(a, b) = [f EXCEPT !.reasoning = v, !.output = Append(p, x)]
    BY <1>3, <1>4 DEF Block
  <2> HIDE DEF f
  <2>3. Block(a, b) = GoneOutput(GoneReasoning(f, v), Append(p, x))
    BY <2>2 DEF GoneReasoning, GoneOutput
  <2> HIDE DEF v, x
  <2>4. Block(a, b) = Gone(u, v, Append(p, x))
    BY <1>2, <2>3, GoneWith DEF f
  <2>5. Grew(Append(p, x), p, "reasoning")
    BY <2>1 DEF Grew
  <2>6. Lifts(b, o, p, Append(p, x))
    BY <1>2, <1>4, <2>5 DEF Lifts
  <2>7. QED
    BY <2>4, <2>6 DEF a
<1>5. CASE b.kind = "tool_use"
  <2> DEFINE x == Call(b.id, b.name, b.data)
  <2> HIDE DEF a
  <2>1. Block(a, b) = [f EXCEPT !.output = Append(p, x)]
    BY <1>3, <1>5 DEF Block
  <2> HIDE DEF x
  <2>2. Block(a, b) = GoneOutput(f, Append(p, x))
    BY <2>1 DEF GoneOutput
  <2>3. Block(a, b) = Gone(u, r, Append(p, x))
    BY <1>2, <2>2, GoneWith
  <2>4. Lifts(b, o, p, Append(p, x))
    BY <1>2, <1>5 DEF Lifts, x
  <2>5. QED
    BY <2>3, <2>4 DEF a
<1>6. QED
  BY <1>1, <1>4, <1>5

LEMMA AppendedIs ==
    ASSUME NEW T, NEW s \in Seq(T), NEW x
    PROVE  LET t == Append(s, x)
           IN  /\ t \in Seq(T \cup {x}) /\ Len(s) \in Nat
               /\ DOMAIN s = 1 .. Len(s) /\ DOMAIN t = 1 .. Len(s) + 1
               /\ t[Len(s) + 1] = x /\ \A i \in 1 .. Len(s) : t[i] = s[i]
<1>1. s \in Seq(T \cup {x}) /\ x \in T \cup {x}
  OBVIOUS
<1>2. QED
  BY <1>1

\* An item that is no call changes nothing for the calls.
LEMMA ListsOn ==
    ASSUME NEW T, NEW s \in Seq(T), NEW of, NEW cs, Lists(s, of, cs),
           NEW x, x.kind # "function_call"
    PROVE  Lists(Append(s, x), of, cs)
<1> DEFINE t == Append(s, x)
<1>1. /\ Len(s) \in Nat /\ DOMAIN s = 1 .. Len(s) /\ DOMAIN t = 1 .. Len(s) + 1
      /\ t[Len(s) + 1] = x /\ \A i \in 1 .. Len(s) : t[i] = s[i]
  BY AppendedIs
<1> HIDE DEF t
<1>2. Having(t, "function_call") = Having(s, "function_call")
  BY <1>1 DEF Having
<1>3. \A p \in Having(s, "function_call") : t[p] = s[p]
  BY <1>1 DEF Having
<1>4. Lists(t, of, cs)
  BY <1>2, <1>3 DEF Lists
<1>5. QED
  BY <1>4 DEF t

\* One that is adds its own.
LEMMA ListsMore ==
    ASSUME NEW T, NEW s \in Seq(T), NEW of, NEW cs, Lists(s, of, cs),
           NEW x, x.kind = "function_call", NEW j, j \notin DOMAIN cs,
           NEW ds, DOMAIN ds = DOMAIN cs \cup {j}, ds[j] = x,
           \A y \in DOMAIN cs : ds[y] = cs[y]
    PROVE  \E as : Lists(Append(s, x), as, ds)
<1> DEFINE t == Append(s, x)
           n == Len(s) + 1
           K == Having(s, "function_call")
           L == Having(t, "function_call")
           as == [p \in L |-> IF p = n THEN j ELSE of[p]]
<1>1. /\ Len(s) \in Nat /\ DOMAIN s = 1 .. Len(s) /\ DOMAIN t = 1 .. n
      /\ t[n] = x /\ \A i \in 1 .. Len(s) : t[i] = s[i]
  BY AppendedIs
<1> HIDE DEF t
<1>2. L = K \cup {n} /\ n \notin K /\ K \subseteq 1 .. Len(s)
  BY <1>1 DEF Having
<1>3. /\ \A p \in K : of[p] \in DOMAIN cs /\ s[p] = cs[of[p]]
      /\ \A p, q \in K : of[p] = of[q] => p = q
      /\ \A y \in DOMAIN cs : \E p \in K : of[p] = y
  BY DEF Lists
<1> HIDE DEF K, L, n
<1>4. as[n] = j /\ \A p \in K : as[p] = of[p]
  BY <1>2
<1> HIDE DEF as
<1>5. \A p \in L : as[p] \in DOMAIN ds /\ t[p] = ds[as[p]]
  <2>1. as[n] \in DOMAIN ds /\ t[n] = ds[as[n]]
    BY <1>1, <1>4
  <2>2. ASSUME NEW p \in K
        PROVE  as[p] \in DOMAIN ds /\ t[p] = ds[as[p]]
    <3>1. p \in 1 .. Len(s)
      BY <1>2
    <3>2. as[p] = of[p] /\ t[p] = s[p]
      BY <1>1, <1>4, <3>1
    <3>3. QED
      BY <1>3, <3>2
  <2>3. QED
    BY <1>2, <2>1, <2>2
<1>6. \A p, q \in L : as[p] = as[q] => p = q
  <2>1. \A p \in K : as[p] \in DOMAIN cs
    BY <1>3, <1>4
  <2>2. ASSUME NEW p \in K, NEW q \in K, as[p] = as[q]
        PROVE  p = q
    <3>1. as[p] = of[p] /\ as[q] = of[q]
      BY <1>4
    <3>2. of[p] = of[q]
      BY <2>2, <3>1
    <3>3. \A y, z \in K : of[y] = of[z] => y = z
      BY <1>3
    <3>4. QED
      BY <3>2, <3>3
  <2>3. QED
    BY <1>2, <1>4, <2>1, <2>2
<1>7. \A y \in DOMAIN ds : \E p \in L : as[p] = y
  BY <1>2, <1>3, <1>4
<1>8. Lists(t, as, ds)
  BY <1>5, <1>6, <1>7 DEF Lists, L
<1>9. QED
  BY <1>8 DEF t

\* The calls among the first k blocks.
Used(blocks, k) ==
    [j \in {i \in 1 .. k : blocks[i].kind = "tool_use"} |->
        Call(blocks[j].id, blocks[j].name, blocks[j].data)]

Lifted(a, blocks, k) ==
    \E t, r, o : /\ a = Gone(t, r, o)
                 /\ \E T : o \in Seq(T)
                 /\ \E of : Lists(o, of, Used(blocks, k))

LEMMA GrewOn ==
    ASSUME NEW p, NEW o, NEW kind, kind # "function_call", Grew(p, o, kind),
           \E T : o \in Seq(T), NEW cs, \E of : Lists(o, of, cs)
    PROVE  (\E T : p \in Seq(T)) /\ \E of : Lists(p, of, cs)
<1>1. PICK x : p = Append(o, x) /\ x.kind = kind
  BY DEF Grew
<1>2. PICK T : o \in Seq(T)
  OBVIOUS
<1>3. PICK of : Lists(o, of, cs)
  OBVIOUS
<1>4. p \in Seq(T \cup {x})
  BY <1>1, <1>2, AppendedIs
<1>5. Lists(p, of, cs)
  BY <1>1, <1>2, <1>3, ListsOn
<1>6. QED
  BY <1>4, <1>5

LEMMA LiftedBlock ==
    ASSUME NEW blocks, NEW k \in Nat, NEW a, Lifted(a, blocks, k),
           blocks[k + 1].kind \in {"text", "thinking", "tool_use"}
    PROVE  Lifted(Block(a, blocks[k + 1]), blocks, k + 1)
<1> DEFINE b == blocks[k + 1]
           cs == Used(blocks, k)
           ds == Used(blocks, k + 1)
<1>1. PICK t, r, o : /\ a = Gone(t, r, o)
                     /\ \E T : o \in Seq(T)
                     /\ \E of : Lists(o, of, cs)
  BY DEF Lifted
<1>2. PICK u, v, p, q : Block(a, b) = Gone(u, v, q) /\ Lifts(b, o, p, q)
  <2> HIDE DEF b
  <2>1. b.kind \in {"text", "thinking", "tool_use"}
    BY DEF b
  <2>2. \E u, v, p, q : Block(Gone(t, r, o), b) = Gone(u, v, q) /\ Lifts(b, o, p, q)
    BY <2>1, BlockIs
  <2>3. a = Gone(t, r, o)
    BY <1>1
  <2>4. QED
    BY <2>2, <2>3
<1>3. (\E T : p \in Seq(T)) /\ \E of : Lists(p, of, cs)
  <2>1. p = o \/ Grew(p, o, "message")
    BY <1>2 DEF Lifts
  <2>2. QED
    BY <1>1, <2>1, GrewOn
<1>4. \A j \in 1 .. k + 1 : j \in 1 .. k \/ j = k + 1
  OBVIOUS
<1>5. CASE b.kind # "tool_use"
  <2>1. ds = cs
    <3>1. {i \in 1 .. k + 1 : blocks[i].kind = "tool_use"} = {i \in 1 .. k : blocks[i].kind = "tool_use"}
      BY <1>4, <1>5
    <3>2. QED
      BY <3>1 DEF Used
  <2>2. q = p \/ Grew(q, p, "reasoning")
    BY <1>2, <1>5 DEF Lifts
  <2> HIDE DEF b, cs, ds
  <2>3. (\E T : q \in Seq(T)) /\ \E of : Lists(q, of, cs)
    BY <1>3, <2>2, GrewOn
  <2>4. QED
    BY <1>2, <2>1, <2>3 DEF Lifted, b, ds
<1>6. CASE b.kind = "tool_use"
  <2> DEFINE x == Call(b.id, b.name, b.data)
  <2>1. x.kind = "function_call"
    BY DEF Call
  <2>2. q = Append(p, x)
    BY <1>2, <1>6 DEF Lifts
  <2>3. /\ DOMAIN ds = DOMAIN cs \cup {k + 1} /\ k + 1 \notin DOMAIN cs /\ ds[k + 1] = x
        /\ \A y \in DOMAIN cs : ds[y] = cs[y]
    <3>1. /\ DOMAIN ds = {i \in 1 .. k + 1 : blocks[i].kind = "tool_use"}
          /\ DOMAIN cs = {i \in 1 .. k : blocks[i].kind = "tool_use"}
      BY DEF Used
    <3>2. DOMAIN ds = DOMAIN cs \cup {k + 1} /\ k + 1 \notin DOMAIN cs
      BY <1>4, <1>6, <3>1
    <3>3. /\ \A y \in DOMAIN ds : ds[y] = Call(blocks[y].id, blocks[y].name, blocks[y].data)
          /\ \A y \in DOMAIN cs : cs[y] = Call(blocks[y].id, blocks[y].name, blocks[y].data)
      BY DEF Used
    <3> HIDE DEF cs, ds
    <3>4. QED
      BY <3>2, <3>3
  <2> HIDE DEF x, cs, ds
  <2>4. PICK T : p \in Seq(T)
    BY <1>3
  <2>5. PICK of : Lists(p, of, cs)
    BY <1>3
  <2>6. \E as : Lists(q, as, ds)
    BY <2>1, <2>2, <2>3, <2>4, <2>5, ListsMore
  <2>7. q \in Seq(T \cup {x})
    BY <2>2, <2>4, AppendedIs
  <2>8. QED
    BY <1>2, <2>6, <2>7 DEF Lifted, ds
<1>7. QED
  BY <1>5, <1>6

LEMMA ConvertedLifts ==
    ASSUME NEW blocks, Len(blocks) \in Nat,
           \A j \in 1 .. Len(blocks) : blocks[j].kind \in {"text", "thinking", "tool_use"}
    PROVE  Lifted(Converted(blocks), blocks, Len(blocks))
<1>1. PICK so : /\ so[0] = [text |-> <<>>, reasoning |-> <<>>, output |-> <<>>]
                /\ \A i \in 1 .. Len(blocks) : so[i] = Block(so[i - 1], blocks[i])
                /\ Converted(blocks) = so[Len(blocks)]
  BY ConvertedAre
<1> DEFINE Good == {k \in Nat : k <= Len(blocks) => Lifted(so[k], blocks, k)}
<1>2. 0 \in Good
  <2> DEFINE none == <<>>
             cs == Used(blocks, 0)
  <2>1. so[0] = Gone(none, none, none)
    BY <1>1 DEF Gone
  <2>2. none \in Seq({})
    OBVIOUS
  <2>3. DOMAIN cs = {}
    BY DEF Used
  <2>4. Having(none, "function_call") = {}
    BY DEF Having
  <2> HIDE DEF none, cs
  <2>5. Lists(none, none, cs)
    BY <2>3, <2>4 DEF Lists
  <2>6. Lifted(so[0], blocks, 0)
    BY <2>1, <2>2, <2>5 DEF Lifted, cs
  <2>7. QED
    BY <2>6
<1>3. ASSUME NEW k \in Nat, k \in Good
      PROVE  k + 1 \in Good
  <2>1. SUFFICES ASSUME k + 1 <= Len(blocks) PROVE Lifted(so[k + 1], blocks, k + 1)
    OBVIOUS
  <2>2. k <= Len(blocks) /\ k + 1 \in 1 .. Len(blocks) /\ (k + 1) - 1 = k
    BY <2>1
  <2>3. Lifted(so[k], blocks, k) /\ so[k + 1] = Block(so[k], blocks[k + 1])
    BY <1>1, <1>3, <2>2
  <2>4. QED
    BY <2>2, <2>3, LiftedBlock
<1>4. Nat \subseteq Good
  <2>1. \A k \in Nat : k \in Good => k + 1 \in Good
    BY <1>3
  <2> HIDE DEF Good
  <2>2. QED
    BY <1>2, <2>1, EveryNat
<1>5. Lifted(so[Len(blocks)], blocks, Len(blocks))
  BY <1>4
<1>6. QED
  BY <1>1, <1>5

\* The blocks of an Anthropic answer: its calls in a row, among others.
InARow(blocks, s, b) ==
    /\ Len(blocks) \in Nat /\ b \in Nat
    /\ \A j \in 1 .. Len(blocks) : /\ blocks[j].kind \in {"text", "thinking", "tool_use"}
                                   /\ blocks[j].kind = "tool_use" => j - b \in DOMAIN s
    /\ \A x \in DOMAIN s : /\ b + x \in 1 .. Len(blocks)
                           /\ blocks[b + x].kind = "tool_use"
                           /\ blocks[b + x].id = Id(s[x]) /\ blocks[b + x].name = s[x].name
                           /\ blocks[b + x].data = <<Piece(s[x], 1)>>

LEMMA SeqOfIs ==
    ASSUME NEW S, NEW n \in Nat, NEW s \in SeqOf(S, n)
    PROVE  s \in Seq(S)
<1>1. PICK m \in 0 .. n : s \in [1 .. m -> S]
  BY DEF SeqOf
<1>2. QED
  BY <1>1

LEMMA BlocksAre ==
    ASSUME NEW s \in Answers, NEW blocks \in Blocks(s)
    PROVE  \E b : InARow(blocks, s, b)
<1> DEFINE other == {[kind |-> k, id |-> NoId, name |-> NoName, data |-> <<1>>] :
                        k \in {"text", "thinking"}}
           block(c) == [kind |-> "tool_use", id |-> Id(c), name |-> c.name,
                        data |-> <<Piece(c, 1)>>]
           used == [i \in DOMAIN s |-> block(s[i])]
           mine == {block(s[i]) : i \in DOMAIN s}
           all == other \cup mine
           n == Len(s)
<1>1. PICK before \in SeqOf(other, 2) : \E after \in SeqOf(other, 1) :
              blocks = before \o used \o after
  BY DEF Blocks
<1>2. PICK after \in SeqOf(other, 1) : blocks = before \o used \o after
  BY <1>1
<1>3. n \in Nat /\ DOMAIN s = 1 .. n
  BY AnswersAre
<1>4. before \in Seq(other) /\ after \in Seq(other)
  <2> HIDE DEF other
  <2>1. QED
    BY SeqOfIs
<1>5. used \in Seq(mine) /\ Len(used) = n /\ \A i \in DOMAIN s : used[i] = block(s[i])
  BY <1>3
<1>6. \A o \in other : o.kind \in {"text", "thinking"}
  OBVIOUS
<1>7. \A i \in DOMAIN s : /\ used[i].kind = "tool_use" /\ used[i].id = Id(s[i])
                          /\ used[i].name = s[i].name /\ used[i].data = <<Piece(s[i], 1)>>
  BY <1>5
<1> HIDE DEF other, mine, used, n
<1>8. before \in Seq(all) /\ after \in Seq(all) /\ used \in Seq(all)
  BY <1>4, <1>5
<1> HIDE DEF all
<1> DEFINE front == before \o used
           b == Len(before)
           a == Len(after)
<1>9. /\ front \in Seq(all) /\ Len(front) = b + n /\ b \in Nat
      /\ \A i \in 1 .. b : front[i] = before[i]
      /\ \A i \in b + 1 .. b + n : front[i] = used[i - b] /\ i - b \in 1 .. n
  BY <1>5, <1>8, Joined
<1> HIDE DEF front
<1>10. /\ Len(blocks) = b + n + a /\ a \in Nat
       /\ \A i \in 1 .. b + n : blocks[i] = front[i]
       /\ \A i \in b + n + 1 .. b + n + a :
             blocks[i] = after[i - (b + n)] /\ i - (b + n) \in 1 .. a
  <2>1. blocks = front \o after
    BY <1>2 DEF front
  <2>2. /\ Len(front \o after) = Len(front) + a /\ a \in Nat
        /\ \A i \in 1 .. Len(front) : (front \o after)[i] = front[i]
        /\ \A i \in Len(front) + 1 .. Len(front) + a :
              (front \o after)[i] = after[i - Len(front)] /\ i - Len(front) \in 1 .. a
    <3>1. front \in Seq(all) /\ after \in Seq(all)
      BY <1>8, <1>9
    <3>2. QED
      BY <3>1, Joined
  <2>3. QED
    BY <1>9, <2>1, <2>2
<1>11. /\ \A i \in 1 .. b : before[i].kind \in {"text", "thinking"}
       /\ \A i \in 1 .. a : after[i].kind \in {"text", "thinking"}
  BY <1>4, <1>6
<1> HIDE DEF a, b
<1>12. ASSUME NEW j \in 1 .. Len(blocks)
       PROVE  /\ blocks[j].kind \in {"text", "thinking", "tool_use"}
              /\ blocks[j].kind = "tool_use" => j - b \in DOMAIN s
  <2>1. CASE j \in 1 .. b
    <3>1. j \in 1 .. b + n
      BY <1>3, <1>9, <2>1
    <3>2. blocks[j] = before[j]
      BY <1>9, <1>10, <2>1, <3>1
    <3>3. blocks[j].kind \in {"text", "thinking"}
      BY <1>11, <2>1, <3>2
    <3>4. QED
      BY <3>3
  <2>2. CASE j \in b + 1 .. b + n
    <3>1. j \in 1 .. b + n
      BY <1>3, <1>9, <2>2
    <3>2. blocks[j] = used[j - b] /\ j - b \in 1 .. n
      BY <1>9, <1>10, <2>2, <3>1
    <3>3. blocks[j].kind = "tool_use" /\ j - b \in DOMAIN s
      BY <1>3, <1>7, <3>2
    <3>4. QED
      BY <3>3
  <2>3. CASE j \in b + n + 1 .. b + n + a
    <3>1. blocks[j] = after[j - (b + n)] /\ j - (b + n) \in 1 .. a
      BY <1>10, <2>3
    <3>2. blocks[j].kind \in {"text", "thinking"}
      BY <1>11, <3>1
    <3>3. QED
      BY <3>2
  <2>4. QED
    BY <1>3, <1>9, <1>10, <2>1, <2>2, <2>3
<1>13. ASSUME NEW x \in DOMAIN s
       PROVE  /\ b + x \in 1 .. Len(blocks) /\ blocks[b + x] = used[x]
  <2>1. b + x \in b + 1 .. b + n /\ b + x \in 1 .. b + n /\ (b + x) - b = x
    BY <1>3, <1>9
  <2>2. QED
    BY <1>3, <1>9, <1>10, <2>1
<1>14. Len(blocks) \in Nat
  BY <1>3, <1>9, <1>10
<1>15. InARow(blocks, s, b)
  BY <1>7, <1>9, <1>12, <1>13, <1>14 DEF InARow
<1>16. QED
  BY <1>15

LEMMA NativeAnswerHanded ==
    ASSUME NEW r, r.lane # "chat", r.form # "aggregated", NEW s \in Answers, NEW f,
           PlainAnthropic(s, f)
    PROVE  /\ \E T : response'.items \in Seq(T)
           /\ \E whose : HandsItems(r, s, response'.items, whose)
<1>1. PICK blocks \in Blocks(s) :
         response' = ConvertAnthropicResponseToResponses(blocks, anthropicReason(f))
  BY DEF PlainAnthropic
<1>2. PICK b : InARow(blocks, s, b)
  BY BlocksAre
<1>3. /\ Len(blocks) \in Nat /\ b \in Nat
      /\ \A j \in 1 .. Len(blocks) : /\ blocks[j].kind \in {"text", "thinking", "tool_use"}
                                     /\ blocks[j].kind = "tool_use" => j - b \in DOMAIN s
      /\ \A x \in DOMAIN s : /\ b + x \in 1 .. Len(blocks)
                             /\ blocks[b + x].kind = "tool_use"
                             /\ blocks[b + x].id = Id(s[x]) /\ blocks[b + x].name = s[x].name
                             /\ blocks[b + x].data = <<Piece(s[x], 1)>>
  BY <1>2 DEF InARow
<1>4. /\ Len(s) \in Nat /\ DOMAIN s = 1 .. Len(s)
      /\ \A x \in DOMAIN s : s[x] \in Calls /\ s[x].named /\ s[x].at = 1
  BY AnswersAre
<1> DEFINE c == Converted(blocks)
           cs == Used(blocks, Len(blocks))
           items == FlushText(c).output
<1>5. response'.items = items
  <2> DEFINE st == IF anthropicReason(f) = "max_tokens" THEN "incomplete" ELSE "completed"
  <2>1. response' = Whole(st, items)
    BY <1>1 DEF ConvertAnthropicResponseToResponses
  <2> HIDE DEF st, items
  <2>2. QED
    BY <2>1, WholeIs
<1>6. (\E T : items \in Seq(T)) /\ \E of : Lists(items, of, cs)
  <2>1. PICK t, v, o : /\ c = Gone(t, v, o)
                       /\ \E T : o \in Seq(T)
                       /\ \E of : Lists(o, of, cs)
    BY <1>3, ConvertedLifts DEF Lifted
  <2>2. \E u, p : /\ FlushText(Gone(t, v, o)) = Gone(u, v, p)
                  /\ p = o \/ Grew(p, o, "message")
    BY Flushed
  <2>3. PICK u, p : /\ FlushText(Gone(t, v, o)) = Gone(u, v, p)
                    /\ p = o \/ Grew(p, o, "message")
    BY <2>2
  <2>4. items = p
    <3>1. items = Gone(u, v, p).output
      BY <2>1, <2>3
    <3>2. QED
      BY <3>1, GoneIs
  <2> HIDE DEF items, cs
  <2>5. (\E T : p \in Seq(T)) /\ \E of : Lists(p, of, cs)
    BY <2>1, <2>3, GrewOn
  <2>6. QED
    BY <2>4, <2>5
<1>7. PICK of : Lists(items, of, cs)
  BY <1>6
<1>8. /\ DOMAIN cs = {j \in 1 .. Len(blocks) : blocks[j].kind = "tool_use"}
      /\ \A j \in DOMAIN cs : cs[j] = Call(blocks[j].id, blocks[j].name, blocks[j].data)
  BY DEF Used
<1> DEFINE K == Having(items, "function_call")
           whose == [p \in K |-> of[p] - b]
<1> HIDE DEF items, cs
<1>9. /\ \A p \in K : of[p] \in DOMAIN cs /\ items[p] = cs[of[p]]
      /\ \A p, q \in K : of[p] = of[q] => p = q
      /\ \A j \in DOMAIN cs : \E p \in K : of[p] = j
  BY <1>7 DEF Lists
<1>10. ASSUME NEW p \in K
       PROVE  /\ whose[p] \in DOMAIN s /\ of[p] = b + whose[p]
              /\ Hand(r, s[whose[p]], InItem(items[p]))
  <2>1. of[p] \in 1 .. Len(blocks) /\ whose[p] = of[p] - b
    BY <1>8, <1>9
  <2>2. whose[p] \in DOMAIN s
    BY <1>3, <1>8, <1>9, <2>1
  <2>3. of[p] = b + whose[p]
    <3>1. of[p] \in Int /\ b \in Int
      BY <1>3, <2>1
    <3>2. QED
      BY <2>1, <3>1
  <2> DEFINE x == whose[p]
  <2>4. items[p] = Call(blocks[b + x].id, blocks[b + x].name, blocks[b + x].data)
    BY <1>8, <1>9, <2>3
  <2>5. items[p] = Call(Id(s[x]), s[x].name, <<Piece(s[x], 1)>>)
    BY <1>3, <2>2, <2>4
  <2>6. s[x] \in Calls /\ s[x].named /\ s[x].at = 1
    BY <1>4, <2>2
  <2>7. Hand(r, s[x], InItem(Call(Id(s[x]), s[x].name, <<Piece(s[x], 1)>>)))
    BY <2>6, WholeCallHand
  <2>8. QED
    BY <2>2, <2>3, <2>5, <2>7
<1>11. \A p, q \in K : whose[p] = whose[q] => p = q
  <2> HIDE DEF K, whose
  <2>1. ASSUME NEW p \in K, NEW q \in K, whose[p] = whose[q]
        PROVE  p = q
    <3>1. of[p] = of[q]
      BY <1>10, <2>1
    <3>2. \A y, z \in K : of[y] = of[z] => y = z
      BY <1>9
    <3>3. QED
      BY <3>1, <3>2
  <2>2. QED
    BY <2>1
<1>12. ASSUME NEW x \in DOMAIN s
       PROVE  \E p \in K : whose[p] = x
  <2>1. b + x \in DOMAIN cs
    BY <1>3, <1>8
  <2>2. PICK p \in K : of[p] = b + x
    BY <1>9, <2>1
  <2>3. x \in Int /\ b \in Int /\ whose[p] = (b + x) - b
    BY <1>3, <1>4, <2>2
  <2>4. QED
    BY <2>2, <2>3
<1> HIDE DEF whose, K
<1>13. HandsItems(r, s, items, whose)
  BY <1>10, <1>11, <1>12 DEF HandsItems, K
<1>14. QED
  BY <1>5, <1>6, <1>13

LEMMA AnswerHanded ==
    ASSUME WireInv, Answered
    PROVE  InItems'
<1>1. SUFFICES ASSUME Responses'
               PROVE  /\ Numbered(sent')
                      /\ \E T : response'.items \in Seq(T)
                      /\ \E whose : HandsItems(request', sent', response'.items, whose)
  BY DEF InItems
<1>2. request' = request /\ request.form = "plain" /\ request.lane # "chat"
  BY <1>1 DEF Answered, Responses
<1>3. PICK s \in Answers : \E f \in {"stop", "tool_calls", "length"} :
                 /\ IF request.lane = "native" THEN PlainAnthropic(s, f)
                    ELSE PlainChat(s, f)
                 /\ sent' = s
  BY AnsweredWhole
<1>4. PICK f : (PlainAnthropic(s, f) \/ PlainChat(s, f)) /\ sent' = s
  BY <1>3
<1>5. Numbered(sent')
  BY <1>4, AnswersAre
<1>6. /\ \E T : response'.items \in Seq(T)
      /\ \E whose : HandsItems(request, s, response'.items, whose)
  BY <1>2, <1>4, ChatAnswerHanded, NativeAnswerHanded
<1>7. QED
  BY <1>2, <1>4, <1>5, <1>6

----------------------------------------------------------------------------
(* What is gathered of the fragments.                                      *)

Given == Called \cup {"declared"}
Frags == [index : Nat, id : Ids, name : Given, args : Seq(Parts)]

\* A call, as far as sent, in one fragment.
EntryOf(call) == Fragment(call, Args(call), call.named)

Merged(entry, frag) ==
    [entry EXCEPT !.id = Or(frag.id, NoId, @), !.name = Or(frag.name, NoName, @),
                  !.args = @ \o frag.args]

Distinct(calls) ==
    \A k, l \in DOMAIN calls : calls[k].index = calls[l].index => k = l

LEMMA FragIs ==
    ASSUME NEW frag \in Frags
    PROVE  /\ frag.index \in Nat /\ frag.id \in Ids /\ frag.name \in Given
           /\ frag.args \in Seq(Parts)
           /\ frag = [index |-> frag.index, id |-> frag.id, name |-> frag.name,
                      args |-> frag.args]
  BY DEF Frags

LEMMA MergedIs ==
    ASSUME NEW e \in Frags, NEW f \in Frags
    PROVE  Merged(e, f) = [index |-> e.index, id |-> IF f.id = NoId THEN e.id ELSE f.id,
                           name |-> IF f.name = NoName THEN e.name ELSE f.name,
                           args |-> e.args \o f.args]
<1> DEFINE i == IF f.id = NoId THEN e.id ELSE f.id
           n == IF f.name = NoName THEN e.name ELSE f.name
           a == e.args \o f.args
<1>1. Merged(e, f) = [e EXCEPT !.id = i, !.name = n, !.args = a]
  BY DEF Merged, Or
<1> HIDE DEF i, n, a
<1>2. QED
  BY <1>1 DEF Frags, i, n, a

LEMMA MergedFrag ==
    ASSUME NEW e \in Frags, NEW f \in Frags
    PROVE  Merged(e, f) \in Frags
<1>1. e.args \o f.args \in Seq(Parts)
  BY FragIs
<1> DEFINE i == IF f.id = NoId THEN e.id ELSE f.id
           n == IF f.name = NoName THEN e.name ELSE f.name
           a == e.args \o f.args
<1>2. i \in Ids /\ n \in Given /\ e.index \in Nat
  BY FragIs
<1>3. Merged(e, f) = [index |-> e.index, id |-> i, name |-> n, args |-> a]
  BY MergedIs
<1> HIDE DEF i, n, a
<1>4. a \in Seq(Parts)
  BY <1>1 DEF a
<1>5. QED
  BY <1>2, <1>3, <1>4 DEF Frags

\* The fragment begins an entry.
LEMMA Begins ==
    ASSUME NEW calls \in Seq(Frags), NEW frag \in Frags,
           \A k \in DOMAIN calls : calls[k].index # frag.index
    PROVE  /\ appendTool(calls, frag) = Append(calls, frag)
           /\ appendTool(calls, frag) \in Seq(Frags)
<1>1. appendTool(calls, frag) = Append(calls, frag)
  BY DEF appendTool
<1>2. Append(calls, frag) \in Seq(Frags)
  OBVIOUS
<1>3. QED
  BY <1>1, <1>2

\* It goes to the entry of its index.
LEMMA Adds ==
    ASSUME NEW calls \in Seq(Frags), Distinct(calls), NEW frag \in Frags,
           NEW k \in DOMAIN calls, calls[k].index = frag.index
    PROVE  LET d == appendTool(calls, frag)
           IN  /\ d \in Seq(Frags) /\ DOMAIN d = DOMAIN calls /\ Len(d) = Len(calls)
               /\ d[k] = Merged(calls[k], frag)
               /\ \A l \in DOMAIN calls : l # k => d[l] = calls[l]
<1> DEFINE d == appendTool(calls, frag)
<1>1. d = [l \in DOMAIN calls |->
             IF calls[l].index # frag.index THEN calls[l] ELSE Merged(calls[l], frag)]
  BY DEF appendTool, Merged
<1> HIDE DEF d
<1>2. \A l \in DOMAIN calls : l # k => calls[l].index # frag.index
  BY DEF Distinct
<1>3. /\ DOMAIN d = DOMAIN calls /\ d[k] = Merged(calls[k], frag)
      /\ \A l \in DOMAIN calls : l # k => d[l] = calls[l]
  BY <1>1, <1>2
<1>4. DOMAIN calls = 1 .. Len(calls) /\ Len(calls) \in Nat
      /\ \A l \in DOMAIN calls : calls[l] \in Frags
  OBVIOUS
<1>5. \A l \in DOMAIN calls : d[l] \in Frags
  BY <1>3, <1>4, MergedFrag
<1>6. d \in Seq(Frags) /\ Len(d) = Len(calls)
  <2>1. d = [l \in 1 .. Len(calls) |-> d[l]]
    BY <1>1, <1>4
  <2>2. QED
    BY <1>4, <1>5, <2>1, IsASeq
<1>7. QED
  BY <1>3, <1>6 DEF d

LEMMA EntryIs ==
    ASSUME NEW call \in Calls
    PROVE  /\ EntryOf(call) \in Frags
           /\ EntryOf(call) = [index |-> call.index, id |-> IF call.named THEN Id(call) ELSE NoId,
                               name |-> IF call.named THEN call.name ELSE NoName,
                               args |-> Args(call)]
           /\ call.at \in {0, 1} => First(call) = EntryOf(call)
           /\ call.at < call.size => Following(call) \in Frags
<1> DEFINE i == IF call.named THEN Id(call) ELSE NoId
           n == IF call.named THEN call.name ELSE NoName
           a == Args(call)
           one == <<Piece(call, call.at + 1)>>
           j == IF ~call.named THEN Id(call) ELSE NoId
           m == IF ~call.named THEN call.name ELSE NoName
<1>1. EntryOf(call) = [index |-> call.index, id |-> i, name |-> n, args |-> a]
  BY DEF EntryOf, Fragment
<1>2. call.index \in Nat /\ i \in Ids /\ n \in Given /\ a \in Seq(Parts)
      /\ j \in Ids /\ m \in Given
  <2>1. call.index \in Nat
    BY DEF Calls
  <2>2. Id(call) \in Ids /\ NoId \in Ids /\ call.name \in Given /\ NoName \in Given
    BY FragmentsAre DEF Given
  <2>3. Args(call) \in Seq(Parts)
    BY ArgsAre
  <2>4. QED
    BY <2>1, <2>2, <2>3
<1>3. call.at \in {0, 1} => First(call) = EntryOf(call)
  <2>1. SUFFICES ASSUME call.at \in {0, 1} PROVE First(call) = EntryOf(call)
    OBVIOUS
  <2>2. a = IF call.at = 0 THEN <<>> ELSE <<Piece(call, 1)>>
    BY <2>1, ArgsAre
  <2> HIDE DEF a
  <2>3. First(call) = Fragment(call, a, call.named)
    BY <2>2 DEF First
  <2>4. QED
    BY <2>3 DEF EntryOf, a
<1>4. call.at < call.size => Following(call) \in Frags
  <2>1. SUFFICES ASSUME call.at < call.size PROVE Following(call) \in Frags
    OBVIOUS
  <2>2. one \in Seq(Parts)
    <3>1. Piece(call, call.at + 1) \in Parts
      BY <2>1, FurtherIs
    <3>2. QED
      BY <3>1
  <2>3. Following(call) = [index |-> call.index, id |-> j, name |-> m, args |-> one]
    BY DEF Following, Fragment
  <2> HIDE DEF one, j, m
  <2>4. QED
    BY <1>2, <2>2, <2>3 DEF Frags
<1> HIDE DEF i, n, a
<1>5. EntryOf(call) \in Frags
  BY <1>1, <1>2 DEF Frags
<1>6. QED
  BY <1>1, <1>3, <1>4, <1>5 DEF i, n, a

\* The next fragment of a call brings its entry up to it.
LEMMA EntryFurther ==
    ASSUME NEW call \in Calls, call.at < call.size
    PROVE  Merged(EntryOf(call), Following(call)) = EntryOf(Further(call))
<1> DEFINE e == EntryOf(call)
           f == Following(call)
           more == Further(call)
<1>1. e \in Frags /\ f \in Frags
  BY EntryIs
<1>2. /\ e.index = call.index /\ e.args = Args(call)
      /\ e.id = (IF call.named THEN Id(call) ELSE NoId)
      /\ e.name = (IF call.named THEN call.name ELSE NoName)
  BY EntryIs
<1>3. /\ f.args = <<Piece(call, call.at + 1)>>
      /\ f.id = (IF call.named THEN NoId ELSE Id(call))
      /\ f.name = (IF call.named THEN NoName ELSE call.name)
      /\ Id(call) # NoId /\ call.name # NoName
  BY FragmentsAre
<1>4. /\ more \in Calls /\ more.index = call.index /\ more.name = call.name /\ more.named
      /\ Args(more) = Args(call) \o <<Piece(call, call.at + 1)>>
  BY FurtherIs
<1>5. Id(more) = Id(call)
  BY <1>4 DEF Id
<1>6. EntryOf(more) = [index |-> call.index, id |-> Id(call), name |-> call.name,
                       args |-> Args(more)]
  BY <1>4, <1>5, EntryIs
<1> HIDE DEF e, f, more
<1>7. Merged(e, f) = [index |-> e.index, id |-> IF f.id = NoId THEN e.id ELSE f.id,
                      name |-> IF f.name = NoName THEN e.name ELSE f.name,
                      args |-> e.args \o f.args]
  BY <1>1, MergedIs
<1>8. (IF f.id = NoId THEN e.id ELSE f.id) = Id(call)
  BY <1>2, <1>3
<1>9. (IF f.name = NoName THEN e.name ELSE f.name) = call.name
  BY <1>2, <1>3
<1>10. e.args \o f.args = Args(more)
  BY <1>2, <1>3, <1>4
<1>11. Merged(e, f) = EntryOf(more)
  BY <1>2, <1>6, <1>7, <1>8, <1>9, <1>10
<1>12. QED
  BY <1>11 DEF e, f, more

\* All that was sent is there.
AllEntries(calls, s) ==
    /\ calls \in Seq(Frags) /\ Len(calls) = Len(s)
    /\ \A x \in DOMAIN s : calls[x] = EntryOf(s[x])

LEMMA AllEntriesBegun ==
    ASSUME NEW s, Numbered(s), NEW calls, AllEntries(calls, s),
           NEW b \in Beginnings(Len(s) + 1)
    PROVE  AllEntries(appendTool(calls, First(b)), Append(s, b))
<1> DEFINE n == Len(s)
           t == Append(s, b)
           d == appendTool(calls, First(b))
<1>1. /\ n \in Nat /\ s \in Seq(Calls) /\ DOMAIN s = 1 .. n /\ calls \in Seq(Frags)
      /\ DOMAIN calls = 1 .. n /\ Len(calls) = n
      /\ \A x \in 1 .. n : s[x] \in Calls /\ s[x].index = x /\ calls[x] = EntryOf(s[x])
  BY DEF Numbered, AllEntries
<1>2. b \in Calls /\ b.index = n + 1 /\ b.at \in {0, 1}
  BY <1>1, BeginningsAre
<1>3. First(b) = EntryOf(b) /\ First(b) \in Frags /\ First(b).index = n + 1
  BY <1>2, EntryIs, FragmentsAre
<1>4. \A x \in 1 .. n : calls[x].index # n + 1
  BY <1>1, EntryIs
<1>5. d = Append(calls, First(b)) /\ d \in Seq(Frags)
  BY <1>1, <1>3, <1>4, Begins
<1>6. /\ DOMAIN t = 1 .. n + 1 /\ t[n + 1] = b /\ \A x \in 1 .. n : t[x] = s[x]
      /\ Len(t) = n + 1
  BY <1>1, <1>2
<1>7. /\ Len(d) = n + 1 /\ d[n + 1] = First(b) /\ \A x \in 1 .. n : d[x] = calls[x]
  BY <1>1, <1>3, <1>5
<1> HIDE DEF d, t
<1>8. ASSUME NEW x \in 1 .. n + 1
      PROVE  d[x] = EntryOf(t[x])
  <2>1. CASE x = n + 1
    BY <1>3, <1>6, <1>7, <2>1
  <2>2. CASE x \in 1 .. n
    BY <1>1, <1>6, <1>7, <2>2
  <2>3. QED
    BY <1>1, <2>1, <2>2
<1>9. AllEntries(d, t)
  BY <1>5, <1>6, <1>7, <1>8 DEF AllEntries
<1>10. QED
  BY <1>9 DEF d, t

LEMMA AllEntriesContinued ==
    ASSUME NEW s, Numbered(s), NEW calls, AllEntries(calls, s),
           NEW i \in DOMAIN s, s[i].at < s[i].size
    PROVE  AllEntries(appendTool(calls, Following(s[i])), [s EXCEPT ![i] = Further(s[i])])
<1> DEFINE n == Len(s)
           t == [s EXCEPT ![i] = Further(s[i])]
           f == Following(s[i])
           d == appendTool(calls, f)
<1>1. /\ n \in Nat /\ s \in Seq(Calls) /\ DOMAIN s = 1 .. n /\ calls \in Seq(Frags)
      /\ DOMAIN calls = 1 .. n /\ Len(calls) = n
      /\ \A x \in 1 .. n : s[x] \in Calls /\ s[x].index = x /\ calls[x] = EntryOf(s[x])
  BY DEF Numbered, AllEntries
<1>2. \A x \in 1 .. n : calls[x].index = x
  BY <1>1, EntryIs
<1>3. f \in Frags /\ f.index = i
  BY <1>1, EntryIs, FragmentsAre
<1>4. Distinct(calls)
  BY <1>1, <1>2 DEF Distinct
<1> HIDE DEF f
<1>5. /\ d \in Seq(Frags) /\ Len(d) = n
      /\ d[i] = Merged(calls[i], f)
      /\ \A l \in 1 .. n : l # i => d[l] = calls[l]
  BY <1>1, <1>2, <1>3, <1>4, Adds
<1>6. d[i] = EntryOf(Further(s[i]))
  BY <1>1, <1>5, EntryFurther DEF f
<1>7. /\ Len(t) = n /\ DOMAIN t = 1 .. n /\ t[i] = Further(s[i])
      /\ \A x \in 1 .. n : x # i => t[x] = s[x]
  BY <1>1
<1> HIDE DEF d, t
<1>8. \A x \in 1 .. n : d[x] = EntryOf(t[x])
  BY <1>1, <1>5, <1>6, <1>7
<1>9. AllEntries(d, t)
  BY <1>5, <1>7, <1>8 DEF AllEntries
<1>10. QED
  BY <1>9 DEF d, t, f

LEMMA AllEntriesSent ==
    ASSUME NEW s, Numbered(s), NEW calls, AllEntries(calls, s), NEW frags, NEW t,
           Sending(s, frags, t)
    PROVE  AllEntries(appendTools(calls, frags), t)
<1>1. s \in Seq(Calls) /\ Len(s) + 1 \in Nat /\ Len(s) + 2 \in Nat
  BY DEF Numbered
<1>2. CASE frags = <<>> /\ t = s
  BY <1>2, AppendedOf
<1>3. CASE \E b \in Beginnings(Len(s) + 1) : frags = <<First(b)>> /\ t = Append(s, b)
  BY <1>3, AppendedOf, AllEntriesBegun
<1>4. ASSUME NEW b \in Beginnings(Len(s) + 1), NEW c \in Beginnings(Len(s) + 2),
             frags = <<First(b), First(c)>>, t = s \o <<b, c>>
      PROVE  AllEntries(appendTools(calls, frags), t)
  <2> DEFINE one == appendTool(calls, First(b))
             u == Append(s, b)
  <2>1. Len(frags) = 2 /\ frags[1] = First(b) /\ frags[2] = First(c)
    BY <1>4
  <2>2. appendTools(calls, frags) = appendTool(one, First(c))
    BY <2>1, AppendedOfTwo
  <2>3. b \in Calls /\ c \in Calls
    BY <1>1, BeginningsAre
  <2>4. Numbered(u) /\ AllEntries(one, u)
    BY CallBegun, AllEntriesBegun
  <2>5. Len(u) + 1 = Len(s) + 2
    BY <1>1, <2>3
  <2>6. t = Append(u, c)
    BY <1>1, <1>4, <2>3, Two
  <2> HIDE DEF one, u
  <2>7. AllEntries(appendTool(one, First(c)), Append(u, c))
    BY <2>4, <2>5, AllEntriesBegun
  <2>8. QED
    BY <2>2, <2>6, <2>7
<1>5. ASSUME NEW i \in DOMAIN s, s[i].at < s[i].size, frags = <<Following(s[i])>>,
             t = [s EXCEPT ![i] = Further(s[i])]
      PROVE  AllEntries(appendTools(calls, frags), t)
  <2>1. appendTools(calls, frags) = appendTool(calls, Following(s[i]))
    BY <1>5, AppendedOf
  <2>2. AllEntries(appendTool(calls, Following(s[i])), [s EXCEPT ![i] = Further(s[i])])
    BY <1>5, AllEntriesContinued
  <2>3. QED
    BY <1>5, <2>1, <2>2, Zenon
<1>6. QED
  BY <1>2, <1>3, <1>4, <1>5 DEF Sending

\* What has been gathered of an answer.
Gain(text, reasoning, calls, finish, any) ==
    [text |-> text, reasoning |-> reasoning, calls |-> calls, finish |-> finish, any |-> any]
GainCalls(a, v) == [a EXCEPT !.calls = v]
GainFinish(a, v) == [a EXCEPT !.finish = v]

LEMMA GainWith ==
    ASSUME NEW t, NEW r, NEW c, NEW f, NEW y, NEW v
    PROVE  /\ GainCalls(Gain(t, r, c, f, y), v) = Gain(t, r, v, f, y)
           /\ GainFinish(Gain(t, r, c, f, y), v) = Gain(t, r, c, v, y)
<1>1. GainCalls(Gain(t, r, c, f, y), v) = Gain(t, r, v, f, y)
  BY Z3 DEF Gain, GainCalls
<1>2. GainFinish(Gain(t, r, c, f, y), v) = Gain(t, r, c, v, y)
  BY Z3 DEF Gain, GainFinish
<1>3. QED
  BY <1>1, <1>2

LEMMA GainIs ==
    ASSUME NEW t, NEW r, NEW c, NEW f, NEW y, NEW a, a = Gain(t, r, c, f, y)
    PROVE  a.calls = c /\ a.finish = f /\ a.text = t /\ a.reasoning = r /\ a.any = y
  BY DEF Gain

Gained(a) == \E t, r, c, f, y : a = Gain(t, r, c, f, y)

LEMMA ChunkIs ==
    ASSUME NEW t, NEW r, NEW c, NEW f, NEW chunk, chunk = Chunk(t, r, c, f)
    PROVE  chunk.text = t /\ chunk.reasoning = r /\ chunk.calls = c /\ chunk.finish = f
  BY DEF Chunk

LEMMA GatheredIs ==
    ASSUME NEW a, NEW chunk
    PROVE  /\ Gained(Gathered(a, chunk))
           /\ Gathered(a, chunk).calls = appendTools(a.calls, chunk.calls)
           /\ Gathered(a, chunk).finish = Or(chunk.finish, "", a.finish)
<1> DEFINE g == Gathered(a, chunk)
           t == a.text \o chunk.text
           r == a.reasoning \o chunk.reasoning
           c == appendTools(a.calls, chunk.calls)
           f == Or(chunk.finish, "", a.finish)
           yes == TRUE
<1>1. g = Gain(t, r, c, f, yes)
  BY DEF Gathered, Gain
<1> HIDE DEF g, t, r, c, f, yes
<1>2. Gained(g) /\ g.calls = c /\ g.finish = f
  BY <1>1, GainIs DEF Gained
<1>3. QED
  BY <1>2 DEF g, c, f

LEMMA AggregateIs ==
    ASSUME NEW a, Gained(a)
    PROVE  LET whole == AggregateOpenAIStream(a)
           IN  /\ Gained(whole) /\ whole.calls = a.calls
               /\ a.finish \in Stops =>
                     /\ whole.finish = "length" <=> a.finish = "length"
                     /\ whole.finish = "tool_calls" <=>
                           a.finish = "tool_calls" \/ (a.finish # "length" /\ a.calls # <<>>)
<1> DEFINE whole == AggregateOpenAIStream(a)
<1>1. PICK t, r, c, f, y : a = Gain(t, r, c, f, y)
  BY DEF Gained
<1>2. a.calls = c /\ a.finish = f
  BY <1>1, GainIs
<1> DEFINE g == IF f \in {"", "stop"} THEN IF c # <<>> THEN "tool_calls" ELSE "stop" ELSE f
<1>3. whole = GainFinish(a, g)
  BY <1>2 DEF AggregateOpenAIStream, GainFinish
<1>4. f \in Stops =>
        /\ g = "length" <=> f = "length"
        /\ g = "tool_calls" <=> f = "tool_calls" \/ (f # "length" /\ c # <<>>)
  BY DEF Stops
<1> HIDE DEF g, whole
<1>5. whole = Gain(t, r, c, g, y)
  BY <1>1, <1>3, GainWith
<1>6. Gained(whole) /\ whole.calls = c /\ whole.finish = g
  BY <1>5, GainIs DEF Gained
<1>7. QED
  BY <1>2, <1>4, <1>6 DEF whole

Comes(chunk, text, reasoning, calls, f) ==
    /\ f \in Ends /\ chunk = Chunk(text, reasoning, calls, f)
    /\ Sending(sent, calls, sent')
    /\ reason = "" /\ reason' = f

LEMMA SentChunk ==
    ASSUME Common, NEW o \in Offers, Sends(o), request' = request, phase' = phase
    PROVE  \E text, reasoning, calls, f : Comes(o.chunk, text, reasoning, calls, f)
<1>1. PICK text \in Seq(Parts) : \E reasoning \in Seq(Parts) : \E calls : \E f \in Ends :
                 /\ o.chunk = Chunk(text, reasoning, calls, f)
                 /\ Sending(sent, calls, sent')
                 /\ reason = "" /\ reason' = f
  BY Sent
<1>2. PICK reasoning \in Seq(Parts) : \E calls : \E f \in Ends :
                 /\ o.chunk = Chunk(text, reasoning, calls, f)
                 /\ Sending(sent, calls, sent')
                 /\ reason = "" /\ reason' = f
  BY <1>1
<1>3. PICK calls : \E f \in Ends :
                 /\ o.chunk = Chunk(text, reasoning, calls, f)
                 /\ Sending(sent, calls, sent')
                 /\ reason = "" /\ reason' = f
  BY <1>2
<1>4. PICK f \in Ends :
                 /\ o.chunk = Chunk(text, reasoning, calls, f)
                 /\ Sending(sent, calls, sent')
                 /\ reason = "" /\ reason' = f
  BY <1>3
<1>5. Comes(o.chunk, text, reasoning, calls, f)
  BY <1>4, Zenon DEF Comes
<1>6. QED
  BY <1>5

\* What is gathered of a turn the client wants in one piece.
Gathering ==
    request.form = "aggregated" /\ phase = "open" =>
        Gained(answer) /\ AllEntries(answer.calls, sent) /\ answer.finish = reason

LEMMA Gathers ==
    ASSUME Common, Gathering, Gather
    PROVE  Gathering'
<1>1. PICK o \in Offers : Sends(o) /\ answer' = Gathered(answer, o.chunk)
  BY DEF Gather
<1>2. request' = request /\ phase' = phase /\ phase = "open" /\ request.form = "aggregated"
  BY <1>1 DEF Gather, Sends
<1>3. Numbered(sent)
  BY <1>2 DEF Common
<1>4. \E text, reasoning, calls, f : Comes(o.chunk, text, reasoning, calls, f)
  BY <1>1, <1>2, SentChunk
<1>5. PICK text, reasoning, calls, f : Comes(o.chunk, text, reasoning, calls, f)
  BY <1>4
<1>6. /\ o.chunk = Chunk(text, reasoning, calls, f)
      /\ Sending(sent, calls, sent')
      /\ reason = "" /\ reason' = f
  BY <1>5 DEF Comes
<1>7. o.chunk.calls = calls /\ o.chunk.finish = f
  <2>1. o.chunk = Chunk(text, reasoning, calls, f)
    BY <1>6
  <2>2. QED
    BY <2>1, ChunkIs
<1>8. /\ Gained(answer') /\ answer'.calls = appendTools(answer.calls, calls)
      /\ answer'.finish = Or(f, "", answer.finish)
  <2> DEFINE g == Gathered(answer, o.chunk)
  <2>1. /\ Gained(g) /\ g.calls = appendTools(answer.calls, o.chunk.calls)
        /\ g.finish = Or(o.chunk.finish, "", answer.finish)
    BY GatheredIs
  <2> HIDE DEF g
  <2>2. answer' = g
    BY <1>1 DEF g
  <2>3. QED
    BY <1>7, <2>1, <2>2
<1>9. AllEntries(answer.calls, sent) /\ answer.finish = reason
  BY <1>2 DEF Gathering
<1>10. AllEntries(answer'.calls, sent')
  BY <1>3, <1>6, <1>8, <1>9, AllEntriesSent
<1>11. answer'.finish = reason'
  BY <1>6, <1>8, <1>9 DEF Or
<1>12. QED
  BY <1>8, <1>10, <1>11 DEF Gathering

\* Of a gathered answer the client gets the calls it is to get.
LEMMA EntryKept ==
    ASSUME NEW r, r.form = "aggregated", NEW call \in Calls
    PROVE  LET e == EntryOf(call)
           IN  /\ ~Undeclared(r.declared, e.name) <=> Wanted(r, call)
               /\ Wanted(r, call) => /\ Hand(r, call, InEntry(e))
                                     /\ Hand(r, call, InItem(WholeCall(e)))
<1> DEFINE e == EntryOf(call)
<1>1. NameIn(r, call) = IF r.declared /\ call.name = "declared" THEN call.name ELSE NoName
  BY DEF NameIn
<1>2. /\ e.id = (IF call.named THEN Id(call) ELSE NoId)
      /\ e.name = (IF call.named THEN call.name ELSE NoName)
      /\ e.args = Args(call)
  BY EntryIs
<1>3. /\ Id(call) # NoId /\ call.name # NoName
  BY FragmentsAre
<1>4. NoName # "declared"
  BY LanesAssumption
<1> HIDE DEF e
<1>5. ~Undeclared(r.declared, e.name) <=> Wanted(r, call)
  BY <1>1, <1>2, <1>3, <1>4 DEF Undeclared, Wanted
<1>6. ASSUME Wanted(r, call)
      PROVE  Hand(r, call, InEntry(e)) /\ Hand(r, call, InItem(WholeCall(e)))
  <2>1. call.named /\ NameIn(r, call) = call.name
    BY <1>1, <1>6 DEF Wanted
  <2>2. e.id = Id(call) /\ e.name = call.name
    BY <1>2, <2>1
  <2>3. InEntry(e) = WholeOf(r, call)
    BY <1>2, <2>1, <2>2 DEF InEntry, WholeOf
  <2>4. WholeCall(e) = Call(Id(call), call.name, Args(call))
    BY <1>2, <1>3, <2>2 DEF WholeCall, Or
  <2>5. InItem(WholeCall(e)) = WholeOf(r, call)
    BY <2>1, <2>4 DEF InItem, WholeOf, Call
  <2>6. QED
    BY <1>6, <2>3, <2>5 DEF Hand
<1>7. QED
  BY <1>5, <1>6 DEF e

\* For a chat client.
LEMMA FilteredEntries ==
    ASSUME NEW r, r.form = "aggregated", NEW s, Numbered(s), NEW calls, AllEntries(calls, s)
    PROVE  LET kept == Picked(calls, {i \in DOMAIN calls :
                                         ~Undeclared(r.declared, calls[i].name)})
           IN  /\ \E T : kept \in Seq(T)
               /\ \E whose : HandsEntries(r, s, kept, whose)
<1> DEFINE P == {i \in DOMAIN calls : ~Undeclared(r.declared, calls[i].name)}
           kept == Picked(calls, P)
<1>1. /\ calls \in Seq(Frags) /\ DOMAIN calls = DOMAIN s
      /\ \A x \in DOMAIN s : s[x] \in Calls /\ calls[x] = EntryOf(s[x])
  <2>1. s \in Seq(Calls) /\ calls \in Seq(Frags) /\ Len(calls) = Len(s)
    BY DEF Numbered, AllEntries
  <2>2. DOMAIN calls = DOMAIN s /\ \A x \in DOMAIN s : s[x] \in Calls
    BY <2>1
  <2>3. QED
    BY <2>1, <2>2 DEF AllEntries
<1>2. \A x \in DOMAIN s : x \in P <=> Wanted(r, s[x])
  BY <1>1, EntryKept
<1>3. P \subseteq DOMAIN s
  BY <1>1
<1> HIDE DEF P
<1>4. kept \in Seq(Frags)
  BY <1>1, PickedPlaces
<1>5. PICK at : PicksAt(at, kept, calls, P)
  BY <1>1, PickedAt
<1> HIDE DEF kept
<1>6. ASSUME NEW k \in DOMAIN kept
      PROVE  at[k] \in DOMAIN s /\ Hand(r, s[at[k]], InEntry(kept[k]))
  <2>1. at[k] \in DOMAIN s /\ at[k] \in P /\ kept[k] = calls[at[k]]
    BY <1>1, <1>5 DEF PicksAt
  <2>2. s[at[k]] \in Calls /\ kept[k] = EntryOf(s[at[k]]) /\ Wanted(r, s[at[k]])
    BY <1>1, <1>2, <2>1
  <2>3. QED
    BY <2>1, <2>2, EntryKept
<1>7. \A k, l \in DOMAIN kept : at[k] = at[l] => k = l
  BY <1>5 DEF PicksAt
<1>8. ASSUME NEW x \in DOMAIN s, Wanted(r, s[x])
      PROVE  \E k \in DOMAIN kept : at[k] = x
  BY <1>1, <1>2, <1>5, <1>8 DEF PicksAt
<1>9. HandsEntries(r, s, kept, at)
  BY <1>6, <1>7, <1>8 DEF HandsEntries
<1>10. QED
  BY <1>4, <1>9 DEF kept, P

\* For a Responses client.
LEMMA FilteredItems ==
    ASSUME NEW r, r.form = "aggregated", NEW s, Numbered(s), NEW m, AllEntries(m.calls, s),
           NEW new, new = filterUndeclaredResponsesTools(ConvertResponsesResponse(m), r.declared)
    PROVE  /\ \E T : new.items \in Seq(T)
           /\ \E whose : HandsItems(r, s, new.items, whose)
<1> DEFINE c == ConvertResponsesResponse(m)
           items == c.items
           P == {i \in DOMAIN items : items[i].kind = "function_call" =>
                                         ~Undeclared(r.declared, items[i].name)}
           cs == [x \in DOMAIN m.calls |-> WholeCall(m.calls[x])]
           K == Having(items, "function_call")
<1>1. /\ m.calls \in Seq(Frags) /\ DOMAIN m.calls = DOMAIN s
      /\ \A x \in DOMAIN s : s[x] \in Calls /\ m.calls[x] = EntryOf(s[x])
  <2>1. s \in Seq(Calls) /\ m.calls \in Seq(Frags) /\ Len(m.calls) = Len(s)
    BY DEF Numbered, AllEntries
  <2>2. DOMAIN m.calls = DOMAIN s /\ \A x \in DOMAIN s : s[x] \in Calls
    BY <2>1
  <2>3. QED
    BY <2>1, <2>2 DEF AllEntries
<1>2. new.items = Picked(items, P)
  <2> DEFINE kept == Picked(items, P)
  <2>1. new = Whole(c.status, kept)
    BY DEF filterUndeclaredResponsesTools
  <2> HIDE DEF c, kept
  <2>2. new.items = kept
    BY <2>1, WholeIs
  <2>3. QED
    BY <2>2 DEF kept
<1>3. (\E T : items \in Seq(T)) /\ \E of : Lists(items, of, cs)
  BY <1>1, MessageConverted
<1>4. PICK T : items \in Seq(T)
  BY <1>3
<1>5. PICK of : Lists(items, of, cs)
  BY <1>3
<1>6. DOMAIN cs = DOMAIN s /\ \A x \in DOMAIN s : cs[x] = WholeCall(EntryOf(s[x]))
  BY <1>1
<1> HIDE DEF items, cs
<1>7. ASSUME NEW p \in K
      PROVE  IF p \in P THEN Hand(r, s[of[p]], InItem(items[p])) ELSE ~Wanted(r, s[of[p]])
  <2> DEFINE call == s[of[p]]
  <2>1. of[p] \in DOMAIN s /\ items[p] = WholeCall(EntryOf(call))
    BY <1>5, <1>6 DEF Lists
  <2>2. call \in Calls
    BY <1>1, <2>1
  <2>3. items[p].name = EntryOf(call).name
    BY <2>1 DEF WholeCall, Call
  <2>4. p \in DOMAIN items /\ items[p].kind = "function_call"
    BY DEF Having
  <2>5. p \in P <=> ~Undeclared(r.declared, EntryOf(call).name)
    BY <2>3, <2>4
  <2> HIDE DEF call, P
  <2>6. p \in P <=> Wanted(r, call)
    BY <2>2, <2>5, EntryKept
  <2>7. Wanted(r, call) => Hand(r, call, InItem(WholeCall(EntryOf(call))))
    BY <2>2, EntryKept
  <2>8. QED
    BY <2>1, <2>6, <2>7 DEF call
<1> HIDE DEF P, K
<1>8. \A p \in Having(items, "function_call") :
         IF p \in P THEN Hand(r, s[of[p]], InItem(items[p])) ELSE ~Wanted(r, s[of[p]])
  BY <1>7 DEF K
<1>9. \E whose : HandsItems(r, s, Picked(items, P), whose)
  BY <1>4, <1>5, <1>6, <1>8, PickedHands
<1>10. Picked(items, P) \in Seq(T)
  BY <1>4, PickedPlaces
<1>11. QED
  BY <1>2, <1>9, <1>10

\* A gathered answer ends.
LEMMA AggregateHanded ==
    ASSUME WireInv, Gathering, AggregateEnds, phase' = "answered"
    PROVE  InItems' /\ InEntries'
<1> DEFINE whole == AggregateOpenAIStream(answer)
<1>1. UNCHANGED <<request, sent, reason>> /\ phase = "open" /\ request.form = "aggregated"
      /\ ~Fails
  BY DEF AggregateEnds, Fails
<1>2. Numbered(sent) /\ Gained(answer) /\ AllEntries(answer.calls, sent)
  BY <1>1 DEF WireInv, Common, Gathering
<1>3. Gained(whole) /\ AllEntries(whole.calls, sent)
  BY <1>2, AggregateIs
<1>4. ASSUME Responses'
      PROVE  InItems'
  <2>1. response' = filterUndeclaredResponsesTools(ConvertResponsesResponse(whole),
                                                   request.declared)
    BY <1>1, <1>4, AggregatedWhole DEF Responses
  <2> HIDE DEF whole
  <2>2. /\ \E T : response'.items \in Seq(T)
        /\ \E whose : HandsItems(request, sent, response'.items, whose)
    BY <1>1, <1>2, <1>3, <2>1, FilteredItems
  <2>3. QED
    BY <1>1, <1>2, <2>2 DEF InItems
<1>5. ASSUME ~Responses'
      PROVE  InEntries'
  <2> DEFINE kept == Picked(whole.calls, {i \in DOMAIN whole.calls :
                              ~Undeclared(request.declared, whole.calls[i].name)})
  <2>1. answer' = filterUndeclaredOpenAITools(whole, request.declared)
    BY <1>1, <1>5, AggregatedWhole DEF Responses
  <2>2. answer' = GainCalls(whole, kept)
    BY <2>1 DEF filterUndeclaredOpenAITools, GainCalls
  <2>3. (\E T : kept \in Seq(T)) /\ \E whose : HandsEntries(request, sent, kept, whose)
    <3> HIDE DEF whole
    <3>1. QED
      BY <1>1, <1>2, <1>3, FilteredEntries
  <2> HIDE DEF whole, kept
  <2>4. answer'.calls = kept
    BY <1>3, <2>2, GainWith, GainIs DEF Gained
  <2>5. QED
    BY <1>1, <1>2, <2>3, <2>4 DEF InEntries
<1>6. QED
  BY <1>4, <1>5 DEF InItems, InEntries

----------------------------------------------------------------------------
(* The filter of a streamed chat turn.                                     *)

Screen(declared, given, any) == [declared |-> declared, verdicts |-> given, keptAny |-> any]
ScreenVerdicts(f, v) == [f EXCEPT !.verdicts = v]
ScreenAny(f, v) == [f EXCEPT !.keptAny = v]

LEMMA ScreenWith ==
    ASSUME NEW d, NEW g, NEW y, NEW v
    PROVE  /\ ScreenVerdicts(Screen(d, g, y), v) = Screen(d, v, y)
           /\ ScreenAny(Screen(d, g, y), v) = Screen(d, g, v)
<1>1. ScreenVerdicts(Screen(d, g, y), v) = Screen(d, v, y)
  BY Z3 DEF Screen, ScreenVerdicts
<1>2. ScreenAny(Screen(d, g, y), v) = Screen(d, g, v)
  BY Z3 DEF Screen, ScreenAny
<1>3. QED
  BY <1>1, <1>2

LEMMA ScreenIs ==
    ASSUME NEW d, NEW g, NEW y, NEW f, f = Screen(d, g, y)
    PROVE  f.declared = d /\ f.verdicts = g /\ f.keptAny = y
  BY DEF Screen

\* The verdicts on calls s: on those whose name has come, and right.
Judges(r, f, s) ==
    /\ \E y : f = Screen(r.declared, f.verdicts, y)
    /\ DOMAIN f.verdicts = {x \in DOMAIN s : s[x].named}
    /\ \A x \in DOMAIN s : s[x].named => f.verdicts[x] = (NameIn(r, s[x]) # NoName)

\* A fragment without a name, or of a call that has been judged, changes nothing.
LEMMA NotJudged ==
    ASSUME NEW f, NEW frag, frag.name = NoName \/ frag.index \in DOMAIN f.verdicts
    PROVE  verdictFor(f, frag) = f
  BY DEF verdictFor

\* Filter d is one of verdicts g with that on a call, of index i.
Gives(r, d, g, y, i, call) ==
    /\ d = Screen(r.declared, d.verdicts, y)
    /\ DOMAIN d.verdicts = DOMAIN g \cup {i}
    /\ d.verdicts[i] = (NameIn(r, call) # NoName)
    /\ \A x \in DOMAIN g : d.verdicts[x] = g[x]

LEMMA NowJudged ==
    ASSUME NEW r, r.lane = "chat", r.form = "stream", NEW f, NEW frag, NEW g, NEW y,
           f = Screen(r.declared, g, y), NEW call,
           frag.name = call.name, call.name # NoName, frag.index \notin DOMAIN g
    PROVE  Gives(r, verdictFor(f, frag), g, y, frag.index, call)
<1> DEFINE v == Resolves(f, frag.name)
           w == With(g, frag.index, v)
           d == verdictFor(f, frag)
<1>1. f.declared = r.declared /\ f.verdicts = g
  BY ScreenIs
<1>2. d = ScreenVerdicts(f, w)
  BY <1>1 DEF verdictFor, ScreenVerdicts
<1>3. v = (NameIn(r, call) # NoName)
  BY <1>1 DEF Resolves, NameIn
<1>4. /\ DOMAIN w = DOMAIN g \cup {frag.index} /\ w[frag.index] = v
      /\ \A x \in DOMAIN g : w[x] = g[x]
  BY DEF With
<1> HIDE DEF v, w, d
<1>5. d = Screen(r.declared, w, y)
  BY <1>2, ScreenWith
<1>6. d.verdicts = w
  BY <1>5, ScreenIs
<1>7. QED
  BY <1>3, <1>4, <1>5, <1>6 DEF d, Gives

\* A call is judged when its name comes.
LEMMA JudgedBegun ==
    ASSUME NEW r, r.lane = "chat", r.form = "stream", NEW s, Numbered(s), NEW f,
           Judges(r, f, s), NEW b \in Beginnings(Len(s) + 1)
    PROVE  Judges(r, verdictFor(f, First(b)), Append(s, b))
<1> DEFINE n == Len(s)
           t == Append(s, b)
           g == f.verdicts
           frag == First(b)
           d == verdictFor(f, frag)
<1>1. /\ n \in Nat /\ s \in Seq(Calls) /\ DOMAIN s = 1 .. n
  BY DEF Numbered
<1>2. b \in Calls /\ b.index = n + 1
  BY <1>1, BeginningsAre
<1>3. /\ frag.index = n + 1 /\ frag.name = (IF b.named THEN b.name ELSE NoName)
      /\ b.name # NoName
  BY <1>2, FragmentsAre
<1>4. /\ DOMAIN t = 1 .. n + 1 /\ t[n + 1] = b /\ \A x \in 1 .. n : t[x] = s[x]
  BY <1>1, <1>2
<1> HIDE DEF t, frag
<1>5. PICK y : f = Screen(r.declared, g, y)
  BY DEF Judges
<1>6. /\ DOMAIN g = {x \in 1 .. n : s[x].named}
      /\ \A x \in 1 .. n : s[x].named => g[x] = (NameIn(r, s[x]) # NoName)
  BY <1>1 DEF Judges
<1>7. CASE ~b.named
  <2>1. d = f
    BY <1>3, <1>7, NotJudged
  <2>2. {x \in 1 .. n + 1 : t[x].named} = {x \in 1 .. n : s[x].named}
    BY <1>1, <1>4, <1>7
  <2>3. \A x \in 1 .. n + 1 : t[x].named => g[x] = (NameIn(r, t[x]) # NoName)
    BY <1>1, <1>4, <1>6, <1>7
  <2>4. Judges(r, f, t)
    BY <1>4, <1>5, <1>6, <2>2, <2>3 DEF Judges
  <2>5. QED
    BY <2>1, <2>4 DEF t, frag
<1>8. CASE b.named
  <2>1. frag.name = b.name /\ frag.index \notin DOMAIN g
    BY <1>1, <1>3, <1>6, <1>8
  <2> HIDE DEF d, g
  <2>2. /\ d = Screen(r.declared, d.verdicts, y)
        /\ DOMAIN d.verdicts = DOMAIN g \cup {n + 1}
        /\ d.verdicts[n + 1] = (NameIn(r, b) # NoName)
        /\ \A x \in DOMAIN g : d.verdicts[x] = g[x]
    <3>1. Gives(r, verdictFor(f, frag), g, y, frag.index, b)
      BY <1>3, <1>5, <2>1, NowJudged
    <3>2. QED
      BY <1>3, <3>1 DEF Gives, d
  <2>3. {x \in 1 .. n + 1 : t[x].named} = {x \in 1 .. n : s[x].named} \cup {n + 1}
    BY <1>1, <1>4, <1>8
  <2>4. ASSUME NEW x \in 1 .. n + 1, t[x].named
        PROVE  d.verdicts[x] = (NameIn(r, t[x]) # NoName)
    <3>1. CASE x = n + 1
      BY <1>4, <2>2, <3>1
    <3>2. CASE x \in 1 .. n
      <4>1. x \in DOMAIN g /\ t[x] = s[x] /\ s[x].named
        BY <1>4, <1>6, <2>4, <3>2
      <4>2. QED
        BY <1>6, <2>2, <3>2, <4>1
    <3>3. QED
      BY <1>1, <3>1, <3>2
  <2>5. Judges(r, d, t)
    BY <1>4, <1>6, <2>2, <2>3, <2>4 DEF Judges
  <2>6. QED
    BY <2>5 DEF t, frag, d
<1>9. b.named \in BOOLEAN
  BY <1>2 DEF Calls
<1>10. QED
  BY <1>7, <1>8

LEMMA JudgedContinued ==
    ASSUME NEW r, r.lane = "chat", r.form = "stream", NEW s, Numbered(s), NEW f,
           Judges(r, f, s), NEW i \in DOMAIN s, s[i].at < s[i].size
    PROVE  Judges(r, verdictFor(f, Following(s[i])), [s EXCEPT ![i] = Further(s[i])])
<1> DEFINE n == Len(s)
           t == [s EXCEPT ![i] = Further(s[i])]
           g == f.verdicts
           frag == Following(s[i])
           d == verdictFor(f, frag)
<1>1. /\ n \in Nat /\ s \in Seq(Calls) /\ DOMAIN s = 1 .. n /\ s[i] \in Calls /\ s[i].index = i
  BY DEF Numbered
<1>2. Further(s[i]).named /\ Further(s[i]).name = s[i].name
  BY <1>1, FurtherIs
<1>3. /\ frag.index = i /\ frag.name = (IF s[i].named THEN NoName ELSE s[i].name)
      /\ s[i].name # NoName
  BY <1>1, FragmentsAre
<1>4. /\ DOMAIN t = 1 .. n /\ t[i] = Further(s[i]) /\ \A x \in 1 .. n : x # i => t[x] = s[x]
  BY <1>1
<1>5. \A x \in 1 .. n : NameIn(r, t[x]) = NameIn(r, s[x])
  BY <1>2, <1>4 DEF NameIn
<1> HIDE DEF t, frag
<1>6. PICK y : f = Screen(r.declared, g, y)
  BY DEF Judges
<1>7. /\ DOMAIN g = {x \in 1 .. n : s[x].named}
      /\ \A x \in 1 .. n : s[x].named => g[x] = (NameIn(r, s[x]) # NoName)
  BY <1>1 DEF Judges
<1>8. CASE s[i].named
  <2>1. d = f
    BY <1>3, <1>8, NotJudged
  <2>2. \A x \in 1 .. n : t[x].named <=> s[x].named
    BY <1>2, <1>4, <1>8
  <2>3. {x \in 1 .. n : t[x].named} = {x \in 1 .. n : s[x].named}
    BY <2>2
  <2>4. Judges(r, f, t)
    BY <1>4, <1>5, <1>6, <1>7, <2>2, <2>3 DEF Judges
  <2>5. QED
    BY <2>1, <2>4 DEF t, frag
<1>9. CASE ~s[i].named
  <2>1. frag.name = s[i].name /\ frag.index \notin DOMAIN g
    BY <1>3, <1>7, <1>9
  <2> HIDE DEF d, g
  <2>2. /\ d = Screen(r.declared, d.verdicts, y)
        /\ DOMAIN d.verdicts = DOMAIN g \cup {i}
        /\ d.verdicts[i] = (NameIn(r, s[i]) # NoName)
        /\ \A x \in DOMAIN g : d.verdicts[x] = g[x]
    <3>1. Gives(r, verdictFor(f, frag), g, y, frag.index, s[i])
      BY <1>3, <1>6, <2>1, NowJudged
    <3>2. QED
      BY <1>3, <3>1 DEF Gives, d
  <2>3. {x \in 1 .. n : t[x].named} = {x \in 1 .. n : s[x].named} \cup {i}
    BY <1>1, <1>2, <1>4
  <2>4. ASSUME NEW x \in 1 .. n, t[x].named
        PROVE  d.verdicts[x] = (NameIn(r, t[x]) # NoName)
    <3>1. CASE x = i
      BY <1>5, <2>2, <3>1
    <3>2. CASE x # i
      <4>1. x \in DOMAIN g /\ s[x].named
        BY <1>4, <1>7, <2>4, <3>2
      <4>2. QED
        BY <1>5, <1>7, <2>2, <4>1
    <3>3. QED
      BY <3>1, <3>2
  <2>5. Judges(r, d, t)
    BY <1>4, <1>7, <2>2, <2>3, <2>4 DEF Judges
  <2>6. QED
    BY <2>5 DEF t, frag, d
<1>10. QED
  BY <1>8, <1>9

\* What the client has of a call: all of it, or its first piece, if that came
\* before a name which is not declared.
Shown(r, call, e) ==
    /\ e.index = call.index
    /\ IF Wanted(r, call)
       THEN e.id = Id(call) /\ e.name = NameIn(r, call) /\ e.args = Args(call)
       ELSE e.id = NoId /\ e.name = NoName /\ e.args = <<Piece(call, 1)>>

Shows(r, calls, s) ==
    /\ calls \in Seq(Frags) /\ Distinct(calls)
    /\ \A k \in DOMAIN calls :
          calls[k].index \in DOMAIN s /\ Shown(r, s[calls[k].index], calls[k])
    /\ \A x \in DOMAIN s :
          Wanted(r, s[x]) \/ ~s[x].named => \E k \in DOMAIN calls : calls[k].index = x

\* A fragment, as the filter lets it through.
Take(f, calls, frag) ==
    IF Passes(f, frag) THEN appendTool(calls, Renamed(f, frag)) ELSE calls

LEMMA RenamedIs ==
    ASSUME NEW r, r.lane = "chat", r.form = "stream", NEW f, f.declared = r.declared,
           NEW frag \in Frags
    PROVE  LET e == Renamed(f, frag)
           IN  /\ e \in Frags /\ e.index = frag.index /\ e.id = frag.id /\ e.args = frag.args
               /\ frag.name = NoName => e.name = NoName
               /\ \A call : frag.name = call.name /\ NameIn(r, call) # NoName
                                => e.name = NameIn(r, call)
<1> DEFINE n == Or(ResolveDeclaredToolName(f.declared, frag.name), NoName, frag.name)
           e == Renamed(f, frag)
<1>1. n \in Given
  <2>1. ResolveDeclaredToolName(f.declared, frag.name) \in {"declared", NoName}
    BY DEF ResolveDeclaredToolName
  <2>2. frag.name \in Given
    BY FragIs
  <2>3. QED
    BY <2>1, <2>2 DEF Or, Given
<1>2. frag.name = NoName => n = NoName
  BY LanesAssumption DEF Or, ResolveDeclaredToolName
<1>3. ASSUME NEW call, frag.name = call.name, NameIn(r, call) # NoName
      PROVE  n = NameIn(r, call)
  BY <1>3 DEF NameIn, Or
<1>4. e = [frag EXCEPT !.name = n]
  BY DEF Renamed
<1> HIDE DEF n, e
<1>5. e = [index |-> frag.index, id |-> frag.id, name |-> n, args |-> frag.args]
  BY <1>4 DEF Frags
<1>6. e \in Frags
  <2>1. frag.index \in Nat /\ frag.id \in Ids /\ frag.args \in Seq(Parts)
    BY FragIs
  <2>2. QED
    BY <1>1, <1>5, <2>1 DEF Frags
<1>7. e.index = frag.index /\ e.id = frag.id /\ e.args = frag.args /\ e.name = n
  BY <1>5
<1>8. QED
  BY <1>2, <1>3, <1>6, <1>7 DEF e

\* The first fragment of a call that passes.
LEMMA ShownFirst ==
    ASSUME NEW r, r.lane = "chat", r.form = "stream", NEW f, f.declared = r.declared,
           NEW call \in Calls, call.at \in {0, 1}, ~call.named => call.at = 1,
           Wanted(r, call) \/ ~call.named
    PROVE  LET e == Renamed(f, First(call))
           IN  e \in Frags /\ e.index = call.index /\ Shown(r, call, e)
<1> DEFINE frag == First(call)
           e == Renamed(f, frag)
<1>1. /\ frag \in Frags
      /\ frag.index = call.index
      /\ frag.id = (IF call.named THEN Id(call) ELSE NoId)
      /\ frag.name = (IF call.named THEN call.name ELSE NoName)
      /\ frag.args = Args(call)
  BY EntryIs, FragmentsAre
<1> HIDE DEF frag
<1>2. /\ e \in Frags /\ e.index = frag.index /\ e.id = frag.id /\ e.args = frag.args
      /\ frag.name = NoName => e.name = NoName
      /\ frag.name = call.name /\ NameIn(r, call) # NoName => e.name = NameIn(r, call)
  BY <1>1, RenamedIs
<1> HIDE DEF e
<1>3. CASE Wanted(r, call)
  <2>1. call.named /\ NameIn(r, call) # NoName
    BY <1>3 DEF Wanted
  <2>2. QED
    BY <1>1, <1>2, <1>3, <2>1 DEF Shown, e, frag
<1>4. CASE ~Wanted(r, call)
  <2>1. ~call.named
    BY <1>4
  <2>2. call.at = 1
    BY <2>1
  <2>3. Args(call) = <<Piece(call, 1)>>
    BY <2>2, ArgsAre
  <2>4. QED
    BY <1>1, <1>2, <1>4, <2>1, <2>3 DEF Shown, e, frag
<1>5. QED
  BY <1>3, <1>4

LEMMA FurtherName ==
    ASSUME NEW r, NEW call \in Calls, call.at < call.size
    PROVE  /\ NameIn(r, Further(call)) = NameIn(r, call)
           /\ Wanted(r, Further(call)) <=> NameIn(r, call) # NoName
           /\ Wanted(r, call) => Wanted(r, Further(call))
           /\ Id(Further(call)) = Id(call)
           /\ \A n : Piece(Further(call), n) = Piece(call, n)
<1>1. /\ Further(call).name = call.name /\ Further(call).named
      /\ Further(call).index = call.index
  BY FurtherIs
<1>2. Further(call).size = call.size
  BY DEF Further, Calls
<1>3. NameIn(r, Further(call)) = NameIn(r, call)
  BY <1>1 DEF NameIn
<1>4. Id(Further(call)) = Id(call) /\ \A n : Piece(Further(call), n) = Piece(call, n)
  BY <1>1, <1>2 DEF Id, Piece
<1>5. QED
  BY <1>1, <1>3, <1>4 DEF Wanted

\* The next one.
LEMMA ShownFurther ==
    ASSUME NEW r, r.lane = "chat", r.form = "stream", NEW f, f.declared = r.declared,
           NEW call \in Calls, call.at < call.size, ~call.named => call.at = 1,
           NameIn(r, call) # NoName, NEW old \in Frags, Shown(r, call, old)
    PROVE  LET e == Renamed(f, Following(call))
           IN  /\ e \in Frags /\ e.index = call.index
               /\ Shown(r, Further(call), Merged(old, e))
<1> DEFINE frag == Following(call)
           e == Renamed(f, frag)
           more == Further(call)
           new == Merged(old, e)
           one == <<Piece(call, call.at + 1)>>
<1>1. /\ frag \in Frags
      /\ frag.index = call.index
      /\ frag.id = (IF call.named THEN NoId ELSE Id(call))
      /\ frag.name = (IF call.named THEN NoName ELSE call.name)
      /\ frag.args = one /\ Id(call) # NoId
  BY EntryIs, FragmentsAre
<1> HIDE DEF frag, one
<1>2. /\ e \in Frags /\ e.index = frag.index /\ e.id = frag.id /\ e.args = frag.args
      /\ frag.name = NoName => e.name = NoName
      /\ frag.name = call.name => e.name = NameIn(r, call)
  BY <1>1, RenamedIs
<1>3. /\ Wanted(r, more) /\ NameIn(r, more) = NameIn(r, call) /\ Id(more) = Id(call)
      /\ more.index = call.index
  BY FurtherName, FurtherIs
<1>4. Args(more) = Args(call) \o one
  BY FurtherIs DEF one
<1> HIDE DEF e, more
<1>5. new = [index |-> old.index, id |-> IF e.id = NoId THEN old.id ELSE e.id,
             name |-> IF e.name = NoName THEN old.name ELSE e.name,
             args |-> old.args \o e.args]
  BY <1>2, MergedIs
<1>6. /\ old.index = call.index /\ old.args = Args(call)
      /\ call.named => old.id = Id(call) /\ old.name = NameIn(r, call)
  <2>1. CASE call.named
    BY <2>1 DEF Shown, Wanted
  <2>2. CASE ~call.named
    <3>1. old.index = call.index /\ old.args = <<Piece(call, 1)>>
      BY <2>2 DEF Shown, Wanted
    <3>2. call.at = 1
      BY <2>2
    <3>3. Args(call) = <<Piece(call, 1)>>
      BY <3>2, ArgsAre
    <3>4. QED
      BY <2>2, <3>1, <3>3
  <2>3. QED
    BY <2>1, <2>2
<1>7. new.index = more.index
  BY <1>3, <1>5, <1>6
<1>8. new.id = Id(more)
  BY <1>1, <1>2, <1>3, <1>5, <1>6
<1>9. new.name = NameIn(r, more)
  BY <1>1, <1>2, <1>3, <1>5, <1>6
<1>10. new.args = Args(more)
  BY <1>1, <1>2, <1>4, <1>5, <1>6
<1> HIDE DEF new
<1>11. Shown(r, more, new)
  BY <1>3, <1>7, <1>8, <1>9, <1>10 DEF Shown
<1>12. QED
  BY <1>1, <1>2, <1>11 DEF new, e, frag, more

LEMMA ShowsBegun ==
    ASSUME NEW r, r.lane = "chat", r.form = "stream", NEW f, f.declared = r.declared,
           NEW s, Numbered(s), NEW calls, Shows(r, calls, s), NEW b \in Beginnings(Len(s) + 1),
           Passes(f, First(b)) <=> Wanted(r, b) \/ ~b.named
    PROVE  Shows(r, Take(f, calls, First(b)), Append(s, b))
<1> DEFINE n == Len(s)
           t == Append(s, b)
           e == Renamed(f, First(b))
           d == Take(f, calls, First(b))
<1>1. /\ n \in Nat /\ s \in Seq(Calls) /\ DOMAIN s = 1 .. n
  BY DEF Numbered
<1>2. /\ b \in Calls /\ b.index = n + 1 /\ b.at \in {0, 1} /\ (~b.named => b.at = 1)
  BY <1>1, BeginningsAre
<1>3. /\ DOMAIN t = 1 .. n + 1 /\ t[n + 1] = b /\ \A x \in 1 .. n : t[x] = s[x]
  BY <1>1, <1>2
<1> HIDE DEF t
<1>4. /\ calls \in Seq(Frags) /\ Distinct(calls)
      /\ \A k \in DOMAIN calls :
            calls[k].index \in 1 .. n /\ Shown(r, s[calls[k].index], calls[k])
      /\ \A x \in 1 .. n :
            Wanted(r, s[x]) \/ ~s[x].named => \E k \in DOMAIN calls : calls[k].index = x
  BY <1>1 DEF Shows
<1>5. \A k \in DOMAIN calls : calls[k].index \in 1 .. n + 1 /\ Shown(r, t[calls[k].index], calls[k])
  <2>1. ASSUME NEW k \in DOMAIN calls
        PROVE  calls[k].index \in 1 .. n + 1 /\ Shown(r, t[calls[k].index], calls[k])
    <3>1. calls[k].index \in 1 .. n /\ Shown(r, s[calls[k].index], calls[k])
      BY <1>4
    <3>2. calls[k].index \in 1 .. n + 1 /\ t[calls[k].index] = s[calls[k].index]
      BY <1>1, <1>3, <3>1
    <3>3. QED
      BY <3>1, <3>2
  <2>2. QED
    BY <2>1
<1>6. CASE Wanted(r, b) \/ ~b.named
  <2>1. d = appendTool(calls, e)
    BY <1>6 DEF Take
  <2>2. e \in Frags /\ e.index = n + 1 /\ Shown(r, b, e)
    BY <1>2, <1>6, ShownFirst
  <2> HIDE DEF e, d
  <2>3. \A k \in DOMAIN calls : calls[k].index # e.index
    BY <1>1, <1>4, <2>2
  <2>4. d = Append(calls, e) /\ d \in Seq(Frags)
    BY <1>4, <2>1, <2>2, <2>3, Begins
  <2>5. /\ Len(calls) \in Nat /\ DOMAIN calls = 1 .. Len(calls)
        /\ DOMAIN d = 1 .. Len(calls) + 1 /\ d[Len(calls) + 1] = e
        /\ \A k \in DOMAIN calls : d[k] = calls[k]
    BY <1>4, <2>4
  <2> DEFINE m == Len(calls) + 1
  <2>6. /\ DOMAIN d = DOMAIN calls \cup {m} /\ m \notin DOMAIN calls
        /\ d[m] = e /\ m \in DOMAIN d
    BY <2>5
  <2> HIDE DEF m
  <2>7. ASSUME NEW k \in DOMAIN d, NEW l \in DOMAIN d, d[k].index = d[l].index
        PROVE  k = l
    <3>1. CASE k = m
      BY <2>2, <2>3, <2>5, <2>6, <2>7, <3>1
    <3>2. CASE l = m
      BY <2>2, <2>3, <2>5, <2>6, <2>7, <3>2
    <3>3. CASE k \in DOMAIN calls /\ l \in DOMAIN calls
      BY <1>4, <2>5, <2>7, <3>3 DEF Distinct
    <3>4. QED
      BY <2>6, <3>1, <3>2, <3>3
  <2>8. ASSUME NEW k \in DOMAIN d
        PROVE  d[k].index \in 1 .. n + 1 /\ Shown(r, t[d[k].index], d[k])
    <3>1. CASE k = m
      BY <1>1, <1>3, <2>2, <2>6, <3>1
    <3>2. CASE k \in DOMAIN calls
      BY <1>5, <2>5, <3>2
    <3>3. QED
      BY <2>6, <3>1, <3>2
  <2>9. ASSUME NEW x \in 1 .. n + 1, Wanted(r, t[x]) \/ ~t[x].named
        PROVE  \E k \in DOMAIN d : d[k].index = x
    <3>1. CASE x = n + 1
      BY <2>2, <2>6, <3>1
    <3>2. CASE x \in 1 .. n
      <4>1. PICK k \in DOMAIN calls : calls[k].index = x
        BY <1>3, <1>4, <2>9, <3>2
      <4>2. QED
        BY <2>5, <2>6, <4>1
    <3>3. QED
      BY <1>1, <3>1, <3>2
  <2>10. Shows(r, d, t)
    BY <1>3, <2>4, <2>7, <2>8, <2>9 DEF Shows, Distinct
  <2>11. QED
    BY <2>10 DEF d, t
<1>7. CASE ~(Wanted(r, b) \/ ~b.named)
  <2>1. d = calls
    BY <1>7 DEF Take
  <2>2. ASSUME NEW x \in 1 .. n + 1, Wanted(r, t[x]) \/ ~t[x].named
        PROVE  \E k \in DOMAIN calls : calls[k].index = x
    <3>1. x # n + 1
      BY <1>3, <1>7, <2>2
    <3>2. x \in 1 .. n
      BY <1>1, <3>1
    <3>3. QED
      BY <1>3, <1>4, <2>2, <3>2
  <2>3. Shows(r, calls, t)
    BY <1>3, <1>4, <1>5, <2>2 DEF Shows
  <2>4. QED
    BY <2>1, <2>3 DEF t
<1>8. QED
  BY <1>6, <1>7

LEMMA ShowsContinued ==
    ASSUME NEW r, r.lane = "chat", r.form = "stream", NEW f, f.declared = r.declared,
           NEW s, Numbered(s), NEW calls, Shows(r, calls, s),
           NEW i \in DOMAIN s, s[i].at < s[i].size,
           Passes(f, Following(s[i])) <=> Wanted(r, Further(s[i]))
    PROVE  Shows(r, Take(f, calls, Following(s[i])), [s EXCEPT ![i] = Further(s[i])])
<1> DEFINE n == Len(s)
           call == s[i]
           more == Further(call)
           t == [s EXCEPT ![i] = more]
           e == Renamed(f, Following(call))
           d == Take(f, calls, Following(call))
<1>1. /\ n \in Nat /\ s \in Seq(Calls) /\ DOMAIN s = 1 .. n /\ call \in Calls /\ call.index = i
      /\ ~call.named => call.at = 1
  BY DEF Numbered
<1>2. /\ DOMAIN t = 1 .. n /\ t[i] = more /\ \A x \in 1 .. n : x # i => t[x] = s[x]
  BY <1>1
<1>3. /\ calls \in Seq(Frags) /\ Distinct(calls)
      /\ \A k \in DOMAIN calls :
            calls[k].index \in 1 .. n /\ Shown(r, s[calls[k].index], calls[k])
      /\ \A x \in 1 .. n :
            Wanted(r, s[x]) \/ ~s[x].named => \E k \in DOMAIN calls : calls[k].index = x
  BY <1>1 DEF Shows
<1>4. /\ Wanted(r, more) <=> NameIn(r, call) # NoName
      /\ Wanted(r, call) => Wanted(r, more)
      /\ more.named /\ more.index = i /\ \A x : Piece(more, x) = Piece(call, x)
  BY <1>1, FurtherName, FurtherIs
<1>5. call.at < call.size
  OBVIOUS
<1> HIDE DEF t
<1>6. CASE Wanted(r, more)
  <2>1. d = appendTool(calls, e)
    BY <1>6 DEF Take
  <2>2. Wanted(r, call) \/ ~call.named
    BY <1>4, <1>6 DEF Wanted
  <2>3. PICK k \in DOMAIN calls : calls[k].index = i
    BY <1>1, <1>3, <2>2
  <2>4. calls[k] \in Frags /\ Shown(r, call, calls[k])
    BY <1>3, <2>3
  <2>5. /\ e \in Frags /\ e.index = i /\ Shown(r, more, Merged(calls[k], e))
    BY <1>1, <1>4, <1>5, <1>6, <2>4, ShownFurther
  <2> HIDE DEF e, d, call, more
  <2>6. /\ d \in Seq(Frags) /\ DOMAIN d = DOMAIN calls /\ d[k] = Merged(calls[k], e)
        /\ \A l \in DOMAIN calls : l # k => d[l] = calls[l]
    BY <1>3, <2>1, <2>3, <2>5, Adds
  <2>7. Shown(r, more, d[k]) /\ d[k].index = i
    BY <1>4, <2>5, <2>6 DEF Shown
  <2>8. \A l \in DOMAIN d : d[l].index = calls[l].index
    BY <2>3, <2>6, <2>7
  <2>9. Distinct(d)
    <3>1. ASSUME NEW l \in DOMAIN d, NEW m \in DOMAIN d, d[l].index = d[m].index
          PROVE  l = m
      <4>1. calls[l].index = calls[m].index
        BY <2>8, <3>1
      <4>2. QED
        BY <1>3, <2>6, <4>1 DEF Distinct
    <3>2. QED
      BY <3>1 DEF Distinct
  <2>10. ASSUME NEW l \in DOMAIN d
         PROVE  d[l].index \in 1 .. n /\ Shown(r, t[d[l].index], d[l])
    <3>1. CASE l = k
      BY <1>1, <1>2, <2>7, <3>1
    <3>2. CASE l # k
      <4>1. d[l] = calls[l] /\ l \in DOMAIN calls
        BY <2>6, <3>2
      <4>2. calls[l].index # i
        BY <1>3, <2>3, <3>2, <4>1 DEF Distinct
      <4>3. QED
        BY <1>2, <1>3, <4>1, <4>2
    <3>3. QED
      BY <3>1, <3>2
  <2>11. ASSUME NEW x \in 1 .. n, Wanted(r, t[x]) \/ ~t[x].named
         PROVE  \E l \in DOMAIN d : d[l].index = x
    <3>1. CASE x = i
      BY <2>3, <2>6, <2>7, <3>1
    <3>2. CASE x # i
      <4>1. PICK l \in DOMAIN calls : calls[l].index = x
        BY <1>2, <1>3, <2>11, <3>2
      <4>2. QED
        BY <2>6, <2>8, <4>1
    <3>3. QED
      BY <3>1, <3>2
  <2>12. Shows(r, d, t)
    BY <1>2, <2>6, <2>9, <2>10, <2>11 DEF Shows
  <2>13. QED
    BY <2>12 DEF d, t, call, more
<1>7. CASE ~Wanted(r, more)
  <2>1. d = calls
    BY <1>7 DEF Take
  <2> HIDE DEF d, e
  <2>2. ~Wanted(r, call)
    BY <1>4, <1>7
  <2>3. ASSUME NEW k \in DOMAIN calls
        PROVE  calls[k].index \in 1 .. n /\ Shown(r, t[calls[k].index], calls[k])
    <3>1. calls[k].index \in 1 .. n /\ Shown(r, s[calls[k].index], calls[k])
      BY <1>3
    <3>2. CASE calls[k].index = i
      <4>1. Shown(r, call, calls[k])
        BY <3>1, <3>2
      <4> HIDE DEF call, more
      <4>2. Shown(r, more, calls[k])
        BY <1>1, <1>4, <1>7, <2>2, <4>1 DEF Shown
      <4>3. QED
        BY <1>2, <3>1, <3>2, <4>2
    <3>3. CASE calls[k].index # i
      BY <1>2, <3>1, <3>3
    <3>4. QED
      BY <3>2, <3>3
  <2>4. ASSUME NEW x \in 1 .. n, Wanted(r, t[x]) \/ ~t[x].named
        PROVE  \E k \in DOMAIN calls : calls[k].index = x
    <3>1. x # i
      BY <1>2, <1>4, <1>7, <2>4
    <3>2. QED
      BY <1>2, <1>3, <2>4, <3>1
  <2>5. Shows(r, calls, t)
    BY <1>2, <1>3, <2>3, <2>4 DEF Shows
  <2>6. QED
    BY <2>1, <2>5 DEF d, t
<1>8. QED
  BY <1>6, <1>7

\* An entry stays, and a fragment that passes leaves one.
LEMMA TakenAny ==
    ASSUME NEW f, NEW calls, NEW T, calls \in Seq(T), NEW frag
    PROVE  Take(f, calls, frag) # <<>> <=> calls # <<>> \/ Passes(f, frag)
<1> DEFINE e == Renamed(f, frag)
<1>1. appendTool(calls, e) # <<>>
  <2>1. CASE \E i \in DOMAIN calls : calls[i].index = e.index
    <3>1. DOMAIN appendTool(calls, e) = DOMAIN calls
      BY <2>1 DEF appendTool
    <3>2. DOMAIN calls # {}
      BY <2>1
    <3>3. DOMAIN <<>> = {}
      OBVIOUS
    <3>4. QED
      BY <3>1, <3>2, <3>3
  <2>2. CASE ~\E i \in DOMAIN calls : calls[i].index = e.index
    <3>1. appendTool(calls, e) = Append(calls, e)
      BY <2>2 DEF appendTool
    <3> HIDE DEF e
    <3>2. calls \in Seq(T \cup {e}) /\ e \in T \cup {e}
      OBVIOUS
    <3>3. Len(Append(calls, e)) = Len(calls) + 1 /\ Len(calls) \in Nat
      BY <3>2
    <3>4. Len(<<>>) = 0
      OBVIOUS
    <3>5. QED
      BY <3>1, <3>3, <3>4
  <2>3. QED
    BY <2>1, <2>2
<1>2. QED
  BY <1>1 DEF Take

\* What a selection from a sequence of one or two leaves.
Lone(p, a) == DOMAIN p = {1} /\ p[1] = a
Pair(p, a, b) == DOMAIN p = {1, 2} /\ p[1] = a /\ p[2] = b

LEMMA AppendTwo ==
    ASSUME NEW a, NEW b
    PROVE  Lone(Append(<<>>, a), a) /\ Pair(Append(<<a>>, b), a, b)
<1> DEFINE T == {a, b}
           q == <<a>>
           p == Append(q, b)
           e == <<>>
           o == Append(e, a)
<1>1. q \in Seq(T) /\ Len(q) = 1 /\ q[1] = a /\ a \in T /\ b \in T /\ e \in Seq(T) /\ Len(e) = 0
  OBVIOUS
<1>2. p \in Seq(T) /\ Len(p) = 2 /\ p[1] = a /\ p[2] = b
  <2> HIDE DEF q, T
  <2>1. q \in Seq(T) /\ b \in T
    BY <1>1
  <2>2. /\ p \in Seq(T) /\ Len(p) = Len(q) + 1 /\ p[Len(q) + 1] = b
        /\ \A i \in 1 .. Len(q) : p[i] = q[i]
    BY <2>1, AppendProperties
  <2> HIDE DEF p
  <2>3. QED
    BY <1>1, <2>2
<1>3. o \in Seq(T) /\ Len(o) = 1 /\ o[1] = a
  <2> HIDE DEF e, T
  <2>1. QED
    BY <1>1
<1>4. Pair(p, a, b)
  <2> HIDE DEF p, T
  <2>1. DOMAIN p = 1 .. 2
    BY <1>2
  <2>2. QED
    BY <1>2, <2>1 DEF Pair
<1>5. Lone(o, a)
  <2> HIDE DEF o, T
  <2>1. DOMAIN o = 1 .. 1
    BY <1>3
  <2>2. QED
    BY <1>3, <2>1 DEF Lone
<1>6. QED
  BY <1>4, <1>5

LEMMA PickedOf ==
    ASSUME NEW s, NEW places, NEW p, p = Picked(s, places)
    PROVE  /\ Len(s) = 0 => p = <<>>
           /\ Len(s) = 1 => IF 1 \in places THEN Lone(p, s[1]) ELSE p = <<>>
           /\ Len(s) = 2 =>
                 /\ 1 \in places /\ 2 \in places => Pair(p, s[1], s[2])
                 /\ 1 \in places /\ 2 \notin places => Lone(p, s[1])
                 /\ 1 \notin places /\ 2 \in places => Lone(p, s[2])
                 /\ 1 \notin places /\ 2 \notin places => p = <<>>
<1>1. ASSUME Len(s) = 0
      PROVE  p = <<>>
  <2>1. Len(s) \in Nat
    BY <1>1
  <2>2. PICK got : Picks(got, s, places)
    BY <2>1, PickedIs
  <2>3. QED
    BY <1>1, <2>2 DEF Picks
<1>2. ASSUME Len(s) = 1
      PROVE  IF 1 \in places THEN Lone(p, s[1]) ELSE p = <<>>
  <2>1. Len(s) \in Nat
    BY <1>2
  <2>2. PICK got : Picks(got, s, places)
    BY <2>1, PickedIs
  <2>3. 1 \in 1 .. 1 /\ 1 - 1 = 0
    OBVIOUS
  <2>4. /\ got[0] = <<>>
        /\ got[1] = IF 1 \in places THEN Append(got[0], s[1]) ELSE got[0]
        /\ Picked(s, places) = got[1]
    BY <1>2, <2>2, <2>3 DEF Picks
  <2>5. QED
    BY <2>4, AppendTwo
<1>3. ASSUME Len(s) = 2
      PROVE  /\ 1 \in places /\ 2 \in places => Pair(p, s[1], s[2])
             /\ 1 \in places /\ 2 \notin places => Lone(p, s[1])
             /\ 1 \notin places /\ 2 \in places => Lone(p, s[2])
             /\ 1 \notin places /\ 2 \notin places => p = <<>>
  <2>1. Len(s) \in Nat
    BY <1>3
  <2>2. PICK got : Picks(got, s, places)
    BY <2>1, PickedIs
  <2>3. 1 \in 1 .. 2 /\ 1 - 1 = 0 /\ 2 \in 1 .. 2 /\ 2 - 1 = 1
    OBVIOUS
  <2>4. /\ got[0] = <<>>
        /\ got[1] = IF 1 \in places THEN Append(got[0], s[1]) ELSE got[0]
        /\ got[2] = IF 2 \in places THEN Append(got[1], s[2]) ELSE got[1]
        /\ Picked(s, places) = got[2]
    BY <1>3, <2>2, <2>3 DEF Picks
  <2>5. Append(<<>>, s[1]) = <<s[1]>>
    OBVIOUS
  <2>6. QED
    BY <2>4, <2>5, AppendTwo
<1>4. QED
  BY <1>1, <1>2, <1>3

\* What comes of a chunk through the filter is added up fragment by fragment.
LEMMA TakenOf ==
    ASSUME NEW f, NEW t, NEW r, NEW c, NEW end, NEW chunk, chunk = Chunk(t, r, c, end),
           NEW T, c \in Seq(T), NEW calls, NEW new,
           new = appendTools(calls, filterChatToolCalls(f, chunk).calls)
    PROVE  /\ Len(c) = 0 => new = calls
           /\ Len(c) = 1 => new = Take(f, calls, c[1])
           /\ Len(c) = 2 => new = Take(f, Take(f, calls, c[1]), c[2])
           /\ filterChatToolCalls(f, chunk).finish = Finish(f, end)
<1> DEFINE places == {i \in DOMAIN c : Passes(f, c[i])}
           kept == Picked(c, places)
           fins == Finish(f, end)
           out == [i \in DOMAIN kept |-> Renamed(f, kept[i])]
           got == filterChatToolCalls(f, chunk)
<1>1. chunk.calls = c /\ chunk.finish = end
  BY ChunkIs
<1>2. got = WithFinish(WithCalls(chunk, out), fins)
  BY <1>1, Z3 DEF filterChatToolCalls, WithFinish, WithCalls
<1>3. got = Chunk(t, r, out, fins)
  <2> HIDE DEF out, fins, got
  <2>1. WithCalls(chunk, out) = Chunk(t, r, out, end)
    BY ChunkWith
  <2>2. QED
    BY <1>2, <2>1, ChunkWith
<1>4. got.calls = out /\ got.finish = fins
  <2> HIDE DEF out, fins, got
  <2>1. QED
    BY <1>3, ChunkIs
<1>5. ASSUME kept = <<>>
      PROVE  new = calls
  <2>1. DOMAIN kept = 1 .. 0
    BY <1>5
  <2>2. DOMAIN out = 1 .. 0
    BY <2>1
  <2>3. out \in Seq({}) /\ Len(out) = 0
    BY <2>1
  <2>4. out = <<>>
    <3> HIDE DEF out
    <3>1. QED
      BY <2>3
  <2>5. QED
    BY <1>4, <2>4, AppendedOf
<1>6. ASSUME NEW a, Lone(kept, a)
      PROVE  new = appendTool(calls, Renamed(f, a))
  <2>1. DOMAIN out = {1} /\ out[1] = Renamed(f, a)
    BY <1>6 DEF Lone
  <2>2. DOMAIN out = 1 .. 1
    BY <2>1
  <2>3. out = [i \in 1 .. 1 |-> out[i]]
    BY <2>2
  <2>4. out = <<Renamed(f, a)>>
    <3> HIDE DEF out
    <3>1. QED
      BY <2>1, <2>3
  <2>5. QED
    BY <1>4, <2>4, AppendedOf
<1>7. ASSUME NEW a, NEW b, Pair(kept, a, b)
      PROVE  new = appendTool(appendTool(calls, Renamed(f, a)), Renamed(f, b))
  <2>1. DOMAIN out = {1, 2} /\ out[1] = Renamed(f, a) /\ out[2] = Renamed(f, b)
    BY <1>7 DEF Pair
  <2>2. out = [i \in 1 .. 2 |-> out[i]]
    BY <2>1
  <2>3. Len(out) = 2
    BY <2>2
  <2>4. QED
    BY <1>4, <2>1, <2>3, AppendedOfTwo
<1>8. ASSUME Len(c) = 0
      PROVE  new = calls
  <2>1. kept = <<>>
    BY <1>8, PickedOf
  <2>2. QED
    BY <2>1, <1>5
<1>9. ASSUME Len(c) = 1
      PROVE  new = Take(f, calls, c[1])
  <2>1. DOMAIN c = 1 .. 1
    BY <1>9
  <2>2. 1 \in places <=> Passes(f, c[1])
    BY <2>1
  <2> HIDE DEF places, kept
  <2>3. IF 1 \in places THEN Lone(kept, c[1]) ELSE kept = <<>>
    BY <1>9, PickedOf DEF kept
  <2>4. QED
    BY <2>2, <2>3, <1>5, <1>6 DEF Take
<1>10. ASSUME Len(c) = 2
       PROVE  new = Take(f, Take(f, calls, c[1]), c[2])
  <2>1. DOMAIN c = 1 .. 2
    BY <1>10
  <2>2. (1 \in places <=> Passes(f, c[1])) /\ (2 \in places <=> Passes(f, c[2]))
    BY <2>1
  <2> HIDE DEF places, kept
  <2>3. /\ 1 \in places /\ 2 \in places => Pair(kept, c[1], c[2])
        /\ 1 \in places /\ 2 \notin places => Lone(kept, c[1])
        /\ 1 \notin places /\ 2 \in places => Lone(kept, c[2])
        /\ 1 \notin places /\ 2 \notin places => kept = <<>>
    BY <1>10, PickedOf DEF kept
  <2>4. QED
    BY <2>2, <2>3, <1>5, <1>6, <1>7 DEF Take
<1>11. QED
  BY <1>4, <1>8, <1>9, <1>10

LEMMA VerdictKeeps ==
    ASSUME NEW d, NEW g, NEW y, NEW f, f = Screen(d, g, y), NEW frag
    PROVE  verdictFor(f, frag).keptAny = y
<1>1. CASE frag.name = NoName \/ frag.index \in DOMAIN f.verdicts
  BY <1>1, NotJudged, ScreenIs
<1>2. CASE ~(frag.name = NoName \/ frag.index \in DOMAIN f.verdicts)
  <2> DEFINE w == With(f.verdicts, frag.index, Resolves(f, frag.name))
             v == verdictFor(f, frag)
  <2>1. v = ScreenVerdicts(f, w)
    BY <1>2 DEF verdictFor, ScreenVerdicts
  <2> HIDE DEF v, w
  <2>2. v = Screen(d, w, y)
    BY <2>1, ScreenWith
  <2>3. v.keptAny = y
    BY <2>2, ScreenIs
  <2>4. QED
    BY <2>3 DEF v
<1>3. QED
  BY <1>1, <1>2

\* The filter that has judged a chunk has the verdicts on all calls sent.
LEMMA JudgedSent ==
    ASSUME NEW r, r.lane = "chat", r.form = "stream", NEW s, Numbered(s), NEW f,
           Judges(r, f, s), NEW frags, NEW t, Sending(s, frags, t)
    PROVE  Judges(r, verdicts(f, frags), t) /\ verdicts(f, frags).keptAny = f.keptAny
<1> DEFINE Good(d, u) == Judges(r, d, u) /\ d.keptAny = f.keptAny
<1>1. s \in Seq(Calls) /\ Len(s) + 1 \in Nat /\ Len(s) + 2 \in Nat
  BY DEF Numbered
<1>2. \A d, u, frag : Good(d, u) => verdictFor(d, frag).keptAny = f.keptAny
  <2>1. SUFFICES ASSUME NEW d, NEW u, NEW frag, Good(d, u)
                 PROVE  verdictFor(d, frag).keptAny = f.keptAny
    OBVIOUS
  <2>2. PICK y : d = Screen(r.declared, d.verdicts, y)
    BY <2>1 DEF Judges
  <2>3. d.keptAny = y
    BY <2>2, ScreenIs
  <2>4. verdictFor(d, frag).keptAny = y
    BY <2>2, VerdictKeeps
  <2>5. QED
    BY <2>1, <2>3, <2>4
<1>3. Good(f, s)
  OBVIOUS
<1>4. ASSUME frags = <<>>, t = s
      PROVE  Good(verdicts(f, frags), t)
  BY <1>3, <1>4, VerdictsOf
<1>5. ASSUME NEW b \in Beginnings(Len(s) + 1), frags = <<First(b)>>, t = Append(s, b)
      PROVE  Good(verdicts(f, frags), t)
  <2>1. verdicts(f, frags) = verdictFor(f, First(b))
    BY <1>5, VerdictsOf
  <2>2. Judges(r, verdictFor(f, First(b)), Append(s, b))
    BY JudgedBegun
  <2>3. verdictFor(f, First(b)).keptAny = f.keptAny
    BY <1>2, <1>3
  <2>4. QED
    BY <1>5, <2>1, <2>2, <2>3
<1>6. ASSUME NEW b \in Beginnings(Len(s) + 1), NEW c \in Beginnings(Len(s) + 2),
             frags = <<First(b), First(c)>>, t = s \o <<b, c>>
      PROVE  Good(verdicts(f, frags), t)
  <2> DEFINE one == verdictFor(f, First(b))
             u == Append(s, b)
  <2>1. Len(frags) = 2 /\ frags[1] = First(b) /\ frags[2] = First(c)
    BY <1>6
  <2>2. verdicts(f, frags) = verdictFor(one, First(c))
    BY <2>1, VerdictsOfTwo
  <2>3. b \in Calls /\ c \in Calls
    BY <1>1, BeginningsAre
  <2>4. Numbered(u) /\ Judges(r, one, u)
    BY CallBegun, JudgedBegun
  <2>5. one.keptAny = f.keptAny
    BY <1>2, <1>3
  <2>6. Len(u) + 1 = Len(s) + 2
    BY <1>1, <2>3
  <2>7. t = Append(u, c)
    BY <1>1, <1>6, <2>3, Two
  <2> HIDE DEF one, u
  <2>8. Judges(r, verdictFor(one, First(c)), Append(u, c))
    BY <2>4, <2>6, JudgedBegun
  <2>9. Good(one, u)
    BY <2>4, <2>5
  <2>10. verdictFor(one, First(c)).keptAny = f.keptAny
    <3> HIDE DEF Good
    <3>1. QED
      BY <1>2, <2>9
  <2>11. QED
    BY <2>2, <2>7, <2>8, <2>10
<1>7. ASSUME NEW i \in DOMAIN s, s[i].at < s[i].size, frags = <<Following(s[i])>>,
             t = [s EXCEPT ![i] = Further(s[i])]
      PROVE  Good(verdicts(f, frags), t)
  <2>1. verdicts(f, frags) = verdictFor(f, Following(s[i]))
    BY <1>7, VerdictsOf
  <2>2. Judges(r, verdictFor(f, Following(s[i])), [s EXCEPT ![i] = Further(s[i])])
    BY <1>7, JudgedContinued
  <2>3. verdictFor(f, Following(s[i])).keptAny = f.keptAny
    BY <1>2, <1>3
  <2>4. QED
    BY <1>7, <2>1, <2>2, <2>3, Zenon
<1> HIDE DEF Good
<1>8. Good(verdicts(f, frags), t)
  BY <1>4, <1>5, <1>6, <1>7, Zenon DEF Sending
<1>9. QED
  BY <1>8 DEF Good

\* Fragments of a call pass when the client is to get it, or when nobody knows yet.
LEMMA PassesWanted ==
    ASSUME NEW r, NEW f, NEW t, Judges(r, f, t), NEW frag, frag.index \in DOMAIN t
    PROVE  Passes(f, frag) <=> Wanted(r, t[frag.index]) \/ ~t[frag.index].named
BY DEF Passes, Judges, Wanted

\* The filter after a chunk: what passed of it is remembered.
LEMMA JudgedIs ==
    ASSUME NEW r, NEW t, NEW f, NEW chunk, NEW j, NEW g, j = verdicts(f, chunk.calls),
           g = Judged(f, chunk), Judges(r, j, t)
    PROVE  /\ Judges(r, g, t) /\ g.declared = r.declared
           /\ g.keptAny = (j.keptAny \/ \E frag \in ToSet(chunk.calls) : Passes(g, frag))
<1> DEFINE some == \E frag \in ToSet(chunk.calls) : Passes(j, frag)
           any == j.keptAny \/ some
<1>1. g = ScreenAny(j, any)
  BY DEF Judged, ScreenAny
<1>2. PICK y : j = Screen(r.declared, j.verdicts, y)
  BY DEF Judges
<1>3. g = Screen(r.declared, j.verdicts, any)
  <2> HIDE DEF any
  <2> DEFINE v == j.verdicts
  <2>1. j = Screen(r.declared, v, y)
    BY <1>2
  <2> HIDE DEF v
  <2>2. g = Screen(r.declared, v, any)
    BY <1>1, <2>1, ScreenWith
  <2>3. QED
    BY <2>2 DEF v
<1>4. g.declared = r.declared /\ g.verdicts = j.verdicts /\ g.keptAny = any
  <2> HIDE DEF any
  <2>1. QED
    BY <1>3, ScreenIs
<1>5. Judges(r, g, t)
  <2> HIDE DEF any
  <2>1. g = Screen(r.declared, g.verdicts, any)
    BY <1>3, <1>4
  <2>2. QED
    BY <1>4, <2>1 DEF Judges
<1>6. \A frag : Passes(g, frag) = Passes(j, frag)
  BY <1>4 DEF Passes
<1>7. some = \E frag \in ToSet(chunk.calls) : Passes(g, frag)
  BY <1>6
<1>8. QED
  BY <1>4, <1>5, <1>7

\* What a chunk's fragments leave of a stream that is filtered.
LEMMA ShowsSent ==
    ASSUME NEW r, r.lane = "chat", r.form = "stream", NEW f, f.declared = r.declared,
           NEW s, Numbered(s), NEW calls, Shows(r, calls, s), NEW frags, NEW t,
           Sending(s, frags, t), Judges(r, f, t), NEW new,
           Len(frags) = 0 => new = calls,
           Len(frags) = 1 => new = Take(f, calls, frags[1]),
           Len(frags) = 2 => new = Take(f, Take(f, calls, frags[1]), frags[2])
    PROVE  /\ Shows(r, new, t)
           /\ new # <<>> <=> calls # <<>> \/ \E frag \in ToSet(frags) : Passes(f, frag)
<1> DEFINE Good == /\ Shows(r, new, t)
                   /\ new # <<>> <=> calls # <<>> \/ \E frag \in ToSet(frags) : Passes(f, frag)
<1>1. s \in Seq(Calls) /\ Len(s) + 1 \in Nat /\ Len(s) + 2 \in Nat /\ DOMAIN s = 1 .. Len(s)
  BY DEF Numbered
<1>2. calls \in Seq(Frags)
  BY DEF Shows
<1>3. ASSUME frags = <<>>, t = s
      PROVE  Good
  <2>1. Len(frags) = 0 /\ ToSet(frags) = {}
    BY <1>3 DEF ToSet
  <2>2. QED
    BY <1>3, <2>1
<1>4. ASSUME NEW b \in Beginnings(Len(s) + 1), frags = <<First(b)>>, t = Append(s, b)
      PROVE  Good
  <2>1. Len(frags) = 1 /\ frags[1] = First(b) /\ ToSet(frags) = {First(b)}
    BY <1>4 DEF ToSet
  <2>2. b \in Calls /\ b.index = Len(s) + 1
    BY <1>1, BeginningsAre
  <2>3. First(b).index = Len(s) + 1
    BY <2>2, FragmentsAre
  <2>4. Len(s) + 1 \in DOMAIN t /\ t[Len(s) + 1] = b
    BY <1>1, <1>4, <2>2
  <2>5. Passes(f, First(b)) <=> Wanted(r, b) \/ ~b.named
    BY <2>3, <2>4, PassesWanted
  <2>6. Shows(r, Take(f, calls, First(b)), Append(s, b))
    BY <2>5, ShowsBegun
  <2>7. new # <<>> <=> calls # <<>> \/ Passes(f, First(b))
    BY <1>2, <2>1, TakenAny
  <2>8. QED
    BY <1>4, <2>1, <2>6, <2>7
<1>5. ASSUME NEW b \in Beginnings(Len(s) + 1), NEW c \in Beginnings(Len(s) + 2),
             frags = <<First(b), First(c)>>, t = s \o <<b, c>>
      PROVE  Good
  <2> DEFINE one == Take(f, calls, First(b))
             u == Append(s, b)
  <2>1. /\ Len(frags) = 2 /\ frags[1] = First(b) /\ frags[2] = First(c)
        /\ ToSet(frags) = {First(b), First(c)}
    BY <1>5 DEF ToSet
  <2>2. b \in Calls /\ c \in Calls /\ b.index = Len(s) + 1 /\ c.index = Len(s) + 2
    BY <1>1, BeginningsAre
  <2>3. First(b).index = Len(s) + 1 /\ First(c).index = Len(s) + 2
    BY <2>2, FragmentsAre
  <2>4. /\ Len(s) + 1 \in DOMAIN t /\ t[Len(s) + 1] = b
        /\ Len(s) + 2 \in DOMAIN t /\ t[Len(s) + 2] = c
    BY <1>1, <1>5, <2>2
  <2>5. /\ Passes(f, First(b)) <=> Wanted(r, b) \/ ~b.named
        /\ Passes(f, First(c)) <=> Wanted(r, c) \/ ~c.named
    BY <2>3, <2>4, PassesWanted
  <2>6. Numbered(u) /\ Shows(r, one, u)
    BY <2>5, CallBegun, ShowsBegun
  <2>7. Len(u) + 1 = Len(s) + 2
    BY <1>1, <2>2
  <2>8. t = Append(u, c)
    BY <1>1, <1>5, <2>2, Two
  <2>9. one # <<>> <=> calls # <<>> \/ Passes(f, First(b))
    BY <1>2, TakenAny
  <2> HIDE DEF one, u
  <2>10. Shows(r, Take(f, one, First(c)), Append(u, c))
    BY <2>5, <2>6, <2>7, ShowsBegun
  <2>11. one \in Seq(Frags)
    BY <2>6 DEF Shows
  <2>12. Take(f, one, First(c)) # <<>> <=> one # <<>> \/ Passes(f, First(c))
    BY <2>11, TakenAny
  <2>13. new = Take(f, one, First(c))
    BY <2>1 DEF one
  <2>14. QED
    BY <2>1, <2>8, <2>9, <2>10, <2>12, <2>13
<1>6. ASSUME NEW i \in DOMAIN s, s[i].at < s[i].size, frags = <<Following(s[i])>>,
             t = [s EXCEPT ![i] = Further(s[i])]
      PROVE  Good
  <2> DEFINE frag == Following(s[i])
             v == [s EXCEPT ![i] = Further(s[i])]
  <2>1. Len(frags) = 1 /\ frags[1] = frag /\ ToSet(frags) = {frag}
    BY <1>6 DEF ToSet
  <2>2. s[i] \in Calls /\ s[i].index = i
    BY DEF Numbered
  <2>3. frag.index = i
    BY <2>2, FragmentsAre
  <2>4. i \in DOMAIN t /\ t[i] = Further(s[i])
    BY <1>6
  <2>5. Further(s[i]).named
    BY <1>6, <2>2, FurtherIs
  <2>6. Passes(f, frag) <=> Wanted(r, Further(s[i]))
    BY <2>3, <2>4, <2>5, PassesWanted
  <2>7. Shows(r, Take(f, calls, frag), v)
    BY <1>6, <2>6, ShowsContinued
  <2> HIDE DEF frag
  <2>8. new # <<>> <=> calls # <<>> \/ Passes(f, frag)
    BY <1>2, <2>1, TakenAny
  <2> HIDE DEF v
  <2>9. t = v
    BY <1>6 DEF v
  <2>10. QED
    BY <2>1, <2>7, <2>8, <2>9
<1> HIDE DEF Good
<1>7. Good
  BY <1>3, <1>4, <1>5, <1>6, Zenon DEF Sending
<1>8. QED
  BY <1>7 DEF Good

LEMMA SendingFrags ==
    ASSUME NEW s, Numbered(s), NEW frags, NEW t, Sending(s, frags, t)
    PROVE  frags \in Seq(Frags)
<1>1. s \in Seq(Calls) /\ Len(s) + 1 \in Nat /\ Len(s) + 2 \in Nat
  BY DEF Numbered
<1>2. \A i \in Nat : \A b \in Beginnings(i) : First(b) \in Frags
  <2>1. ASSUME NEW i \in Nat, NEW b \in Beginnings(i)
        PROVE  First(b) \in Frags
    <3>1. b \in Calls /\ b.at \in {0, 1}
      BY BeginningsAre
    <3>2. QED
      BY <3>1, EntryIs
  <2>2. QED
    BY <2>1
<1>3. \A i \in DOMAIN s : s[i].at < s[i].size => Following(s[i]) \in Frags
  <2>1. \A i \in DOMAIN s : s[i] \in Calls
    BY <1>1
  <2>2. QED
    BY <2>1, EntryIs
<1>4. CASE frags = <<>>
  BY <1>4
<1>5. CASE \E b \in Beginnings(Len(s) + 1) : frags = <<First(b)>>
  BY <1>1, <1>2, <1>5
<1>6. CASE \E b \in Beginnings(Len(s) + 1) : \E c \in Beginnings(Len(s) + 2) :
              frags = <<First(b), First(c)>>
  BY <1>1, <1>2, <1>6
<1>7. CASE \E i \in DOMAIN s : s[i].at < s[i].size /\ frags = <<Following(s[i])>>
  BY <1>3, <1>7
<1>8. QED
  BY <1>4, <1>5, <1>6, <1>7, Zenon DEF Sending

\* While a chat stream is open, its filter has judged the calls sent and its
\* client has of them what Shows says.
Filtered ==
    ~Responses /\ Streamed /\ phase = "open" =>
        /\ Judges(request, filter, sent) /\ Shows(request, answer.calls, sent)
        /\ filter.keptAny = (answer.calls # <<>>)
        /\ reason = "" => answer.finish = ""

LEMMA FilteredFirst ==
    ASSUME Init
    PROVE  Filtered
<1>1. sent = <<>> /\ filter = newChatToolCallFilter(request.declared) /\ answer = NoAnswer
  BY DEF Init
<1>2. filter = Screen(request.declared, <<>>, FALSE)
  BY <1>1 DEF newChatToolCallFilter, Screen
<1>3. filter.verdicts = <<>> /\ filter.keptAny = FALSE
  <2> DEFINE none == <<>>
             no == FALSE
  <2>1. filter = Screen(request.declared, none, no)
    BY <1>2
  <2> HIDE DEF none, no
  <2>2. filter.verdicts = none /\ filter.keptAny = no
    BY <2>1, ScreenIs
  <2>3. QED
    BY <2>2 DEF none, no
<1>4. answer.calls = <<>> /\ answer.finish = ""
  BY <1>1 DEF NoAnswer
<1>5. DOMAIN <<>> = {}
  OBVIOUS
<1>6. Judges(request, filter, <<>>)
  BY <1>2, <1>3, <1>5 DEF Judges
<1>7. Shows(request, <<>>, <<>>)
  BY <1>5 DEF Shows, Distinct
<1>8. QED
  BY <1>1, <1>3, <1>4, <1>6, <1>7 DEF Filtered

LEMMA Filters ==
    ASSUME Common, Filtered, RelayChat
    PROVE  /\ Filtered'
           /\ answer'.finish = "tool_calls" <=>
                 reason' = "tool_calls" /\ answer'.calls # <<>>
<1>1. PICK o \in Offers :
        /\ Sends(o) /\ filter' = Judged(filter, o.chunk)
        /\ answer' = Gathered(answer, filterChatToolCalls(filter', o.chunk))
  BY DEF RelayChat
<1>2. request' = request /\ phase' = phase /\ phase = "open" /\ ~Responses /\ Streamed
  BY <1>1 DEF RelayChat, Sends
<1>3. Numbered(sent) /\ request.lane = "chat" /\ request.form = "stream"
  BY <1>2 DEF Common, Responses, Streamed
<1>4. \E text, reasoning, calls, f : Comes(o.chunk, text, reasoning, calls, f)
  BY <1>1, <1>2, SentChunk
<1>5. PICK text, reasoning, frags, f : Comes(o.chunk, text, reasoning, frags, f)
  BY <1>4
<1>6. /\ o.chunk = Chunk(text, reasoning, frags, f)
      /\ Sending(sent, frags, sent') /\ reason' = f
  BY <1>5 DEF Comes
<1>7. o.chunk.calls = frags /\ o.chunk.finish = f
  <2>1. o.chunk = Chunk(text, reasoning, frags, f)
    BY <1>6
  <2>2. QED
    BY <2>1, ChunkIs
<1>8. /\ Judges(request, filter, sent) /\ Shows(request, answer.calls, sent)
      /\ filter.keptAny = (answer.calls # <<>>)
  BY <1>2 DEF Filtered
<1>0. answer.finish = ""
  BY <1>1, <1>2 DEF Filtered, Sends
<1> DEFINE j == verdicts(filter, frags)
           g == Judged(filter, o.chunk)
           out == filterChatToolCalls(g, o.chunk)
           new == appendTools(answer.calls, out.calls)
           some == \E frag \in ToSet(frags) : Passes(g, frag)
<1>9. Judges(request, j, sent') /\ j.keptAny = filter.keptAny
  BY <1>3, <1>6, <1>8, JudgedSent
<1>10. /\ Judges(request, g, sent') /\ g.declared = request.declared
       /\ g.keptAny = (j.keptAny \/ some)
  <2>1. j = verdicts(filter, o.chunk.calls) /\ g = Judged(filter, o.chunk)
    BY <1>7
  <2> HIDE DEF j, g
  <2>2. /\ Judges(request, g, sent') /\ g.declared = request.declared
        /\ g.keptAny = (j.keptAny \/ \E frag \in ToSet(o.chunk.calls) : Passes(g, frag))
    BY <1>9, <2>1, JudgedIs
  <2>3. QED
    BY <1>7, <2>2
<1>11. frags \in Seq(Frags)
  BY <1>3, <1>6, SendingFrags
<1>12. /\ Len(frags) = 0 => new = answer.calls
       /\ Len(frags) = 1 => new = Take(g, answer.calls, frags[1])
       /\ Len(frags) = 2 => new = Take(g, Take(g, answer.calls, frags[1]), frags[2])
       /\ out.finish = Finish(g, f)
  <2>1. o.chunk = Chunk(text, reasoning, frags, f)
    BY <1>6
  <2> HIDE DEF g
  <2>2. QED
    BY <1>11, <2>1, TakenOf
<1>13. /\ Shows(request, new, sent')
       /\ new # <<>> <=> answer.calls # <<>> \/ some
  <2> DEFINE calls == answer.calls
             t == sent'
  <2>1. /\ Shows(request, calls, sent) /\ Judges(request, g, t)
        /\ Sending(sent, frags, t) /\ g.declared = request.declared
    BY <1>6, <1>8, <1>10
  <2>2. /\ Len(frags) = 0 => new = calls
        /\ Len(frags) = 1 => new = Take(g, calls, frags[1])
        /\ Len(frags) = 2 => new = Take(g, Take(g, calls, frags[1]), frags[2])
    BY <1>12
  <2> HIDE DEF g, new, calls, t
  <2>3. /\ Shows(request, new, t)
        /\ new # <<>> <=> calls # <<>> \/ \E frag \in ToSet(frags) : Passes(g, frag)
    BY <1>3, <2>1, <2>2, ShowsSent
  <2>4. QED
    BY <2>3 DEF calls, t
<1>14. /\ answer'.calls = new /\ answer'.finish = Or(Finish(g, f), "", answer.finish)
  <2> HIDE DEF out
  <2> DEFINE a == Gathered(answer, out)
  <2>1. /\ a.calls = appendTools(answer.calls, out.calls)
        /\ a.finish = Or(out.finish, "", answer.finish)
    BY GatheredIs
  <2>2. answer' = a
    BY <1>1 DEF out
  <2> HIDE DEF a
  <2>3. QED
    BY <1>12, <2>1, <2>2
<1>15. filter' = g
  BY <1>1
<1> HIDE DEF j, g, out, new, some
<1>16. g.keptAny = (new # <<>>)
  BY <1>8, <1>9, <1>10, <1>13
<1>17. answer'.finish = Finish(g, f)
  BY <1>0, <1>14 DEF Or
<1>18. f = "" => Finish(g, f) = ""
  BY DEF Finish
<1>19. Filtered'
  <2>1. reason' = "" => answer'.finish = ""
    BY <1>6, <1>17, <1>18
  <2>2. QED
    BY <1>2, <1>10, <1>13, <1>14, <1>15, <1>16, <2>1 DEF Filtered
<1>20. Finish(g, f) = "tool_calls" <=> f = "tool_calls" /\ g.keptAny
  BY DEF Finish
<1>21. answer'.finish = "tool_calls" <=> reason' = "tool_calls" /\ answer'.calls # <<>>
  BY <1>6, <1>14, <1>16, <1>17, <1>20
<1>22. QED
  BY <1>19, <1>21

\* What the client has of a stream are calls it is to get, and leftovers.
LEMMA ShownCalls ==
    ASSUME NEW r, NEW s, NEW calls, Shows(r, calls, s)
    PROVE  calls # <<>> <=> \/ \E call \in ToSet(s) : Wanted(r, call)
                            \/ \E call \in ToSet(calls) : call.name = NoName
<1>1. ASSUME calls # <<>>
      PROVE  \/ \E call \in ToSet(s) : Wanted(r, call)
             \/ \E call \in ToSet(calls) : call.name = NoName
  <2>1. calls \in Seq(Frags)
    BY DEF Shows
  <2>2. 1 \in DOMAIN calls
    BY <1>1, <2>1
  <2>3. calls[1].index \in DOMAIN s /\ Shown(r, s[calls[1].index], calls[1])
    BY <2>2 DEF Shows
  <2>4. CASE Wanted(r, s[calls[1].index])
    BY <2>3, <2>4 DEF ToSet
  <2>5. CASE ~Wanted(r, s[calls[1].index])
    BY <2>2, <2>3, <2>5 DEF Shown, ToSet
  <2>6. QED
    BY <2>4, <2>5
<1>2. ASSUME NEW call \in ToSet(s), Wanted(r, call)
      PROVE  calls # <<>>
  <2>1. PICK x \in DOMAIN s : call = s[x]
    BY DEF ToSet
  <2>2. PICK k \in DOMAIN calls : calls[k].index = x
    BY <1>2, <2>1 DEF Shows
  <2>3. DOMAIN <<>> = {}
    OBVIOUS
  <2>4. QED
    BY <2>2, <2>3
<1>3. ASSUME NEW call \in ToSet(calls)
      PROVE  calls # <<>>
  <2>1. PICK k \in DOMAIN calls : call = calls[k]
    BY DEF ToSet
  <2>2. DOMAIN <<>> = {}
    OBVIOUS
  <2>3. QED
    BY <2>1, <2>2
<1>4. QED
  BY <1>1, <1>2, <1>3

\* What the client is shown of a stream is what it was to be handed.
LEMMA ShownHanded ==
    ASSUME NEW r, NEW s, NEW calls, Shows(r, calls, s)
    PROVE  /\ \E T : calls \in Seq(T)
           /\ \E whose : HandsEntries(r, s, calls, whose)
<1> DEFINE whose == [k \in DOMAIN calls |-> calls[k].index]
<1>1. ASSUME NEW k \in DOMAIN calls
      PROVE  whose[k] \in DOMAIN s /\ Hand(r, s[whose[k]], InEntry(calls[k]))
  <2> DEFINE call == s[calls[k].index]
  <2>1. calls[k].index \in DOMAIN s /\ Shown(r, call, calls[k])
    BY DEF Shows
  <2>2. Hand(r, call, InEntry(calls[k]))
    <3>1. CASE Wanted(r, call)
      <4>1. /\ calls[k].id = Id(call) /\ calls[k].name = NameIn(r, call)
            /\ calls[k].args = Args(call)
        BY <2>1, <3>1 DEF Shown
      <4>2. QED
        BY <3>1, <4>1 DEF Hand, InEntry, WholeOf
    <3>2. CASE ~Wanted(r, call)
      <4>1. calls[k].name = NoName /\ calls[k].args = <<Piece(call, 1)>>
        BY <2>1, <3>2 DEF Shown
      <4>2. QED
        BY <3>2, <4>1 DEF Hand, InEntry
    <3>3. QED
      BY <3>1, <3>2
  <2>3. QED
    BY <2>1, <2>2
<1>2. \A k, l \in DOMAIN calls : whose[k] = whose[l] => k = l
  BY DEF Shows, Distinct
<1>3. \A x \in DOMAIN s : Wanted(r, s[x]) => \E k \in DOMAIN calls : whose[k] = x
  BY DEF Shows
<1>4. HandsEntries(r, s, calls, whose)
  <2> HIDE DEF whose
  <2>1. QED
    BY <1>1, <1>2, <1>3 DEF HandsEntries
<1>5. QED
  BY <1>4 DEF Shows

\* A chat stream ends.
LEMMA RelayHanded ==
    ASSUME WireInv, Filtered, StreamEnds, phase' = "answered"
    PROVE  InEntries'
<1>1. phase = "open" /\ Streamed /\ UNCHANGED <<request, sent>> /\ ~Fails
  BY DEF StreamEnds, Fails
<1>2. SUFFICES ASSUME ~Responses
               PROVE  /\ Numbered(sent')
                      /\ \E T : answer'.calls \in Seq(T)
                      /\ \E whose : HandsEntries(request', sent', answer'.calls, whose)
  BY <1>1 DEF InEntries, Responses
<1>3. answer' = answer
  BY <1>1, <1>2 DEF StreamEnds
<1>4. Numbered(sent) /\ Shows(request, answer.calls, sent)
  BY <1>1, <1>2 DEF WireInv, Common, Filtered
<1>5. /\ \E T : answer.calls \in Seq(T)
      /\ \E whose : HandsEntries(request, sent, answer.calls, whose)
  BY <1>4, ShownHanded
<1>6. QED
  BY <1>1, <1>3, <1>4, <1>5

----------------------------------------------------------------------------
(* How a turn is said to have ended.                                       *)

LEMMA HonestOpen ==
    ASSUME phase' = "open", Responses' \/ ~Streamed'
    PROVE  FinishHonest'
  BY DEF FinishHonest, Responses, Streamed

LEMMA HonestRelay ==
    ASSUME phase' = "open", request'.lane = "chat", Streamed', Filtered',
           answer'.finish = "tool_calls" <=> reason' = "tool_calls" /\ answer'.calls # <<>>
    PROVE  FinishHonest'
<1>1. Shows(request', answer'.calls, sent')
  BY DEF Filtered, Responses
<1> DEFINE held == \E call \in ToSet(sent') : Wanted(request', call)
           left == \E call \in ToSet(answer'.calls) : call.name = NoName
<1>2. answer'.calls # <<>> <=> held \/ left
  BY <1>1, ShownCalls
<1>3. \A call : NameFor(call)' = NameIn(request', call)
  BY DEF NameFor, NameIn, Streamed
<1>4. HasCall' <=> held
  BY <1>3 DEF HasCall, Wanted
<1>5. HasLeftover' <=> left
  BY DEF HasLeftover
<1> HIDE DEF held, left
<1>6. answer'.finish = "tool_calls" <=> reason' = "tool_calls" /\ (HasCall' \/ HasLeftover')
  BY <1>2, <1>4, <1>5
<1>7. QED
  BY <1>6 DEF FinishHonest, Responses

\* What is told of calls depends on these alone.
LEMMA SameCalls ==
    ASSUME UNCHANGED <<request, sent, answer>>
    PROVE  (HasCall' <=> HasCall) /\ (HasLeftover' <=> HasLeftover)
<1>1. \A call : NameFor(call)' = NameFor(call)
  BY DEF NameFor, Streamed
<1>2. QED
  BY <1>1 DEF HasCall, HasLeftover

LEMMA HonestStream ==
    ASSUME WireInv, FinishHonest, StreamEnds
    PROVE  FinishHonest'
<1>1. phase = "open" /\ Streamed /\ UNCHANGED <<request, sent>>
  BY DEF StreamEnds
<1>2. CASE ~Responses
  <2>1. UNCHANGED <<answer, reason>>
    BY <1>2 DEF StreamEnds
  <2>2. (HasCall' <=> HasCall) /\ (HasLeftover' <=> HasLeftover)
    BY <1>1, <2>1, SameCalls
  <2>3. QED
    BY <1>1, <1>2, <2>1, <2>2 DEF FinishHonest, Responses, Streamed
<1>3. CASE Responses
  <2>1. PICK done \in BOOLEAN :
           /\ reason' = IF done /\ reason = "" THEN "done" ELSE reason
           /\ \/ ~Over(done) /\ Fails
              \/ /\ Over(done)
                 /\ response' = Finalize(conv).wire
                 /\ phase' = "answered"
    BY <1>3 DEF StreamEnds
  <2>2. CASE Fails
    BY <1>1, <1>3, <2>2 DEF Fails, FinishHonest, Responses
  <2>3. CASE Over(done) /\ response' = Finalize(conv).wire
    <3>1. reason' # ""
      BY <2>1, <2>3 DEF Over
    <3>2. /\ Numbered(sent) /\ Follows(conv, sent) /\ reason \in Ends
          /\ conv.finish = openAIFinishReasonFromAnthropic(reason)
      BY <1>1, <1>3 DEF WireInv, Common, Mirrored
    <3>3. PICK d : Finalize(conv).wire = Whole(status(conv.finish), d.items)
      BY <3>2, FinalizeIs
    <3>4. response'.status = status(conv.finish)
      BY <2>3, <3>3, WholeIs
    <3>5. response'.status = "incomplete" <=> reason \in {"length", "max_tokens"}
      BY <3>2, <3>4, StatusIs, FinishesAre
    <3>6. reason' \in {"length", "max_tokens"} <=> reason \in {"length", "max_tokens"}
      BY <2>1
    <3>7. QED
      BY <1>1, <1>3, <3>1, <3>5, <3>6 DEF FinishHonest, Responses
  <2>4. QED
    BY <2>1, <2>2, <2>3
<1>4. QED
  BY <1>2, <1>3

LEMMA HonestAggregate ==
    ASSUME WireInv, Gathering, AggregateEnds
    PROVE  FinishHonest'
<1> DEFINE whole == AggregateOpenAIStream(answer)
<1>1. /\ phase = "open" /\ request.form = "aggregated" /\ UNCHANGED <<request, reason>>
      /\ ~Streamed /\ ~Streamed'
  BY DEF AggregateEnds, Streamed
<1>2. CASE Fails
  BY <1>1, <1>2 DEF Fails, FinishHonest
<1>3. CASE ~Fails /\ Responses
  <2>1. response' = Whole(status(whole.finish), response'.items)
    BY <1>3, AggregatedWhole
  <2>2. Gained(answer) /\ answer.finish = reason /\ reason \in Ends
    BY <1>1 DEF Gathering, WireInv, Common
  <2>3. reason \in Stops
    <3>1. request \in Requests
      BY DEF WireInv, Common
    <3>2. request.lane # "native"
      BY <1>1, <3>1 DEF Requests
    <3>3. QED
      BY <2>2, <3>2 DEF Ends, Stops
  <2>4. whole.finish = "length" <=> reason = "length"
    BY <2>2, <2>3, AggregateIs
  <2> HIDE DEF whole
  <2>5. response'.status = status(whole.finish)
    BY <2>1, WholeIs
  <2>6. reason \in {"length", "max_tokens"} <=> reason = "length"
    BY <2>3 DEF Stops
  <2>7. response'.status = "incomplete" <=> reason \in {"length", "max_tokens"}
    BY <2>4, <2>5, <2>6, StatusIs
  <2>8. QED
    BY <1>1, <1>3, <2>7 DEF FinishHonest, Responses
<1>4. CASE ~Fails /\ ~Responses
  <2>1. /\ answer' = filterUndeclaredOpenAITools(whole, request.declared)
        /\ Gained(answer) /\ answer.finish = reason /\ reason \in Ends
        /\ AllEntries(answer.calls, sent) /\ sent' = sent
    BY <1>1, <1>4 DEF AggregateEnds, Gathering, WireInv, Common
  <2>2. reason \in Stops
    BY <1>4, <2>1 DEF Ends, Stops, Responses
  <2>3. Gained(whole) /\ (whole.finish = "tool_calls" <=>
              reason = "tool_calls" \/ (reason # "length" /\ answer.calls # <<>>))
    BY <2>1, <2>2, AggregateIs
  <2>4. answer.calls # <<>> <=> sent # <<>>
    <3>1. sent \in Seq(Calls)
      BY <1>1 DEF WireInv, Common, Numbered
    <3>2. answer.calls \in Seq(Frags) /\ Len(answer.calls) = Len(sent)
      BY <2>1 DEF AllEntries
    <3>3. (sent = <<>> <=> Len(sent) = 0) /\ (answer.calls = <<>> <=> Len(answer.calls) = 0)
      BY <3>1, <3>2
    <3>4. QED
      BY <3>2, <3>3
  <2> HIDE DEF whole
  <2>5. answer'.finish = whole.finish
    BY <2>1, <2>3 DEF filterUndeclaredOpenAITools, Gained, Gain
  <2>6. QED
    BY <1>1, <1>4, <2>1, <2>3, <2>4, <2>5 DEF FinishHonest, Responses
<1>5. QED
  BY <1>2, <1>3, <1>4

LEMMA HonestAnswer ==
    ASSUME Common, Answered
    PROVE  FinishHonest'
<1>1. request.form = "plain" /\ request' = request
  BY DEF Answered
<1>2. \E f \in {"stop", "tool_calls", "length"} :
         reason' = f /\ response' = Whole(status(f), response'.items)
  BY AnsweredWhole
<1>3. PICK f \in {"stop", "tool_calls", "length"} :
         reason' = f /\ response' = Whole(status(f), response'.items)
  BY <1>2
<1>4. response'.status = status(f)
  BY <1>3, WholeIs
<1>5. response'.status = "incomplete" <=> reason' \in {"length", "max_tokens"}
  BY <1>3, <1>4, StatusIs
<1>6. ~Streamed' /\ request'.lane # "chat" /\ reason' # ""
  BY <1>1, <1>3 DEF Streamed, Common, Requests
<1>7. QED
  BY <1>5, <1>6 DEF FinishHonest

----------------------------------------------------------------------------
(* The inductive invariant of a turn.                                      *)

LanesInv == WireInv /\ Gathering /\ Filtered /\ FinishHonest /\ InItems /\ InEntries

LEMMA LanesInit ==
    ASSUME Init
    PROVE  LanesInv
<1>1. phase = "open" /\ reason = "" /\ sent = <<>> /\ answer = NoAnswer
  BY DEF Init
<1>2. Gathering
  <2>1. Gained(NoAnswer)
    <3> DEFINE t == <<>>
               f == ""
               y == FALSE
    <3>1. NoAnswer = Gain(t, t, t, f, y)
      BY DEF NoAnswer, Gain
    <3> HIDE DEF t, f, y
    <3>2. QED
      BY <3>1 DEF Gained
  <2>2. NoAnswer.calls = <<>> /\ NoAnswer.finish = ""
    BY DEF NoAnswer
  <2>3. AllEntries(<<>>, <<>>)
    <3>1. DOMAIN <<>> = {} /\ <<>> \in Seq(Frags) /\ Len(<<>>) = Len(<<>>)
      OBVIOUS
    <3>2. QED
      BY <3>1 DEF AllEntries
  <2>4. QED
    BY <1>1, <2>1, <2>2, <2>3 DEF Gathering
<1>3. FinishHonest
  <2>1. answer.finish = ""
    BY <1>1 DEF NoAnswer
  <2>2. QED
    BY <1>1, <2>1 DEF FinishHonest
<1>4. InItems /\ InEntries
  BY <1>1 DEF InItems, InEntries
<1>5. QED
  BY <1>2, <1>3, <1>4, WireInit, FilteredFirst DEF LanesInv

LEMMA LanesStep ==
    ASSUME LanesInv, [Next]_vars
    PROVE  LanesInv'
<1>1. WireInv /\ Gathering /\ Filtered /\ FinishHonest /\ InItems /\ InEntries /\ Common
  BY DEF LanesInv, WireInv
<1>2. WireInv'
  BY <1>1, WireStep
<1>3. CASE RelayChat
  <2>1. PICK o \in Offers : Sends(o)
    BY <1>3 DEF RelayChat
  <2>2. phase' = "open" /\ ~Responses' /\ request.form = "stream" /\ request' = request
    BY <1>3, <2>1 DEF RelayChat, Sends, Responses, Streamed
  <2>3. /\ Filtered'
        /\ answer'.finish = "tool_calls" <=>
              reason' = "tool_calls" /\ answer'.calls # <<>>
    BY <1>1, <1>3, Filters
  <2>4. Gathering'
    BY <2>2 DEF Gathering
  <2>5. FinishHonest'
    BY <2>2, <2>3, HonestRelay DEF Responses, Streamed
  <2>6. InItems' /\ InEntries'
    BY <2>2 DEF InItems, InEntries
  <2>7. QED
    BY <1>2, <2>3, <2>4, <2>5, <2>6 DEF LanesInv
<1>4. CASE RelayResponses
  <2>1. PICK o \in Offers : Sends(o)
    BY <1>4 DEF RelayResponses
  <2>2. phase' = "open" /\ Responses' /\ request.form = "stream" /\ request' = request
    BY <1>4, <2>1 DEF RelayResponses, Sends, Responses, Streamed
  <2>3. Filtered' /\ Gathering'
    BY <2>2 DEF Filtered, Gathering
  <2>4. FinishHonest'
    BY <2>2, HonestOpen
  <2>5. InItems' /\ InEntries'
    BY <2>2 DEF InItems, InEntries
  <2>6. QED
    BY <1>2, <2>3, <2>4, <2>5 DEF LanesInv
<1>5. CASE Gather
  <2>1. PICK o \in Offers : Sends(o)
    BY <1>5 DEF Gather
  <2>2. phase' = "open" /\ request.form = "aggregated" /\ request' = request
    BY <1>5, <2>1 DEF Gather, Sends
  <2>3. ~Streamed'
    BY <2>2 DEF Streamed
  <2>4. Gathering'
    BY <1>1, <1>5, Gathers
  <2>5. Filtered' /\ FinishHonest'
    BY <2>2, <2>3, HonestOpen DEF Filtered
  <2>6. InItems' /\ InEntries'
    BY <2>2 DEF InItems, InEntries
  <2>7. QED
    BY <1>2, <2>4, <2>5, <2>6 DEF LanesInv
<1>6. CASE StreamEnds \/ AggregateEnds \/ Breaks \/ Answered
  <2>1. UNCHANGED <<request, count>> /\ phase' \in {"answered", "failed"} /\ phase = "open"
    BY <1>1, <1>6, TurnEnds
  <2>2. Gathering' /\ Filtered'
    BY <2>1 DEF Gathering, Filtered
  <2>3. FinishHonest'
    <3>1. CASE StreamEnds
      BY <1>1, <3>1, HonestStream
    <3>2. CASE AggregateEnds
      BY <1>1, <3>2, HonestAggregate
    <3>3. CASE Breaks
      <4>1. phase' = "failed" /\ UNCHANGED <<answer, reason, request, sent>>
        BY <3>3 DEF Breaks, Fails
      <4>2. (HasCall' <=> HasCall) /\ (HasLeftover' <=> HasLeftover)
        BY <4>1, SameCalls
      <4>3. QED
        BY <1>1, <4>1, <4>2 DEF FinishHonest, Responses, Streamed
    <3>4. CASE Answered
      BY <1>1, <3>4, HonestAnswer
    <3>5. QED
      BY <1>6, <3>1, <3>2, <3>3, <3>4
  <2>4. InItems' /\ InEntries'
    <3>1. CASE phase' # "answered"
      BY <3>1 DEF InItems, InEntries
    <3>2. CASE phase' = "answered" /\ StreamEnds
      BY <1>1, <3>2, StreamHanded, RelayHanded
    <3>3. CASE phase' = "answered" /\ AggregateEnds
      BY <1>1, <3>3, AggregateHanded
    <3>4. CASE phase' = "answered" /\ Breaks
      BY <3>4 DEF Breaks, Fails
    <3>5. CASE Answered
      <4>1. InItems'
        BY <1>1, <3>5, AnswerHanded
      <4>2. Responses'
        <5>1. request \in Requests /\ request' = request /\ request.form = "plain"
          BY <1>1, <3>5 DEF Common, Answered
        <5>2. QED
          BY <5>1 DEF Requests, Responses
      <4>3. QED
        BY <4>1, <4>2 DEF InEntries
    <3>6. QED
      BY <1>6, <3>1, <3>2, <3>3, <3>4, <3>5
  <2>5. QED
    BY <1>2, <2>2, <2>3, <2>4 DEF LanesInv
<1>7. CASE UNCHANGED vars
  <2>1. /\ request' = request /\ phase' = phase /\ filter' = filter /\ conv' = conv
        /\ answer' = answer /\ response' = response /\ sent' = sent /\ reason' = reason
    BY <1>7 DEF vars
  <2>2. Gathering' /\ Filtered'
    BY <1>1, <2>1 DEF Gathering, Filtered, Responses, Streamed
  <2>3. FinishHonest'
    <3>1. (HasCall' <=> HasCall) /\ (HasLeftover' <=> HasLeftover)
      BY <2>1, SameCalls
    <3>2. QED
      BY <1>1, <2>1, <3>1 DEF FinishHonest, Responses, Streamed
  <2>4. InItems' /\ InEntries'
    BY <1>1, <2>1 DEF InItems, InEntries, Responses
  <2>5. QED
    BY <1>2, <2>2, <2>3, <2>4 DEF LanesInv
<1>8. QED
  BY <1>3, <1>4, <1>5, <1>6, <1>7 DEF Next

LEMMA LanesDeliver ==
    ASSUME LanesInv
    PROVE  CallsDelivered
<1>1. Handed
  BY ItemsHanded, EntriesHanded DEF LanesInv
<1>2. QED
  BY <1>1, HandedDelivers

\* How a turn ended is told by what the client was given and by what the
\* upstream said (keptAny, AggregateOpenAIStream, status, SawDone, SawFinish).
\* A chat stream says that there are calls to run if and only if the upstream
\* did and the client has one of them, or a leftover of one.  A gathered chat
\* says so whenever the upstream said so or made a call, kept or not, unless it
\* was cut short.  A response is incomplete if and only if the upstream was cut
\* short; and one that is answered although the upstream has not said that the
\* turn was over was gathered from a stream that broke off.
THEOREM FinishTold == Spec => []FinishHonest
<1>1. Init => LanesInv
  BY LanesInit
<1>2. LanesInv /\ [Next]_vars => LanesInv'
  BY LanesStep
<1>3. LanesInv => FinishHonest
  BY DEF LanesInv
<1>4. QED
  BY <1>1, <1>2, <1>3, PTL DEF Spec

\* Each call of the upstream reaches the client once, under its own id and
\* name, with all its arguments in order and no other call's; one that the
\* client did not declare does not reach it, but for what a chat stream had
\* relayed of it before its name came (verdictFor, handleTool, appendTool).
THEOREM CallsHanded == Spec => []CallsDelivered
<1>1. Init => LanesInv
  BY LanesInit
<1>2. LanesInv /\ [Next]_vars => LanesInv'
  BY LanesStep
<1>3. LanesInv => CallsDelivered
  BY LanesDeliver
<1>4. QED
  BY <1>1, <1>2, <1>3, PTL DEF Spec
============================================================================
