------------------------ MODULE ResponsesStreamProofs ------------------------
(***************************************************************************)
(* Theorems about ResponsesStream, proved for every bound, every set of    *)
(* names, endings and forms.                                               *)
(*                                                                         *)
(* What a streamer has gathered of an item is a function of the frames the *)
(* item has sent (Gathered), and what it has told of it is accounted for,  *)
(* item by item (Settled).                                                 *)
(***************************************************************************)
EXTENDS ResponsesStream, WellFoundedInduction, SequenceTheorems, FiniteSetTheorems,
        TLAPS

----------------------------------------------------------------------------
(* Induction, and functions defined by it.                                 *)

\* A set that has 0 and, with a number, its successor has all of them.
LEMMA EveryNat ==
    ASSUME NEW S, 0 \in S, \A n \in Nat : n \in S => n + 1 \in S
    PROVE  Nat \subseteq S
<1>1. ASSUME NEW z \in Nat, z \notin S PROVE FALSE
  <2>1. PICK x \in Nat \ S : \A y \in Nat \ S : ~(<<y, x>> \in OpToRel(<, Nat))
    <3>1. Nat \ S # {} /\ Nat \ S \subseteq Nat
      BY <1>1
    <3>2. QED
      BY <3>1, NatLessThanWellFounded, WFMin, Zenon
  <2>2. x \in Nat /\ x # 0 /\ x - 1 \in Nat /\ (x - 1) + 1 = x
    OBVIOUS
  <2>3. <<x - 1, x>> \in OpToRel(<, Nat)
    BY <2>2 DEF OpToRel
  <2>4. x - 1 \in S
    BY <2>1, <2>2, <2>3
  <2>5. (x - 1) + 1 \in S
    BY <2>2, <2>4
  <2>6. QED
    BY <2>1, <2>2, <2>5
<1>2. QED
  BY <1>1

\* Receive is what it chooses the only candidate for.
LEMMA ReceiveIs ==
    ASSUME NEW m, NEW e
    PROVE  Receive(m, e) = IF Acceptable(m, e) THEN Accepted(m, e)
                           ELSE [m EXCEPT !.valid = FALSE]
<1> DEFINE R(x) == IF Acceptable(x, e) THEN Accepted(x, e)
                   ELSE [x EXCEPT !.valid = FALSE]
<1>1. Receive(m, e) = CHOOSE r \in {R(x) : x \in {m}} : TRUE
  BY DEF Receive
<1>2. {R(x) : x \in {m}} = {R(m)}
  OBVIOUS
<1>3. QED
  BY <1>1, <1>2

\* What Received computes, event by event.
LEMMA ReceivedIs ==
    ASSUME NEW m, NEW es, Len(es) \in Nat
    PROVE  \E told :
              /\ told[0] = m
              /\ \A i \in 1 .. Len(es) : told[i] = Receive(told[i - 1], es[i])
              /\ Received(m, es) = told[Len(es)]
<1> DEFINE Body(g, k) ==
             [i \in 0 .. k |-> IF i = 0 THEN m ELSE Receive(g[i - 1], es[i])]
           Good == {k \in Nat : \E g : g = Body(g, k)}
           told == CHOOSE g : g = Body(g, Len(es))
<1>1. 0 \in Good
  <2>1. [i \in 0 .. 0 |-> m] = Body([i \in 0 .. 0 |-> m], 0)
    OBVIOUS
  <2>2. QED
    BY <2>1
<1>2. ASSUME NEW k \in Nat, k \in Good
      PROVE  k + 1 \in Good
  <2>1. PICK g : g = Body(g, k)
    BY <1>2
  <2> DEFINE h == [i \in 0 .. k + 1 |->
                     IF i <= k THEN g[i] ELSE Receive(g[k], es[k + 1])]
  <2>2. ASSUME NEW i \in 0 .. k + 1
        PROVE  h[i] = Body(h, k + 1)[i]
    <3>1. CASE i = 0
      BY <2>1, <3>1
    <3>2. CASE i # 0 /\ i <= k
      <4>1. i - 1 \in 0 .. k + 1 /\ i - 1 <= k /\ i \in 0 .. k
        BY <3>2
      <4>2. h[i - 1] = g[i - 1] /\ h[i] = g[i]
        BY <3>2, <4>1
      <4>3. g[i] = Receive(g[i - 1], es[i])
        BY <2>1, <3>2, <4>1
      <4>4. QED
        BY <3>2, <4>2, <4>3
    <3>3. CASE i = k + 1
      <4>1. i - 1 = k /\ i # 0 /\ ~(i <= k) /\ k \in 0 .. k + 1
        BY <3>3
      <4>2. h[i] = Receive(g[k], es[k + 1]) /\ h[i - 1] = g[k]
        BY <3>3, <4>1
      <4>3. QED
        BY <3>3, <4>1, <4>2
    <3>4. QED
      BY <3>1, <3>2, <3>3
  <2>3. h = Body(h, k + 1)
    <3> HIDE DEF h
    <3>1. DOMAIN h = 0 .. k + 1 /\ h = [i \in 0 .. k + 1 |-> h[i]]
      BY DEF h
    <3>2. QED
      BY <2>2, <3>1
  <2>4. \E f : f = Body(f, k + 1)
    <3> HIDE DEF h, Body
    <3>1. QED
      BY <2>3
  <2>5. QED
    BY <2>4
<1>3. Nat \subseteq Good
  <2>1. \A k \in Nat : k \in Good => k + 1 \in Good
    BY <1>2
  <2> HIDE DEF Good
  <2>2. QED
    BY <1>1, <2>1, EveryNat
<1>4. told = Body(told, Len(es))
  <2>1. \E g : g = Body(g, Len(es))
    BY <1>3
  <2>2. QED
    BY <2>1
<1>5. Received(m, es) = told[Len(es)]
  BY DEF Received
<1> HIDE DEF told
<1>6. told[0] = m
  BY <1>4
<1>7. ASSUME NEW i \in 1 .. Len(es)
      PROVE  told[i] = Receive(told[i - 1], es[i])
  BY <1>4
<1>8. QED
  BY <1>5, <1>6, <1>7

\* What Picked computes, place by place.
Picks(got, s, places) ==
    /\ got[0] = <<>>
    /\ \A i \in 1 .. Len(s) :
          got[i] = IF i \in places THEN Append(got[i - 1], s[i]) ELSE got[i - 1]
    /\ Picked(s, places) = got[Len(s)]

LEMMA PickedIs ==
    ASSUME NEW s, NEW places, Len(s) \in Nat
    PROVE  \E got : Picks(got, s, places)
<1> DEFINE Next1(x, i) == IF i \in places THEN Append(x, s[i]) ELSE x
           Body(g, k) ==
             [i \in 0 .. k |->
                IF i = 0 THEN <<>>
                ELSE IF i \in places THEN Append(g[i - 1], s[i]) ELSE g[i - 1]]
           Good == {k \in Nat : \E g : g = Body(g, k)}
           got == CHOOSE g : g = Body(g, Len(s))
<1>1. 0 \in Good
  <2>1. [i \in 0 .. 0 |-> <<>>] = Body([i \in 0 .. 0 |-> <<>>], 0)
    OBVIOUS
  <2>2. QED
    BY <2>1
<1>2. ASSUME NEW k \in Nat, k \in Good
      PROVE  k + 1 \in Good
  <2>1. PICK g : g = Body(g, k)
    BY <1>2
  <2> DEFINE h == [i \in 0 .. k + 1 |-> IF i <= k THEN g[i] ELSE Next1(g[k], k + 1)]
  <2>2. ASSUME NEW i \in 0 .. k + 1
        PROVE  h[i] = Body(h, k + 1)[i]
    <3>1. CASE i = 0
      BY <2>1, <3>1
    <3>2. CASE i # 0 /\ i <= k
      <4>1. i - 1 \in 0 .. k + 1 /\ i - 1 <= k /\ i \in 0 .. k
        BY <3>2
      <4>2. h[i - 1] = g[i - 1] /\ h[i] = g[i]
        BY <3>2, <4>1
      <4>3. g[i] = IF i \in places THEN Append(g[i - 1], s[i]) ELSE g[i - 1]
        BY <2>1, <3>2, <4>1
      <4> HIDE DEF h
      <4>4. QED
        BY <3>2, <4>2, <4>3
    <3>3. CASE i = k + 1
      <4>1. i - 1 = k /\ i # 0 /\ ~(i <= k) /\ k \in 0 .. k + 1
        BY <3>3
      <4>2. h[i] = Next1(g[k], k + 1) /\ h[i - 1] = g[k]
        BY <3>3, <4>1
      <4> HIDE DEF h
      <4>3. QED
        BY <3>3, <4>1, <4>2
    <3>4. QED
      BY <3>1, <3>2, <3>3
  <2>3. h = Body(h, k + 1)
    <3> HIDE DEF h
    <3>1. DOMAIN h = 0 .. k + 1 /\ h = [i \in 0 .. k + 1 |-> h[i]]
      BY DEF h
    <3>2. QED
      BY <2>2, <3>1
  <2>4. \E f : f = Body(f, k + 1)
    <3> HIDE DEF h, Body
    <3>1. QED
      BY <2>3
  <2> HIDE DEF h, Body
  <2>5. QED
    BY <2>4
<1>3. Nat \subseteq Good
  <2>1. \A k \in Nat : k \in Good => k + 1 \in Good
    BY <1>2
  <2> HIDE DEF Good
  <2>2. QED
    BY <1>1, <2>1, EveryNat
<1>4. got = Body(got, Len(s))
  <2>1. \E g : g = Body(g, Len(s))
    BY <1>3
  <2>2. QED
    BY <2>1
<1>5. Picked(s, places) = got[Len(s)]
  BY DEF Picked
<1> HIDE DEF got
<1>6. got[0] = <<>>
  BY <1>4
<1>7. ASSUME NEW i \in 1 .. Len(s)
      PROVE  got[i] = IF i \in places THEN Append(got[i - 1], s[i]) ELSE got[i - 1]
  <2>1. i \in 0 .. Len(s) /\ i # 0
    OBVIOUS
  <2>2. QED
    BY <1>4, <2>1
<1>8. Picks(got, s, places)
  BY <1>5, <1>6, <1>7 DEF Picks
<1>9. QED
  BY <1>8

LEMMA ReceivedOne ==
    ASSUME NEW m, NEW a
    PROVE  Received(m, <<a>>) = Receive(m, a)
<1> DEFINE es == <<a>>
<1>1. Len(es) = 1 /\ es[1] = a /\ 1 \in 1 .. 1
  OBVIOUS
<1> HIDE DEF es
<1>2. QED
  BY <1>1, ReceivedIs DEF es

LEMMA ReceivedTwo ==
    ASSUME NEW m, NEW a, NEW b
    PROVE  Received(m, <<a, b>>) = Receive(Receive(m, a), b)
<1> DEFINE es == <<a, b>>
<1>1. Len(es) = 2 /\ es[1] = a /\ es[2] = b
  OBVIOUS
<1> HIDE DEF es
<1>2. PICK told : /\ told[0] = m
                  /\ \A i \in 1 .. Len(es) : told[i] = Receive(told[i - 1], es[i])
                  /\ Received(m, es) = told[Len(es)]
  <2>1. Len(es) \in Nat
    BY <1>1
  <2>2. QED
    BY <2>1, ReceivedIs
<1>3. told[1] = Receive(m, a)
  BY <1>1, <1>2
<1>4. told[2] = Receive(told[1], b)
  BY <1>1, <1>2
<1>5. QED
  BY <1>1, <1>2, <1>3, <1>4 DEF es

LEMMA ReceivedThree ==
    ASSUME NEW m, NEW a, NEW b, NEW c
    PROVE  Received(m, <<a, b, c>>) = Receive(Receive(Receive(m, a), b), c)
<1> DEFINE es == <<a, b, c>>
<1>1. Len(es) = 3 /\ es[1] = a /\ es[2] = b /\ es[3] = c
  OBVIOUS
<1> HIDE DEF es
<1>2. PICK told : /\ told[0] = m
                  /\ \A i \in 1 .. Len(es) : told[i] = Receive(told[i - 1], es[i])
                  /\ Received(m, es) = told[Len(es)]
  <2>1. Len(es) \in Nat
    BY <1>1
  <2>2. QED
    BY <2>1, ReceivedIs
<1>3. told[1] = Receive(m, a)
  BY <1>1, <1>2
<1>4. told[2] = Receive(told[1], b)
  BY <1>1, <1>2
<1>5. told[3] = Receive(told[2], c)
  BY <1>1, <1>2
<1>6. QED
  BY <1>1, <1>2, <1>3, <1>4, <1>5 DEF es

----------------------------------------------------------------------------
(* The values of the variables.                                            *)

CallIds == Samples \X Nat
Ids == CallIds \cup {NoId}
SaidNames == Names \cup {NoName}
Parts == [call : CallIds, n : Nat, last : BOOLEAN, shaped : BOOLEAN]
SentItems ==
    [id : CallIds, form : Forms, name : Names, shaped : BOOLEAN, at : {1, 2, 3}]
Items ==
    [item : {0, 1} \X Nat, name : SaidNames, callID : Ids, args : Seq(Parts),
     sawAdded : BOOLEAN, notool : BOOLEAN, emitted : BOOLEAN]
Heads == Endings \cup {"", "plain"}

\* The blocks of a message.
TextBlocks == [kind : {"text"}, from : Samples]
ToolBlocks == [kind : {"tool_use"}, id : {0, 1, 2} \X Nat, args : Seq(Parts)]
Blocks == TextBlocks \cup ToolBlocks

\* A message that is being told, and a streamer that has not been finalized.
Tellings ==
    [blocks : Seq(Blocks), open : BOOLEAN, stop : {"none"},
     ended : {FALSE}, failed : {FALSE}, valid : {TRUE}]
Streamers ==
    [declared : BOOLEAN, items : Seq(Items), text : SUBSET Samples, head : Heads,
     open : BOOLEAN, next : Nat, toolUse : BOOLEAN, dropped : Seq(Items),
     status : {"", "completed", "incomplete"}, incomplete : BOOLEAN,
     failed : BOOLEAN, big : BOOLEAN, finalized : {FALSE}, wire : Tellings]

\* The streamer knows whether a text block is open on its wire.
InStep(c) ==
    /\ c.next = Len(c.wire.blocks)
    /\ c.wire.open = c.open
    /\ c.open => c.next > 0 /\ c.wire.blocks[c.next].kind = "text"

Ready(c) == c \in Streamers /\ InStep(c)

----------------------------------------------------------------------------
(* What the client makes of the events of a streamer.                      *)

\* A message that is still being told.
Saying(bs, open) ==
    [blocks |-> bs, open |-> open, stop |-> "none", ended |-> FALSE,
     failed |-> FALSE, valid |-> TRUE]

LEMMA SayingType ==
    ASSUME NEW bs \in Seq(Blocks), NEW open \in BOOLEAN
    PROVE  /\ Saying(bs, open) \in Tellings
           /\ Saying(bs, open).blocks = bs /\ Saying(bs, open).open = open
BY DEF Saying, Tellings

LEMMA ReadyWire ==
    ASSUME NEW c, Ready(c)
    PROVE  /\ c.wire = Saying(c.wire.blocks, c.open)
           /\ c.wire.blocks \in Seq(Blocks)
           /\ c.next \in Nat /\ c.next = Len(c.wire.blocks)
           /\ c.open \in BOOLEAN
<1>1. c.wire \in Tellings /\ c.next \in Nat /\ c.open \in BOOLEAN
  BY DEF Ready, Streamers
<1>2. c.wire = Saying(c.wire.blocks, c.wire.open)
  BY <1>1 DEF Tellings, Saying
<1>3. c.wire.blocks \in Seq(Blocks)
  BY <1>1 DEF Tellings
<1>4. QED
  BY <1>1, <1>2, <1>3 DEF Ready, InStep

\* A block is opened behind those that are complete.
LEMMA ReceiveOpened ==
    ASSUME NEW bs, NEW b, NEW i, i = Len(bs)
    PROVE  Receive(Saying(bs, FALSE), Opened(i, b)) = Saying(Append(bs, b), TRUE)
<1> DEFINE m == Saying(bs, FALSE)
<1>1. Acceptable(m, Opened(i, b))
  BY DEF Acceptable, Opened, Streaming, Saying
<1>2. Accepted(m, Opened(i, b)) = Saying(Append(bs, b), TRUE)
  BY DEF Accepted, Opened, Saying
<1>3. QED
  BY <1>1, <1>2, ReceiveIs

\* A delta of text leaves what is recorded of the message.
LEMMA ReceiveText ==
    ASSUME NEW bs, NEW i, NEW piece, i = Len(bs) - 1, bs[Len(bs)].kind # "tool_use"
    PROVE  Receive(Saying(bs, TRUE), Delta(i, piece)) = Saying(bs, TRUE)
<1> DEFINE m == Saying(bs, TRUE)
<1>1. Acceptable(m, Delta(i, piece))
  BY DEF Acceptable, Delta, Streaming, Saying
<1>2. Accepted(m, Delta(i, piece)) = m
  BY DEF Accepted, Delta, Grown, Last, Saying
<1>3. QED
  BY <1>1, <1>2, ReceiveIs

\* The open block is closed.
LEMMA ReceiveClosed ==
    ASSUME NEW bs, NEW i, i = Len(bs) - 1
    PROVE  Receive(Saying(bs, TRUE), Closed(i)) = Saying(bs, FALSE)
<1> DEFINE m == Saying(bs, TRUE)
<1>1. Acceptable(m, Closed(i))
  BY DEF Acceptable, Closed, Streaming, Saying
<1>2. Accepted(m, Closed(i)) = Saying(bs, FALSE)
  BY DEF Accepted, Closed, Saying
<1>3. QED
  BY <1>1, <1>2, ReceiveIs

\* The block of a call.
CallBlock(id, args) == [kind |-> "tool_use", id |-> id, args |-> args]

\* A call is emitted whole behind what was told before.
LEMMA ReceivedCall ==
    ASSUME NEW bs \in Seq(Blocks), NEW id \in {0, 1, 2} \X Nat, NEW args \in Seq(Parts),
           NEW i, i = Len(bs)
    PROVE  Received(Saying(bs, FALSE),
                    <<Opened(i, CallBlock(id, <<>>)), Delta(i, args), Closed(i)>>) =
             Saying(Append(bs, CallBlock(id, args)), FALSE)
<1> DEFINE empty == CallBlock(id, <<>>)
           whole == CallBlock(id, args)
           with == Append(bs, empty)
           then == Append(bs, whole)
<1>1. empty \in Blocks /\ whole \in Blocks
  BY DEF Blocks, ToolBlocks, CallBlock
<1> HIDE DEF whole
<1>2. /\ with \in Seq(Blocks) /\ Len(with) = i + 1 /\ with[i + 1] = empty
      /\ then \in Seq(Blocks) /\ Len(then) = i + 1 /\ then[i + 1] = whole
      /\ \A k \in 1 .. i : with[k] = bs[k] /\ then[k] = bs[k]
  BY <1>1, AppendProperties
<1>3. i \in Nat /\ (i + 1) - 1 = i
  OBVIOUS
<1>4. Receive(Saying(bs, FALSE), Opened(i, empty)) = Saying(with, TRUE)
  BY ReceiveOpened
<1>5. Receive(Saying(with, TRUE), Delta(i, args)) = Saying(then, TRUE)
  <2> DEFINE m == Saying(with, TRUE)
  <2>1. Acceptable(m, Delta(i, args))
    BY <1>2, <1>3 DEF Acceptable, Delta, Streaming, Saying
  <2>2. Accepted(m, Delta(i, args)) = Grown(m, args)
    BY DEF Accepted, Delta
  <2>3. Last(m.blocks) = empty /\ Len(m.blocks) = i + 1 /\ m.blocks = with
    BY <1>2 DEF Last, Saying
  <2>4. <<>> \o args = args
    OBVIOUS
  <2>5. [with EXCEPT ![i + 1].args = @ \o args] = then
    <3> DEFINE grown == [with EXCEPT ![i + 1].args = @ \o args]
    <3>1. grown = [with EXCEPT ![i + 1] = whole]
      <4>1. [empty EXCEPT !.args = @ \o args] = whole
        BY <2>4 DEF CallBlock, whole
      <4> HIDE DEF with, empty
      <4>2. grown = [with EXCEPT ![i + 1] = [with[i + 1] EXCEPT !.args = @ \o args]]
        OBVIOUS
      <4>3. QED
        BY <1>2, <4>1, <4>2
    <3> HIDE DEF with, then, grown
    <3>2. grown \in Seq(Blocks) /\ Len(grown) = Len(with)
          /\ \A k \in 1 .. Len(with) :
                grown[k] = IF k = i + 1 THEN whole ELSE with[k]
      BY <1>1, <1>2, <1>3, <3>1, ExceptSeq
    <3>3. \A k \in 1 .. i + 1 : k \in 1 .. i \/ k = i + 1
      BY <1>3
    <3>4. \A k \in 1 .. i + 1 : grown[k] = then[k]
      BY <1>2, <1>3, <3>2, <3>3
    <3>5. grown = then
      BY <1>2, <3>2, <3>4, SeqEqual
    <3>6. QED
      BY <3>5 DEF grown
  <2>6. Grown(m, args) = [m EXCEPT !.blocks = [with EXCEPT ![i + 1].args = @ \o args]]
    <3>1. empty.kind = "tool_use"
      BY DEF CallBlock
    <3> HIDE DEF with, m, empty
    <3>2. QED
      BY <2>3, <3>1 DEF Grown
  <2>7. Grown(m, args) = Saying(then, TRUE)
    <3> HIDE DEF then
    <3>1. QED
      BY <2>5, <2>6 DEF Saying
  <2>8. QED
    BY <2>1, <2>2, <2>7, ReceiveIs
<1>6. Receive(Saying(then, TRUE), Closed(i)) = Saying(then, FALSE)
  BY <1>2, <1>3, ReceiveClosed
<1>7. QED
  <2> HIDE DEF with, then, empty
  <2> DEFINE m == Saying(bs, FALSE)
             a == Opened(i, empty)
             b == Delta(i, args)
             c == Closed(i)
  <2>1. Receive(Receive(Receive(m, a), b), c) = Saying(then, FALSE)
    BY <1>4, <1>5, <1>6
  <2> HIDE DEF m, a, b, c
  <2>2. Received(m, <<a, b, c>>) = Receive(Receive(Receive(m, a), b), c)
    BY ReceivedThree
  <2>3. Received(m, <<a, b, c>>) = Saying(then, FALSE)
    BY <2>1, <2>2
  <2>4. QED
    BY <2>3 DEF m, a, b, c, then, empty, whole

\* The end of a message.
Closing(bs, stop) ==
    [blocks |-> bs, open |-> FALSE, stop |-> stop, ended |-> TRUE,
     failed |-> FALSE, valid |-> TRUE]

LEMMA ReceivedEnd ==
    ASSUME NEW bs, NEW reason, reason # "none"
    PROVE  Received(Saying(bs, FALSE), <<Stopping(reason), Stopped>>) =
             Closing(bs, reason)
<1> DEFINE m == Saying(bs, FALSE)
           n == [m EXCEPT !.stop = reason]
<1>1. Receive(m, Stopping(reason)) = n
  <2>1. Acceptable(m, Stopping(reason))
    BY DEF Acceptable, Stopping, Streaming, Saying
  <2>2. Accepted(m, Stopping(reason)) = n
    BY DEF Accepted, Stopping
  <2>3. QED
    BY <2>1, <2>2, ReceiveIs
<1>2. Receive(n, Stopped) = Closing(bs, reason)
  <2>1. Acceptable(n, Stopped)
    BY DEF Acceptable, Stopped, Saying
  <2>2. Accepted(n, Stopped) = Closing(bs, reason)
    BY DEF Accepted, Stopped, Closing, Saying
  <2>3. QED
    BY <2>1, <2>2, ReceiveIs
<1> HIDE DEF m, n
<1>3. Received(m, <<Stopping(reason), Stopped>>) = Receive(Receive(m, Stopping(reason)), Stopped)
  BY ReceivedTwo
<1>4. QED
  BY <1>1, <1>2, <1>3 DEF m

\* An error, to whom all was in order so far.
LEMMA ReceivedError ==
    ASSUME NEW m, m.valid
    PROVE  Received(m, <<Error>>) = [m EXCEPT !.failed = TRUE]
<1>1. Received(m, <<Error>>) = Receive(m, Error)
  BY ReceivedOne
<1>2. Acceptable(m, Error) /\ Accepted(m, Error) = [m EXCEPT !.failed = TRUE]
  BY DEF Acceptable, Accepted, Error
<1>3. QED
  BY <1>1, <1>2, ReceiveIs

----------------------------------------------------------------------------
(* Text.                                                                   *)

\* d knows of items and outcome what c knows.
Alike(c, d) ==
    /\ d.declared = c.declared /\ d.items = c.items
    /\ d.toolUse = c.toolUse /\ d.dropped = c.dropped
    /\ d.status = c.status /\ d.incomplete = c.incomplete
    /\ d.failed = c.failed /\ d.big = c.big

\* Events are told, and nothing else changes.
LEMMA ToldIs ==
    ASSUME NEW c \in Streamers, NEW events, NEW w \in Tellings,
           Received(c.wire, events) = w
    PROVE  /\ Told(c, events) \in Streamers /\ Told(c, events).wire = w
           /\ Told(c, events).open = c.open /\ Told(c, events).next = c.next
           /\ Told(c, events).text = c.text /\ Told(c, events).head = c.head
           /\ Alike(c, Told(c, events))
<1>1. Told(c, events) = [c EXCEPT !.wire = w]
  BY DEF Told
<1>2. [c EXCEPT !.wire = w] \in Streamers
  BY DEF Streamers
<1> DEFINE d == [c EXCEPT !.wire = w]
<1>3. /\ d.wire = w /\ d.open = c.open /\ d.next = c.next
      /\ d.text = c.text /\ d.head = c.head
  BY DEF Streamers
<1>4. Alike(c, d)
  BY DEF Alike, Streamers
<1>5. QED
  BY <1>1, <1>2, <1>3, <1>4

\* The text block for sample from is open.
Opens(c, d, from) ==
    /\ Ready(d) /\ d.open /\ Alike(c, d)
    /\ d.text = c.text /\ d.head = c.head
    /\ d.wire = IF c.open THEN c.wire
                ELSE Saying(Append(c.wire.blocks, [kind |-> "text", from |-> from]), TRUE)

LEMMA OpensText ==
    ASSUME NEW c, Ready(c), NEW from \in Samples
    PROVE  Opens(c, ensureTextBlock(c, from), from)
<1> DEFINE d == ensureTextBlock(c, from)
           b == [kind |-> "text", from |-> from]
           bs == c.wire.blocks
<1>1. c \in Streamers /\ InStep(c)
  BY DEF Ready
<1>2. CASE c.open
  <2>1. d = c
    BY <1>2 DEF ensureTextBlock
  <2>2. QED
    BY <1>2, <2>1 DEF Opens, Alike
<1>3. CASE ~c.open
  <2> DEFINE t == Told(c, <<Opened(c.next, b)>>)
             w == Saying(Append(bs, b), TRUE)
  <2>1. c.wire = Saying(bs, FALSE) /\ bs \in Seq(Blocks) /\ c.next = Len(bs)
        /\ c.next \in Nat
    BY <1>3, ReadyWire
  <2>2. b \in Blocks
    BY DEF Blocks, TextBlocks
  <2>3. /\ Append(bs, b) \in Seq(Blocks) /\ Len(Append(bs, b)) = c.next + 1
        /\ Append(bs, b)[c.next + 1] = b
    BY <2>1, <2>2, AppendProperties
  <2>4. w \in Tellings /\ w.blocks = Append(bs, b) /\ w.open = TRUE
    BY <2>3, SayingType
  <2>5. Received(c.wire, <<Opened(c.next, b)>>) = w
    <3>1. Received(c.wire, <<Opened(c.next, b)>>) = Receive(c.wire, Opened(c.next, b))
      BY ReceivedOne
    <3>2. QED
      BY <2>1, <3>1, ReceiveOpened
  <2>6. /\ t \in Streamers /\ t.wire = w
        /\ t.open = c.open /\ t.next = c.next
        /\ t.text = c.text /\ t.head = c.head /\ Alike(c, t)
    <3> HIDE DEF w
    <3>1. QED
      BY <1>1, <2>4, <2>5, ToldIs
  <2>7. d = [t EXCEPT !.open = TRUE, !.next = @ + 1]
    BY <1>3 DEF ensureTextBlock
  <2> HIDE DEF t, w, d
  <2>8. /\ d \in Streamers /\ d.open = TRUE /\ d.next = c.next + 1 /\ d.wire = t.wire
        /\ d.text = t.text /\ d.head = t.head /\ Alike(t, d)
    <3> DEFINE n == c.next + 1
               u == [t EXCEPT !.open = TRUE]
    <3>1. t \in Streamers /\ n \in Nat /\ d = [u EXCEPT !.next = n]
      BY <2>1, <2>6, <2>7
    <3> HIDE DEF n
    <3>2. /\ u \in Streamers /\ u.open = TRUE /\ u.wire = t.wire
          /\ u.text = t.text /\ u.head = t.head
      BY <3>1 DEF Streamers
    <3>3. Alike(t, u)
      BY <3>1 DEF Streamers, Alike
    <3> HIDE DEF u
    <3>4. /\ d \in Streamers /\ d.open = TRUE /\ d.next = n /\ d.wire = t.wire
          /\ d.text = t.text /\ d.head = t.head
      BY <3>1, <3>2 DEF Streamers
    <3>5. Alike(u, d)
      BY <3>1, <3>2 DEF Streamers, Alike
    <3>6. QED
      BY <3>3, <3>4, <3>5 DEF Alike, n
  <2>9. b.kind = "text"
    OBVIOUS
  <2> HIDE DEF b, bs
  <2>10. InStep(d)
    <3>1. d.wire.open = TRUE /\ d.wire.blocks = Append(bs, b) /\ d.next = c.next + 1
          /\ d.open = TRUE
      BY <2>4, <2>6, <2>8
    <3>2. d.next = Len(d.wire.blocks) /\ d.next > 0
      BY <2>1, <2>3, <3>1
    <3>3. d.wire.blocks[d.next] = b
      BY <2>3, <3>1
    <3>4. QED
      BY <2>9, <3>1, <3>2, <3>3 DEF InStep
  <2>11. d.wire = IF c.open THEN c.wire ELSE w
    BY <1>3, <2>6, <2>8
  <2>12. QED
    BY <2>6, <2>8, <2>10, <2>11 DEF Opens, Ready, Alike, w, b, bs, d
<1>4. QED
  BY <1>2, <1>3

\* The text block is closed.
Closes(c, d) ==
    /\ Ready(d) /\ ~d.open /\ Alike(c, d)
    /\ d.text = c.text /\ d.head = c.head
    /\ d.wire = Saying(c.wire.blocks, FALSE)
    /\ d.wire.blocks = c.wire.blocks

LEMMA ClosesText ==
    ASSUME NEW c, Ready(c)
    PROVE  Closes(c, closeTextBlock(c))
<1> DEFINE d == closeTextBlock(c)
           bs == c.wire.blocks
           w == Saying(bs, FALSE)
<1>1. c \in Streamers /\ InStep(c)
  BY DEF Ready
<1>2. bs \in Seq(Blocks) /\ c.next = Len(bs) /\ c.next \in Nat
      /\ c.wire = Saying(bs, c.open) /\ c.open \in BOOLEAN
  BY ReadyWire
<1>3. w \in Tellings /\ w.blocks = bs /\ w.open = FALSE
  BY <1>2, SayingType
<1>4. CASE ~c.open
  <2>1. d = c /\ c.open = FALSE
    BY <1>2, <1>4 DEF closeTextBlock
  <2>2. QED
    BY <1>2, <1>3, <2>1 DEF Closes, Alike
<1>5. CASE c.open
  <2> DEFINE events == <<Closed(c.next - 1)>>
             t == Told(c, events)
  <2>1. c.wire = Saying(bs, TRUE)
    BY <1>2, <1>5
  <2>2. Received(c.wire, events) = w
    <3>1. Received(c.wire, events) = Receive(c.wire, Closed(c.next - 1))
      BY ReceivedOne
    <3>2. QED
      BY <1>2, <2>1, <3>1, ReceiveClosed
  <2>3. /\ t \in Streamers /\ t.wire = w
        /\ t.open = c.open /\ t.next = c.next
        /\ t.text = c.text /\ t.head = c.head /\ Alike(c, t)
    <3> HIDE DEF w, events
    <3>1. QED
      BY <1>1, <1>3, <2>2, ToldIs
  <2>4. d = [t EXCEPT !.open = FALSE]
    BY <1>5 DEF closeTextBlock
  <2> HIDE DEF t, w, d
  <2>5. /\ d \in Streamers /\ d.open = FALSE /\ d.next = t.next /\ d.wire = t.wire
        /\ d.text = t.text /\ d.head = t.head /\ Alike(t, d)
    <3>1. /\ d \in Streamers /\ d.open = FALSE /\ d.next = t.next /\ d.wire = t.wire
          /\ d.text = t.text /\ d.head = t.head
      BY <2>3, <2>4 DEF Streamers
    <3>2. Alike(t, d)
      BY <2>3, <2>4 DEF Streamers, Alike
    <3>3. QED
      BY <3>1, <3>2
  <2>6. InStep(d)
    BY <1>2, <1>3, <2>3, <2>5 DEF InStep
  <2>7. QED
    BY <1>3, <2>3, <2>5, <2>6 DEF Closes, Ready, Alike, w, d
<1>6. QED
  BY <1>4, <1>5

\* What a client sees of text for sample from: nothing new, the end of a text
\* block, or a text block that was not there.
SaysText(m, n, from) ==
    \/ n = m
    \/ n = Saying(m.blocks, FALSE)
    \/ /\ ~m.open
       /\ \E open \in BOOLEAN :
             n = Saying(Append(m.blocks, [kind |-> "text", from |-> from]), open)

\* What a text frame of sample from does.
Spoken(c, d, from) ==
    /\ Ready(d) /\ Alike(c, d) /\ SaysText(c.wire, d.wire, from)
    /\ d.text \in {c.text, c.text \cup {from}}
    /\ d.head = c.head \/ from \in d.text

LEMMA NarratedIs ==
    ASSUME NEW c, Ready(c), NEW from \in Samples, NEW ends \in Heads
    PROVE  Spoken(c, Narrated(c, from, ends), from) /\ Narrated(c, from, ends).open
<1> DEFINE t == ensureTextBlock(c, from)
           u == Told(t, <<Delta(t.next - 1, <<>>)>>)
           d == Narrated(c, from, ends)
           text == IF ends = "" THEN t.text ELSE t.text \cup {from}
           head == Headed(t.head, ends)
<1>1. Opens(c, t, from)
  BY OpensText
<1> HIDE DEF t
<1>2. Ready(t) /\ t.open /\ t \in Streamers /\ InStep(t) /\ t.wire \in Tellings
  BY <1>1 DEF Opens, Ready, Streamers
<1>3. Received(t.wire, <<Delta(t.next - 1, <<>>)>>) = t.wire
  <2> DEFINE bs == t.wire.blocks
             i == t.next - 1
             e == Delta(i, <<>>)
  <2>1. t.wire = Saying(bs, t.open) /\ t.next = Len(bs) /\ t.open \in BOOLEAN
    BY <1>2, ReadyWire
  <2>2. t.open = TRUE
    BY <1>2, <2>1
  <2>3. bs[Len(bs)].kind = "text"
    BY <1>2, <2>1 DEF InStep
  <2>4. Receive(Saying(bs, TRUE), e) = Saying(bs, TRUE)
    <3>1. bs[Len(bs)].kind # "tool_use" /\ i = Len(bs) - 1
      BY <2>1, <2>3
    <3> HIDE DEF bs, i
    <3>2. QED
      BY <3>1, ReceiveText
  <2>5. Received(t.wire, <<e>>) = Receive(t.wire, e)
    BY ReceivedOne
  <2>6. QED
    BY <2>1, <2>2, <2>4, <2>5
<1>4. /\ u \in Streamers /\ u.wire = t.wire /\ u.open = t.open /\ u.next = t.next
      /\ u.text = t.text /\ u.head = t.head /\ Alike(t, u)
  BY <1>2, <1>3, ToldIs
<1>5. text \in SUBSET Samples /\ head \in Heads
  BY <1>2 DEF Streamers, Headed
<1>6. d = [u EXCEPT !.text = text, !.head = head]
  BY <1>4 DEF Narrated, t
<1>7. text \in {c.text, c.text \cup {from}} /\ (head = c.head \/ from \in text)
  BY <1>1 DEF Opens, Headed
<1> HIDE DEF u, d, text, head
<1> DEFINE v == [u EXCEPT !.text = text]
<1>8. /\ v \in Streamers /\ v.text = text /\ v.wire = u.wire /\ v.open = u.open
      /\ v.next = u.next
  BY <1>4, <1>5 DEF Streamers
<1>9. Alike(u, v)
  BY <1>4 DEF Streamers, Alike
<1>10. d = [v EXCEPT !.head = head]
  BY <1>4, <1>6
<1> HIDE DEF v
<1>11. /\ d \in Streamers /\ d.text = text /\ d.head = head /\ d.wire = v.wire
       /\ d.open = v.open /\ d.next = v.next
  BY <1>5, <1>8, <1>10 DEF Streamers
<1>12. Alike(v, d)
  BY <1>8, <1>10 DEF Streamers, Alike
<1>13. Alike(c, d)
  BY <1>1, <1>4, <1>9, <1>12 DEF Opens, Alike
<1>14. Ready(d) /\ d.open
  BY <1>2, <1>4, <1>8, <1>11 DEF Ready, InStep
<1>15. SaysText(c.wire, d.wire, from)
  <2>1. d.wire = t.wire
    BY <1>4, <1>8, <1>11
  <2>2. c.open \in BOOLEAN /\ (c.wire.open = c.open)
    BY DEF Ready, Streamers, InStep
  <2>3. QED
    BY <1>1, <2>1, <2>2 DEF Opens, SaysText
<1>16. QED
  BY <1>7, <1>11, <1>13, <1>14, <1>15 DEF Spoken, d

LEMMA ClosedToo ==
    ASSUME NEW c, NEW t, NEW from, Spoken(c, t, from)
    PROVE  Spoken(c, closeTextBlock(t), from)
<1> DEFINE d == closeTextBlock(t)
<1>1. Closes(t, d)
  BY ClosesText DEF Spoken
<1> HIDE DEF d
<1>2. Ready(d) /\ Alike(c, d) /\ d.text = t.text /\ d.head = t.head
  BY <1>1 DEF Spoken, Closes, Alike
<1>3. d.wire = Saying(t.wire.blocks, FALSE)
  BY <1>1 DEF Closes
<1>4. SaysText(c.wire, d.wire, from)
  <2>1. CASE t.wire = c.wire
    BY <1>3, <2>1 DEF SaysText
  <2>2. CASE t.wire = Saying(c.wire.blocks, FALSE)
    BY <1>3, <2>2 DEF SaysText, Saying
  <2>3. CASE /\ ~c.wire.open
             /\ \E open \in BOOLEAN :
                  t.wire = Saying(Append(c.wire.blocks, [kind |-> "text", from |-> from]), open)
    <3> DEFINE more == Append(c.wire.blocks, [kind |-> "text", from |-> from])
    <3>1. t.wire.blocks = more
      <4> HIDE DEF more
      <4>1. QED
        BY <2>3 DEF Saying, more
    <3>2. d.wire = Saying(more, FALSE)
      BY <1>3, <3>1
    <3>3. QED
      BY <2>3, <3>2 DEF SaysText
  <2>4. QED
    BY <2>1, <2>2, <2>3 DEF Spoken, SaysText
<1>5. QED
  BY <1>2, <1>4 DEF Spoken, d

LEMMA TextDoneIs ==
    ASSUME NEW c, Ready(c), NEW f, f.from \in Samples, f.ends \in Heads
    PROVE  Spoken(c, outputTextDone(c, f), f.from)
<1>1. CASE f.ends # "" /\ c.text = {}
  BY <1>1, NarratedIs, ClosedToo DEF outputTextDone
<1>2. CASE ~(f.ends # "" /\ c.text = {})
  <2>1. Spoken(c, c, f.from)
    BY DEF Spoken, Alike, SaysText
  <2>2. outputTextDone(c, f) = closeTextBlock(c)
    BY <1>2 DEF outputTextDone
  <2>3. QED
    BY <2>1, <2>2, ClosedToo
<1>3. QED
  BY <1>1, <1>2

----------------------------------------------------------------------------
(* The frames of an item.                                                  *)

\* Deltas, form by form.
DeltasBy(form, k) ==
    CASE form \in {"standard", "hidden"} -> IF k = 1 THEN 0 ELSE 1
      [] form \in {"prefilled", "flat", "reasoning"} -> 0
      [] form \in {"named", "split"} -> 1
      [] form = "bare" -> k

LEMMA DeltasIs ==
    ASSUME NEW form \in AllForms, NEW k \in 1 .. Len(Program(form))
    PROVE  Deltas(form, k) = DeltasBy(form, k)
<1> DEFINE S == {n \in 1 .. k : Program(form)[n] \in {"delta", "named_delta"}}
<1>1. Deltas(form, k) = Cardinality(S)
  BY DEF Deltas
<1>2. \/ S = {} /\ DeltasBy(form, k) = 0
      \/ (\E n \in Nat : S = {n}) /\ DeltasBy(form, k) = 1
      \/ S = {1, 2} /\ DeltasBy(form, k) = 2
  <2> DEFINE P == Program(form)
  <2>1. CASE form = "standard"
    <3>1. Len(P) = 3 /\ P[1] = "added" /\ P[2] = "delta" /\ P[3] = "done"
      BY <2>1 DEF Program
    <3> HIDE DEF P
    <3>2. S = IF k = 1 THEN {} ELSE {2}
      BY <3>1 DEF P
    <3>3. QED
      BY <2>1, <3>2 DEF DeltasBy
  <2>2. CASE form = "hidden"
    <3>1. Len(P) = 3 /\ P[1] = "added_other" /\ P[2] = "delta" /\ P[3] = "done_other"
      BY <2>2 DEF Program
    <3> HIDE DEF P
    <3>2. S = IF k = 1 THEN {} ELSE {2}
      BY <3>1 DEF P
    <3>3. QED
      BY <2>2, <3>2 DEF DeltasBy
  <2>3. CASE form = "prefilled"
    <3>1. Len(P) = 2 /\ P[1] = "added_full" /\ P[2] = "done"
      BY <2>3 DEF Program
    <3> HIDE DEF P
    <3>2. S = {}
      BY <3>1 DEF P
    <3>3. QED
      BY <2>3, <3>2 DEF DeltasBy
  <2>4. CASE form = "flat"
    <3>1. Len(P) = 1 /\ P[1] = "flat_done"
      BY <2>4 DEF Program
    <3> HIDE DEF P
    <3>2. S = {}
      BY <3>1 DEF P
    <3>3. QED
      BY <2>4, <3>2 DEF DeltasBy
  <2>5. CASE form = "reasoning"
    <3>1. Len(P) = 2 /\ P[1] = "added_other" /\ P[2] = "marker"
      BY <2>5 DEF Program
    <3> HIDE DEF P
    <3>2. S = {}
      BY <3>1 DEF P
    <3>3. QED
      BY <2>5, <3>2 DEF DeltasBy
  <2>6. CASE form = "named"
    <3>1. Len(P) = 2 /\ P[1] = "named_delta" /\ P[2] = "marker"
      BY <2>6 DEF Program
    <3> HIDE DEF P
    <3>2. S = {1}
      BY <3>1 DEF P
    <3>3. QED
      BY <2>6, <3>2 DEF DeltasBy
  <2>7. CASE form = "split"
    <3>1. Len(P) = 3 /\ P[1] = "delta" /\ P[2] = "args_done" /\ P[3] = "done"
      BY <2>7 DEF Program
    <3> HIDE DEF P
    <3>2. S = {1}
      BY <3>1 DEF P
    <3>3. QED
      BY <2>7, <3>2 DEF DeltasBy
  <2>8. CASE form = "bare"
    <3>1. Len(P) = 2 /\ P[1] = "delta" /\ P[2] = "delta"
      BY <2>8 DEF Program
    <3> HIDE DEF P
    <3>2. S = IF k = 1 THEN {1} ELSE {1, 2}
      BY <3>1 DEF P
    <3>3. k \in {1, 2}
      BY <3>1 DEF P
    <3>4. QED
      BY <2>8, <3>2, <3>3 DEF DeltasBy
  <2>9. QED
    BY <2>1, <2>2, <2>3, <2>4, <2>5, <2>6, <2>7, <2>8 DEF AllForms
<1> HIDE DEF S
<1>3. Cardinality({}) = 0 /\ \A n : Cardinality({n}) = 1
  BY FS_EmptySet, FS_Singleton
<1>4. Cardinality({1, 2}) = 2
  <2>1. 2 \notin {1} /\ {1, 2} = {1} \cup {2}
    OBVIOUS
  <2>2. IsFiniteSet({1}) /\ Cardinality({1}) = 1
    BY <1>3, FS_Singleton
  <2>3. Cardinality({1} \cup {2}) = Cardinality({1}) + 1
    BY <2>1, <2>2, FS_AddElement
  <2>4. QED
    BY <2>1, <2>2, <2>3
<1>5. QED
  BY <1>1, <1>2, <1>3, <1>4

\* The length of a program and the pieces of a call, form by form.
Frames(form) ==
    CASE form \in {"standard", "split", "hidden"} -> 3
      [] form \in {"prefilled", "named", "bare", "reasoning"} -> 2
      [] form = "flat" -> 1

LEMMA ProgramIs ==
    ASSUME NEW form \in AllForms
    PROVE  /\ Len(Program(form)) = Frames(form) /\ Frames(form) \in {1, 2, 3}
           /\ Size(form) = IF form = "bare" THEN 2 ELSE 1
<1>1. Len(Program(form)) = Frames(form) /\ Frames(form) \in {1, 2, 3}
  BY DEF AllForms, Program, Frames
<1>2. Deltas(form, Len(Program(form))) = DeltasBy(form, Frames(form))
  <2>1. Frames(form) \in 1 .. Len(Program(form))
    BY <1>1
  <2>2. QED
    BY <1>1, <2>1, DeltasIs
<1>3. DeltasBy(form, Frames(form)) = 2 <=> form = "bare"
  BY DEF AllForms, DeltasBy, Frames
<1>4. QED
  BY <1>1, <1>2, <1>3 DEF Size

\* What has come of an item when call.at of its frames have: pieces, a name
\* and an id, and whether it was said to be done.
Came(call) ==
    CASE call.form \in {"standard", "hidden"} -> IF call.at = 1 THEN 0 ELSE 1
      [] call.form \in {"prefilled", "flat", "named", "split"} -> 1
      [] call.form = "bare" -> call.at
      [] call.form = "reasoning" -> 0

Named(call) ==
    \/ call.form \in {"standard", "prefilled", "flat", "named"}
    \/ call.form = "split" /\ call.at = 3

Over(call) ==
    \/ call.form \in {"standard", "hidden"} /\ call.at = 3
    \/ call.form \in {"prefilled", "named", "reasoning"} /\ call.at = 2
    \/ call.form = "split" /\ call.at > 1
    \/ call.form = "flat"

\* What a streamer gathers of it.
Gathered(call, base) ==
    [item |-> <<base, call.id[2]>>,
     name |-> IF Named(call) THEN call.name ELSE NoName,
     callID |-> IF Named(call) THEN call.id ELSE NoId,
     args |-> Pieces(call, 1, Came(call)),
     sawAdded |-> call.form \in {"standard", "prefilled", "hidden", "reasoning"},
     notool |-> call.form \in {"hidden", "reasoning"},
     emitted |-> Over(call)]

\* An item that sends its frames in order.
Proper(call) ==
    /\ call \in SentItems /\ call.at <= Frames(call.form)
    /\ call.form \in {"hidden", "reasoning", "bare"} => call.name = NoName

LEMMA ArrivedIs ==
    ASSUME NEW call, Proper(call)
    PROVE  Arrived(call) = Came(call) /\ Came(call) \in {0, 1, 2}
<1> DEFINE form == call.form
           k == call.at
           P == Program(form)
           ends == {"added_full", "flat_done", "args_done", "done"}
<1>1. form \in AllForms /\ k \in {1, 2, 3} /\ k <= Frames(form)
  BY ResponsesAssumption DEF Proper, SentItems
<1>2. /\ Len(P) = Frames(form)
      /\ Size(form) = IF form = "bare" THEN 2 ELSE 1
      /\ Deltas(form, k) = DeltasBy(form, k)
  <2>1. /\ Len(P) = Frames(form) /\ Frames(form) \in {1, 2, 3}
        /\ Size(form) = IF form = "bare" THEN 2 ELSE 1
    BY <1>1, ProgramIs
  <2>2. k \in 1 .. Len(P)
    BY <1>1, <2>1
  <2>3. QED
    BY <1>1, <2>1, <2>2, DeltasIs
<1>3. (\E n \in 1 .. k : P[n] \in ends) <=>
          \/ form = "standard" /\ k = 3
          \/ form \in {"prefilled", "flat"}
          \/ form = "split" /\ k > 1
  <2>1. CASE form \in {"standard", "hidden", "split"}
    BY <1>1, <2>1 DEF Program
  <2>2. CASE form \in {"prefilled", "named", "bare", "reasoning", "flat"}
    BY <1>1, <2>2 DEF Program, Frames
  <2>3. QED
    BY <1>1, <2>1, <2>2 DEF AllForms
<1> HIDE DEF P
<1>4. Arrived(call) = IF \E n \in 1 .. k : P[n] \in ends THEN Size(form)
                      ELSE Deltas(form, k)
  BY DEF Arrived, P
<1>5. QED
  BY <1>1, <1>2, <1>3, <1>4 DEF Came, DeltasBy, AllForms, Frames

----------------------------------------------------------------------------
(* What the frames of an item leave.                                       *)

LEMMA PiecesAre ==
    ASSUME NEW call \in SentItems
    PROVE  /\ \A n \in {0, 1, 2} : /\ Pieces(call, 1, n) \in Seq(Parts)
                                   /\ Len(Pieces(call, 1, n)) = n
                                   /\ Pieces(call, 1, n) = <<>> <=> n = 0
                                   /\ n > 0 => Pieces(call, 1, n)[1].call = call.id
           /\ Pieces(call, 2, 2) \in Seq(Parts)
           /\ Pieces(call, 1, 1) \o Pieces(call, 2, 2) = Pieces(call, 1, 2)
           /\ \A n \in {0, 1, 2} : /\ <<>> \o Pieces(call, 1, n) = Pieces(call, 1, n)
                                   /\ Pieces(call, 1, n) \o <<>> = Pieces(call, 1, n)
<1> DEFINE piece ==
             [n \in Nat |-> [call |-> call.id, n |-> n, last |-> n = Size(call.form),
                             shaped |-> call.shaped]]
<1>1. piece \in [Nat -> Parts] /\ \A n \in Nat : piece[n].call = call.id
  BY DEF SentItems, Parts
<1>2. \A from \in {1, 2}, to \in {0, 1, 2} :
        Pieces(call, from, to) = [n \in 1 .. (to - from + 1) |-> piece[from + n - 1]]
  BY DEF Pieces
<1> HIDE DEF piece
<1>3. \A n \in {0, 1, 2} : Pieces(call, 1, n) = [k \in 1 .. n |-> piece[k]]
  <2>1. \A n \in {0, 1, 2} : n - 1 + 1 = n
    OBVIOUS
  <2>2. \A n \in {0, 1, 2} : [k \in 1 .. n |-> piece[1 + k - 1]] = [k \in 1 .. n |-> piece[k]]
    OBVIOUS
  <2>3. QED
    BY <1>2, <2>1, <2>2
<1>4. \A n \in {0, 1, 2} : /\ [k \in 1 .. n |-> piece[k]] \in Seq(Parts)
                           /\ Len([k \in 1 .. n |-> piece[k]]) = n
                           /\ \A k \in 1 .. n : [m \in 1 .. n |-> piece[m]][k] = piece[k]
  BY <1>1
<1>5. \A n \in {0, 1, 2} : /\ Pieces(call, 1, n) \in Seq(Parts)
                           /\ Len(Pieces(call, 1, n)) = n
                           /\ Pieces(call, 1, n) = <<>> <=> n = 0
                           /\ n > 0 => Pieces(call, 1, n)[1].call = call.id
                           /\ \A k \in 1 .. n : Pieces(call, 1, n)[k] = piece[k]
  <2> DEFINE Right(n, a) ==
               /\ a \in Seq(Parts) /\ Len(a) = n /\ (a = <<>> <=> n = 0)
               /\ n > 0 => a[1].call = call.id
               /\ \A k \in 1 .. n : a[k] = piece[k]
  <2>1. ASSUME NEW n \in {0, 1, 2}, NEW a, a = Pieces(call, 1, n)
        PROVE  /\ a \in Seq(Parts) /\ Len(a) = n /\ (a = <<>> <=> n = 0)
               /\ n > 0 => a[1].call = call.id
               /\ \A k \in 1 .. n : a[k] = piece[k]
    <3>1. a \in Seq(Parts) /\ Len(a) = n /\ \A k \in 1 .. n : a[k] = piece[k]
      <4> DEFINE g == [k \in 1 .. n |-> piece[k]]
      <4>1. g \in Seq(Parts) /\ Len(g) = n /\ \A k \in 1 .. n : g[k] = piece[k]
        BY <1>4
      <4>2. a = g
        BY <1>3, <2>1
      <4> HIDE DEF g
      <4>3. QED
        BY <4>1, <4>2
    <3>2. a = <<>> <=> n = 0
      BY <3>1
    <3>3. n > 0 => a[1].call = call.id
      BY <1>1, <3>1
    <3>4. QED
      BY <3>1, <3>2, <3>3
  <2>2. \A n \in {0, 1, 2} : \A a : a = Pieces(call, 1, n) => Right(n, a)
    BY <2>1
  <2> HIDE DEF Right
  <2>3. \A n \in {0, 1, 2} : Right(n, Pieces(call, 1, n))
    BY <2>2
  <2>4. TAKE n \in {0, 1, 2}
  <2>5. Right(n, Pieces(call, 1, n))
    BY <2>3
  <2>6. QED
    BY <2>5 DEF Right
<1>6. Pieces(call, 2, 2) \in Seq(Parts) /\ Len(Pieces(call, 2, 2)) = 1
      /\ Pieces(call, 2, 2)[1] = piece[2]
  <2> DEFINE b == [n \in 1 .. (2 - 2 + 1) |-> piece[2 + n - 1]]
  <2>1. b = [n \in 1 .. 1 |-> piece[n + 1]]
    OBVIOUS
  <2>2. b \in Seq(Parts) /\ Len(b) = 1 /\ b[1] = piece[2]
    BY <1>1, <2>1
  <2>3. QED
    BY <1>2, <2>2
<1>7. Pieces(call, 1, 1) \o Pieces(call, 2, 2) = Pieces(call, 1, 2)
  <2> DEFINE a == Pieces(call, 1, 1)
             b == Pieces(call, 2, 2)
             c == Pieces(call, 1, 2)
  <2>1. a \in Seq(Parts) /\ Len(a) = 1 /\ a[1] = piece[1]
    BY <1>5
  <2>2. c \in Seq(Parts) /\ Len(c) = 2 /\ c[1] = piece[1] /\ c[2] = piece[2]
    BY <1>5
  <2> HIDE DEF a, b, c
  <2>3. b \in Seq(Parts) /\ Len(b) = 1 /\ b[1] = piece[2]
    BY <1>6 DEF b
  <2>4. a \o b \in Seq(Parts) /\ Len(a \o b) = 2 /\ (a \o b)[1] = piece[1]
        /\ (a \o b)[2] = piece[2]
    <3>1. /\ a \o b \in Seq(Parts) /\ Len(a \o b) = Len(a) + Len(b)
          /\ \A i \in 1 .. Len(a) + Len(b) :
                (a \o b)[i] = IF i <= Len(a) THEN a[i] ELSE b[i - Len(a)]
      BY <2>1, <2>3, ConcatProperties
    <3> DEFINE ab == a \o b
    <3> HIDE DEF ab
    <3>2. ab \in Seq(Parts) /\ Len(ab) = 2 /\ ab[1] = piece[1] /\ ab[2] = piece[2]
      BY <2>1, <2>3, <3>1 DEF ab
    <3>3. QED
      BY <3>2 DEF ab
  <2>5. a \o b = c
    <3> DEFINE ab == a \o b
    <3>1. ab \in Seq(Parts) /\ Len(ab) = 2 /\ ab[1] = piece[1] /\ ab[2] = piece[2]
      BY <2>4
    <3> HIDE DEF ab
    <3>2. \A k \in 1 .. 2 : k = 1 \/ k = 2
      OBVIOUS
    <3>3. ab \in Seq(Parts) /\ Len(ab) = Len(c) /\ \A k \in 1 .. Len(ab) : ab[k] = c[k]
      BY <2>2, <3>1, <3>2
    <3>4. ab = c
      BY <2>2, <3>3, SeqEqual
    <3>5. QED
      BY <3>4 DEF ab
  <2>6. QED
    BY <2>5 DEF a, b, c
<1>8. \A n \in {0, 1, 2} : /\ <<>> \o Pieces(call, 1, n) = Pieces(call, 1, n)
                           /\ Pieces(call, 1, n) \o <<>> = Pieces(call, 1, n)
  <2>1. \A q \in Seq(Parts) : <<>> \o q = q /\ q \o <<>> = q
    OBVIOUS
  <2>2. QED
    BY <1>5, <2>1
<1>9. QED
  BY <1>5, <1>6, <1>7, <1>8

LEMMA SameItem ==
    ASSUME NEW p \in Items, NEW r \in Items,
           p.item = r.item, p.name = r.name, p.callID = r.callID, p.args = r.args,
           p.sawAdded = r.sawAdded, p.notool = r.notool, p.emitted = r.emitted
    PROVE  p = r
BY DEF Items

\* A frame about an item.
ItemFrame(f) ==
    /\ f.type \in {"delta", "added", "done"}
    /\ f.kind \in {"function_call", "other", "none"}
    /\ f.name \in SaidNames /\ f.callID \in Ids /\ f.args \in Seq(Parts)

LEMMA DeltaLeaves ==
    ASSUME NEW p \in Items, NEW f, ItemFrame(f)
    PROVE  LET r == WithDelta(p, f)
           IN  /\ r \in Items /\ r.item = p.item
               /\ r.name = Or(p.name, NoName, f.name)
               /\ r.callID = Or(p.callID, NoId, f.callID)
               /\ r.args = p.args \o f.args
               /\ r.sawAdded = p.sawAdded /\ r.notool = p.notool /\ r.emitted = p.emitted
<1> DEFINE name == Or(p.name, NoName, f.name)
           id == Or(p.callID, NoId, f.callID)
           args == p.args \o f.args
           r == WithDelta(p, f)
<1>1. name \in SaidNames /\ id \in Ids /\ args \in Seq(Parts)
  BY DEF Items, ItemFrame, Or
<1>2. r = [p EXCEPT !.name = name, !.callID = id, !.args = args]
  BY DEF WithDelta
<1> HIDE DEF name, id, args, r
<1>3. r = [[[p EXCEPT !.name = name] EXCEPT !.callID = id] EXCEPT !.args = args]
  BY <1>2
<1> DEFINE p1 == [p EXCEPT !.name = name]
           p2 == [p1 EXCEPT !.callID = id]
<1>4. p1 \in Items /\ p1.name = name /\ p1.item = p.item /\ p1.callID = p.callID
      /\ p1.args = p.args /\ p1.sawAdded = p.sawAdded /\ p1.notool = p.notool
      /\ p1.emitted = p.emitted
  BY <1>1 DEF Items
<1> HIDE DEF p1
<1>5. p2 \in Items /\ p2.name = p1.name /\ p2.item = p1.item /\ p2.callID = id
      /\ p2.args = p1.args /\ p2.sawAdded = p1.sawAdded /\ p2.notool = p1.notool
      /\ p2.emitted = p1.emitted
  BY <1>1, <1>4 DEF Items
<1>6. r = [p2 EXCEPT !.args = args]
  BY <1>3 DEF p1
<1> HIDE DEF p2
<1>7. r \in Items /\ r.name = p2.name /\ r.item = p2.item /\ r.callID = p2.callID
      /\ r.args = args /\ r.sawAdded = p2.sawAdded /\ r.notool = p2.notool
      /\ r.emitted = p2.emitted
  BY <1>1, <1>5, <1>6 DEF Items
<1>8. QED
  BY <1>4, <1>5, <1>7 DEF name, id, args, r

LEMMA AddedLeaves ==
    ASSUME NEW p \in Items, NEW f, ItemFrame(f)
    PROVE  LET r == WithAdded(p, f)
           IN  /\ r \in Items /\ r.item = p.item
               /\ r.name = IF f.kind = "function_call" THEN Or(f.name, NoName, p.name)
                           ELSE p.name
               /\ r.callID = IF f.kind = "function_call" THEN Or(f.callID, NoId, p.callID)
                             ELSE p.callID
               /\ r.args = IF f.kind = "function_call" THEN p.args \o f.args ELSE p.args
               /\ r.sawAdded = TRUE
               /\ r.notool = IF f.kind = "function_call" THEN p.notool ELSE TRUE
               /\ r.emitted = p.emitted
<1> DEFINE r == WithAdded(p, f)
           s == [p EXCEPT !.sawAdded = TRUE]
<1>1. s \in Items /\ s.item = p.item /\ s.name = p.name /\ s.callID = p.callID
      /\ s.args = p.args /\ s.sawAdded = TRUE /\ s.notool = p.notool
      /\ s.emitted = p.emitted
  BY DEF Items
<1>2. CASE f.kind # "function_call"
  <2>1. r = [s EXCEPT !.notool = TRUE]
    BY <1>2 DEF WithAdded
  <2> HIDE DEF r, s
  <2>2. r \in Items /\ r.item = s.item /\ r.name = s.name /\ r.callID = s.callID
        /\ r.args = s.args /\ r.sawAdded = s.sawAdded /\ r.notool = TRUE
        /\ r.emitted = s.emitted
    BY <1>1, <2>1 DEF Items
  <2>3. QED
    BY <1>1, <1>2, <2>2 DEF r
<1>3. CASE f.kind = "function_call"
  <2> DEFINE name == Or(f.name, NoName, p.name)
             id == Or(f.callID, NoId, p.callID)
             args == p.args \o f.args
  <2>1. name \in SaidNames /\ id \in Ids /\ args \in Seq(Parts)
    BY DEF Items, ItemFrame, Or
  <2>2. r = [p EXCEPT !.sawAdded = TRUE, !.name = name, !.callID = id, !.args = args]
    BY <1>3 DEF WithAdded
  <2> HIDE DEF name, id, args, r
  <2>3. r = [[[s EXCEPT !.name = name] EXCEPT !.callID = id] EXCEPT !.args = args]
    BY <2>2
  <2> HIDE DEF s
  <2> DEFINE p1 == [s EXCEPT !.name = name]
             p2 == [p1 EXCEPT !.callID = id]
  <2>4. p1 \in Items /\ p1.name = name /\ p1.item = s.item /\ p1.callID = s.callID
        /\ p1.args = s.args /\ p1.sawAdded = s.sawAdded /\ p1.notool = s.notool
        /\ p1.emitted = s.emitted
    BY <1>1, <2>1 DEF Items
  <2> HIDE DEF p1
  <2>5. p2 \in Items /\ p2.name = p1.name /\ p2.item = p1.item /\ p2.callID = id
        /\ p2.args = p1.args /\ p2.sawAdded = p1.sawAdded /\ p2.notool = p1.notool
        /\ p2.emitted = p1.emitted
    BY <2>1, <2>4 DEF Items
  <2>6. r = [p2 EXCEPT !.args = args]
    BY <2>3 DEF p1
  <2> HIDE DEF p2
  <2>7. r \in Items /\ r.name = p2.name /\ r.item = p2.item /\ r.callID = p2.callID
        /\ r.args = args /\ r.sawAdded = p2.sawAdded /\ r.notool = p2.notool
        /\ r.emitted = p2.emitted
    BY <2>1, <2>5, <2>6 DEF Items
  <2>8. QED
    BY <1>1, <1>3, <2>4, <2>5, <2>7 DEF name, id, args, r
<1>4. QED
  BY <1>2, <1>3

LEMMA DoneLeaves ==
    ASSUME NEW p \in Items, NEW f, ItemFrame(f), f.kind # "other"
    PROVE  LET r == WithDone(p, f)
           IN  /\ r \in Items /\ r.item = p.item
               /\ r.name = Or(f.name, NoName, p.name)
               /\ r.callID = Or(f.callID, NoId, p.callID)
               /\ r.args = Or(f.args, <<>>, p.args)
               /\ r.sawAdded = p.sawAdded
               /\ r.notool = (p.notool /\ ~SaysCall(p, f))
               /\ r.emitted = p.emitted
<1> DEFINE name == Or(f.name, NoName, p.name)
           id == Or(f.callID, NoId, p.callID)
           args == Or(f.args, <<>>, p.args)
           notool == p.notool /\ ~SaysCall(p, f)
           r == WithDone(p, f)
<1>1. /\ name \in SaidNames /\ id \in Ids /\ args \in Seq(Parts)
      /\ notool \in BOOLEAN
  BY DEF Items, ItemFrame, Or
<1>2. r = [p EXCEPT !.notool = notool, !.name = name, !.callID = id, !.args = args]
  BY DEF WithDone
<1> HIDE DEF name, id, args, notool, r
<1>3. r = [[[[p EXCEPT !.notool = notool] EXCEPT !.name = name] EXCEPT !.callID = id]
             EXCEPT !.args = args]
  BY <1>2
<1> DEFINE p0 == [p EXCEPT !.notool = notool]
           p1 == [p0 EXCEPT !.name = name]
           p2 == [p1 EXCEPT !.callID = id]
<1>4. p0 \in Items /\ p0.name = p.name /\ p0.item = p.item /\ p0.callID = p.callID
      /\ p0.args = p.args /\ p0.sawAdded = p.sawAdded /\ p0.notool = notool
      /\ p0.emitted = p.emitted
  BY <1>1 DEF Items
<1> HIDE DEF p0
<1>5. p1 \in Items /\ p1.name = name /\ p1.item = p0.item /\ p1.callID = p0.callID
      /\ p1.args = p0.args /\ p1.sawAdded = p0.sawAdded /\ p1.notool = p0.notool
      /\ p1.emitted = p0.emitted
  BY <1>1, <1>4 DEF Items
<1> HIDE DEF p1
<1>6. p2 \in Items /\ p2.name = p1.name /\ p2.item = p1.item /\ p2.callID = id
      /\ p2.args = p1.args /\ p2.sawAdded = p1.sawAdded /\ p2.notool = p1.notool
      /\ p2.emitted = p1.emitted
  BY <1>1, <1>5 DEF Items
<1>7. r = [p2 EXCEPT !.args = args]
  BY <1>3 DEF p0, p1
<1> HIDE DEF p2
<1>8. r \in Items /\ r.name = p2.name /\ r.item = p2.item /\ r.callID = p2.callID
      /\ r.args = args /\ r.sawAdded = p2.sawAdded /\ r.notool = p2.notool
      /\ r.emitted = p2.emitted
  BY <1>1, <1>6, <1>7 DEF Items
<1>9. QED
  BY <1>4, <1>5, <1>6, <1>8 DEF name, id, args, notool, r

\* An item that nothing is known of yet.
Blank(id) ==
    [item |-> id, name |-> NoName, callID |-> NoId, args |-> <<>>,
     sawAdded |-> FALSE, notool |-> FALSE, emitted |-> FALSE]

LEMMA BlankIs ==
    ASSUME NEW id \in {0, 1} \X Nat
    PROVE  /\ Blank(id) \in Items /\ Blank(id).item = id
           /\ Blank(id).name = NoName /\ Blank(id).callID = NoId
           /\ Blank(id).args = <<>> /\ Blank(id).sawAdded = FALSE
           /\ Blank(id).notool = FALSE /\ Blank(id).emitted = FALSE
<1>1. NoName \in SaidNames /\ NoId \in Ids /\ <<>> \in Seq(Parts)
  BY DEF SaidNames, Ids
<1>2. QED
  BY <1>1 DEF Blank, Items

LEMMA GatheredIs ==
    ASSUME NEW call, Proper(call), NEW base \in {0, 1}
    PROVE  LET r == Gathered(call, base)
           IN  /\ r \in Items /\ r.item = <<base, call.id[2]>>
               /\ r.name = IF Named(call) THEN call.name ELSE NoName
               /\ r.callID = IF Named(call) THEN call.id ELSE NoId
               /\ r.args = Pieces(call, 1, Came(call))
               /\ r.sawAdded =
                     (call.form \in {"standard", "prefilled", "hidden", "reasoning"})
               /\ r.notool = (call.form \in {"hidden", "reasoning"})
               /\ r.emitted = Over(call)
<1> DEFINE item == <<base, call.id[2]>>
           name == IF Named(call) THEN call.name ELSE NoName
           id == IF Named(call) THEN call.id ELSE NoId
           args == Pieces(call, 1, Came(call))
           saw == call.form \in {"standard", "prefilled", "hidden", "reasoning"}
           notool == call.form \in {"hidden", "reasoning"}
           over == Over(call)
           r == Gathered(call, base)
<1>1. r = [item |-> item, name |-> name, callID |-> id, args |-> args,
           sawAdded |-> saw, notool |-> notool, emitted |-> over]
  BY DEF Gathered
<1>2. item \in {0, 1} \X Nat /\ name \in SaidNames /\ id \in Ids
  BY DEF Proper, SentItems, CallIds, SaidNames, Ids
<1>3. args \in Seq(Parts)
  BY PiecesAre, ArrivedIs DEF Proper
<1>4. saw \in BOOLEAN /\ notool \in BOOLEAN
  OBVIOUS
<1>5. over \in BOOLEAN
  BY DEF Over
<1> HIDE DEF item, name, id, args, saw, notool, over, r
<1>6. r \in Items
  BY <1>1, <1>2, <1>3, <1>4, <1>5 DEF Items
<1>7. /\ r.item = item /\ r.name = name /\ r.callID = id /\ r.args = args
      /\ r.sawAdded = saw /\ r.notool = notool /\ r.emitted = over
  BY <1>1
<1>8. QED
  BY <1>6, <1>7 DEF item, name, id, args, saw, notool, over, r

\* What a call's item needs to be told of.
LEMMA SilenceIs ==
    ASSUME NEW call, Proper(call), NEW base \in {0, 1}
    PROVE  Silent(Gathered(call, base)) <=> ~Evident(call)
<1> DEFINE r == Gathered(call, base)
           form == call.form
<1>1. form \in AllForms /\ call.at \in {1, 2, 3} /\ call.at <= Frames(form)
  BY ResponsesAssumption DEF Proper, SentItems
<1>2. /\ r.name = IF Named(call) THEN call.name ELSE NoName
      /\ r.callID = IF Named(call) THEN call.id ELSE NoId
      /\ r.args = Pieces(call, 1, Came(call))
      /\ r.sawAdded = (form \in {"standard", "prefilled", "hidden", "reasoning"})
      /\ r.notool = (form \in {"hidden", "reasoning"})
  BY GatheredIs
<1>3. r.args = <<>> <=> Came(call) = 0
  BY <1>2, PiecesAre, ArrivedIs DEF Proper
<1>4. Came(call) = 0 <=> \/ form \in {"standard", "hidden"} /\ call.at = 1
                         \/ form = "reasoning"
  BY <1>1 DEF Came, AllForms
<1>5. call.id # NoId
  BY ResponsesAssumption DEF Proper, SentItems, CallIds
<1> HIDE DEF r
<1>6. Silent(r) <=> /\ Came(call) = 0
                    /\ r.notool \/ (r.name = NoName /\ ~r.sawAdded /\ r.callID = NoId)
  BY <1>3 DEF Silent
<1>7. CASE form \in {"hidden", "reasoning"}
  <2>1. r.notool
    BY <1>2, <1>7
  <2>2. Silent(r) <=> Came(call) = 0
    BY <1>6, <2>1
  <2>3. Evident(call) <=> form = "hidden" /\ call.at # 1
    BY <1>1, <1>7 DEF Evident
  <2>4. QED
    BY <1>4, <1>7, <2>2, <2>3 DEF r
<1>8. CASE form \notin {"hidden", "reasoning"}
  <2>1. Evident(call)
    BY <1>8 DEF Evident
  <2>2. ~r.notool
    BY <1>2, <1>8
  <2>3. form = "standard" => r.sawAdded
    BY <1>2
  <2>4. ~Silent(r)
    BY <1>4, <1>6, <1>8, <2>2, <2>3
  <2>5. QED
    BY <2>1, <2>4 DEF r
<1>9. QED
  BY <1>7, <1>8

\* A frame about an item as the item's latest one, of the stream itself (base
\* is 0) or of the replay (base is 1).
Tells(f, call, base) ==
    LET kind == Program(call.form)[call.at]
        whose == kind \in {"added", "added_full", "named_delta", "flat_done", "done"}
    IN  /\ f.type = CASE kind \in {"added", "added_full", "added_other"} -> "added"
                      [] kind \in {"delta", "named_delta"} -> "delta"
                      [] OTHER -> "done"
        /\ f.item = <<base, call.id[2]>>
        /\ f.kind = CASE kind \in {"added", "added_full", "done"} -> "function_call"
                      [] kind \in {"added_other", "done_other"} -> "other"
                      [] OTHER -> "none"
        /\ f.name = IF whose THEN call.name ELSE NoName
        /\ f.callID = IF whose THEN call.id ELSE NoId
        /\ f.args = CASE kind \in {"delta", "named_delta"} ->
                           LET n == DeltasBy(call.form, call.at) IN Pieces(call, n, n)
                      [] kind \in {"added_full", "flat_done", "args_done", "done"} ->
                           Pieces(call, 1, Size(call.form))
                      [] OTHER -> <<>>

LEMMA FrameTells ==
    ASSUME NEW call, Proper(call)
    PROVE  /\ Tells(Frame(call, call.at), call, 0)
           /\ Tells(Namespaced(Frame(call, call.at)), call, 1)
<1> DEFINE f == Frame(call, call.at)
           g == Namespaced(f)
           kind == Program(call.form)[call.at]
           whose == kind \in {"added", "added_full", "named_delta", "flat_done", "done"}
           type == CASE kind \in {"added", "added_full", "added_other"} -> "added"
                     [] kind \in {"delta", "named_delta"} -> "delta"
                     [] OTHER -> "done"
           what == CASE kind \in {"added", "added_full", "done"} -> "function_call"
                     [] kind \in {"added_other", "done_other"} -> "other"
                     [] OTHER -> "none"
           name == IF whose THEN call.name ELSE NoName
           id == IF whose THEN call.id ELSE NoId
           args == CASE kind \in {"delta", "named_delta"} ->
                          LET n == DeltasBy(call.form, call.at) IN Pieces(call, n, n)
                     [] kind \in {"added_full", "flat_done", "args_done", "done"} ->
                          Pieces(call, 1, Size(call.form))
                     [] OTHER -> <<>>
<1>1. Deltas(call.form, call.at) = DeltasBy(call.form, call.at)
  <2>1. call.form \in AllForms /\ call.at \in {1, 2, 3} /\ call.at <= Frames(call.form)
    BY ResponsesAssumption DEF Proper, SentItems
  <2>2. call.at \in 1 .. Len(Program(call.form))
    BY <2>1, ProgramIs
  <2>3. QED
    BY <2>1, <2>2, DeltasIs
<1>2. f = [type |-> type, item |-> <<0, call.id[2]>>, kind |-> what, name |-> name,
           callID |-> id, args |-> args]
  BY <1>1 DEF Frame
<1> HIDE DEF f
<1>3. Tells(f, call, 0)
  <2> HIDE DEF type, what, name, id, args
  <2>1. /\ f.type = type /\ f.item = <<0, call.id[2]>> /\ f.kind = what
        /\ f.name = name /\ f.callID = id /\ f.args = args
    BY <1>2
  <2>2. QED
    BY <2>1 DEF Tells, type, what, name, id, args
<1>4. type \in {"delta", "added", "done"}
  OBVIOUS
<1> HIDE DEF type, what, name, id, args, kind
<1>5. g = [f EXCEPT !.item[1] = 1]
  BY <1>2, <1>4 DEF Namespaced
<1> HIDE DEF g
<1>6. /\ g.type = f.type /\ g.kind = f.kind /\ g.name = f.name
      /\ g.callID = f.callID /\ g.args = f.args
  BY <1>2, <1>5
<1>7. g.item = <<1, call.id[2]>>
  <2>1. f.item = <<0, call.id[2]>>
    BY <1>2
  <2>2. g.item = [f.item EXCEPT ![1] = 1]
    BY <1>2, <1>5
  <2>3. QED
    BY <2>1, <2>2
<1>8. Tells(g, call, 1)
  BY <1>3, <1>6, <1>7 DEF Tells
<1>9. QED
  BY <1>3, <1>8 DEF f, g

\* The kinds of frames, with the forms and places that have them.
LEMMA KindIs ==
    ASSUME NEW call, Proper(call)
    PROVE  LET kind == Program(call.form)[call.at]
               form == call.form
               at == call.at
           IN  \/ kind = "added" /\ form = "standard" /\ at = 1
               \/ kind = "added_full" /\ form = "prefilled" /\ at = 1
               \/ kind = "added_other" /\ form \in {"hidden", "reasoning"} /\ at = 1
               \/ /\ kind = "delta"
                  /\ \/ form \in {"standard", "hidden"} /\ at = 2
                     \/ form \in {"bare", "split"} /\ at = 1
                     \/ form = "bare" /\ at = 2
               \/ kind = "named_delta" /\ form = "named" /\ at = 1
               \/ /\ kind = "done"
                  /\ \/ form \in {"standard", "split"} /\ at = 3
                     \/ form = "prefilled" /\ at = 2
               \/ kind = "flat_done" /\ form = "flat" /\ at = 1
               \/ kind = "args_done" /\ form = "split" /\ at = 2
               \/ kind = "marker" /\ form \in {"named", "reasoning"} /\ at = 2
               \/ kind = "done_other" /\ form = "hidden" /\ at = 3
<1>1. call.form \in AllForms /\ call.at \in {1, 2, 3} /\ call.at <= Frames(call.form)
  BY ResponsesAssumption DEF Proper, SentItems
<1>2. CASE call.form \in {"standard", "prefilled", "hidden", "reasoning"}
  BY <1>1, <1>2 DEF Program, Frames
<1>3. CASE call.form \in {"flat", "named", "bare", "split"}
  BY <1>1, <1>3 DEF Program, Frames
<1>4. QED
  BY <1>1, <1>2, <1>3 DEF AllForms

\* What is known of an item before its latest frame.
Sofar(call, base) ==
    IF call.at = 1 THEN Blank(<<base, call.id[2]>>)
    ELSE Gathered([call EXCEPT !.at = @ - 1], base)

LEMMA SofarIs ==
    ASSUME NEW call, Proper(call), NEW base \in {0, 1}
    PROVE  LET p == Sofar(call, base)
           IN  /\ p \in Items /\ p.item = <<base, call.id[2]>>
               /\ p.name = IF call.at # 1 /\ call.form \in {"standard", "prefilled", "named"}
                           THEN call.name ELSE NoName
               /\ p.callID = IF call.at # 1 /\ call.form \in {"standard", "prefilled", "named"}
                             THEN call.id ELSE NoId
               /\ p.args = Pieces(call, 1,
                             IF \/ call.form \in {"prefilled", "named", "split", "bare"} /\ call.at # 1
                                \/ call.form \in {"standard", "hidden"} /\ call.at = 3
                             THEN 1 ELSE 0)
               /\ p.sawAdded = (call.at # 1 /\ call.form \in {"standard", "prefilled", "hidden",
                                                         "reasoning"})
               /\ p.notool = (call.at # 1 /\ call.form \in {"hidden", "reasoning"})
               /\ p.emitted = (call.form = "split" /\ call.at = 3)
<1>1. /\ call \in SentItems /\ call.form \in AllForms /\ call.at \in {1, 2, 3}
      /\ call.at <= Frames(call.form) /\ call.id[2] \in Nat
  BY ResponsesAssumption DEF Proper, SentItems, CallIds
<1>2. Pieces(call, 1, 0) = <<>>
  BY <1>1, PiecesAre
<1>3. CASE call.at = 1
  <2>1. Sofar(call, base) = Blank(<<base, call.id[2]>>)
    BY <1>3 DEF Sofar
  <2>2. <<base, call.id[2]>> \in {0, 1} \X Nat
    BY <1>1
  <2> DEFINE r == Blank(<<base, call.id[2]>>)
             some == \/ call.form \in {"prefilled", "named", "split", "bare"} /\ call.at # 1
                     \/ call.form \in {"standard", "hidden"} /\ call.at = 3
  <2>3. /\ r \in Items /\ r.item = <<base, call.id[2]>> /\ r.name = NoName
        /\ r.callID = NoId /\ r.args = <<>> /\ r.sawAdded = FALSE
        /\ r.notool = FALSE /\ r.emitted = FALSE
    BY <2>2, BlankIs
  <2> HIDE DEF r
  <2>4. ~some
    BY <1>3
  <2>5. r.args = Pieces(call, 1, IF some THEN 1 ELSE 0)
    <3> HIDE DEF some
    <3>1. QED
      BY <1>2, <2>3, <2>4
  <2>6. Sofar(call, base) = r
    BY <2>1 DEF r
  <2>7. /\ r.sawAdded = (call.at # 1 /\ call.form \in {"standard", "prefilled", "hidden",
                                                       "reasoning"})
        /\ r.notool = (call.at # 1 /\ call.form \in {"hidden", "reasoning"})
        /\ r.emitted = (call.form = "split" /\ call.at = 3)
    <3> DEFINE saw == call.at # 1 /\ call.form \in {"standard", "prefilled", "hidden",
                                                    "reasoning"}
               notool == call.at # 1 /\ call.form \in {"hidden", "reasoning"}
               over == call.form = "split" /\ call.at = 3
    <3>1. saw = FALSE /\ notool = FALSE /\ over = FALSE
      BY <1>3
    <3> HIDE DEF saw, notool, over
    <3>2. r.sawAdded = saw /\ r.notool = notool /\ r.emitted = over
      BY <2>3, <3>1
    <3>3. QED
      BY <3>2 DEF saw, notool, over
  <2>8. /\ r.name = IF call.at # 1 /\ call.form \in {"standard", "prefilled", "named"}
                    THEN call.name ELSE NoName
        /\ r.callID = IF call.at # 1 /\ call.form \in {"standard", "prefilled", "named"}
                      THEN call.id ELSE NoId
    BY <1>3, <2>3
  <2>9. QED
    BY <2>3, <2>5, <2>6, <2>7, <2>8
<1>4. CASE call.at \in {2, 3}
  <2> DEFINE at == call.at - 1
             prev == [call EXCEPT !.at = at]
             r == Gathered(prev, base)
  <2>1. /\ prev \in SentItems /\ prev.form = call.form /\ prev.at = at
        /\ prev.id = call.id /\ prev.name = call.name /\ prev.shaped = call.shaped
        /\ at \in {1, 2}
    BY <1>1, <1>4 DEF SentItems
  <2>2. at < Frames(call.form)
    BY <1>1, <1>4, ProgramIs
  <2> HIDE DEF at, prev
  <2>3. Proper(prev)
    <3>1. at <= Frames(call.form)
      BY <1>1, <2>1, <2>2, ProgramIs
    <3>2. QED
      BY <2>1, <3>1 DEF Proper
  <2>4. Sofar(call, base) = r
    BY <1>4 DEF Sofar, prev, at
  <2>5. /\ r \in Items /\ r.item = <<base, prev.id[2]>>
        /\ r.name = IF Named(prev) THEN prev.name ELSE NoName
        /\ r.callID = IF Named(prev) THEN prev.id ELSE NoId
        /\ r.args = Pieces(prev, 1, Came(prev))
        /\ r.sawAdded = (prev.form \in {"standard", "prefilled", "hidden", "reasoning"})
        /\ r.notool = (prev.form \in {"hidden", "reasoning"})
        /\ r.emitted = Over(prev)
    BY <2>3, GatheredIs
  <2>6. Named(prev) <=> call.form \in {"standard", "prefilled", "named"}
    BY <1>1, <1>4, <2>1, <2>2 DEF Named, Frames, AllForms
  <2>7. Came(prev) = IF \/ call.form \in {"prefilled", "named", "split", "bare"}
                        \/ call.form \in {"standard", "hidden"} /\ call.at = 3
                     THEN 1 ELSE 0
    BY <1>1, <1>4, <2>1, <2>2 DEF Came, Frames, AllForms, at
  <2>8. Over(prev) <=> call.form = "split" /\ call.at = 3
    BY <1>1, <1>4, <2>1, <2>2 DEF Over, Frames, AllForms, at
  <2>9. \A n : Pieces(prev, 1, n) = Pieces(call, 1, n)
    BY <2>1 DEF Pieces
  <2> HIDE DEF r
  <2>10. r.emitted = (call.form = "split" /\ call.at = 3)
    BY <2>5, <2>8 DEF Over
  <2>11. call.at # 1
    BY <1>4
  <2>12. r.args = Pieces(call, 1,
                    IF \/ call.form \in {"prefilled", "named", "split", "bare"} /\ call.at # 1
                       \/ call.form \in {"standard", "hidden"} /\ call.at = 3
                    THEN 1 ELSE 0)
    BY <2>5, <2>7, <2>9, <2>11
  <2>13. QED
    BY <2>1, <2>4, <2>5, <2>6, <2>10, <2>11, <2>12
<1>5. QED
  BY <1>1, <1>3, <1>4

LEMMA TellsType ==
    ASSUME NEW call, Proper(call), NEW base \in {0, 1}, NEW f, Tells(f, call, base)
    PROVE  ItemFrame(f) /\ f.item = <<base, call.id[2]>>
<1> DEFINE kind == Program(call.form)[call.at]
           n == DeltasBy(call.form, call.at)
<1>1. /\ call \in SentItems /\ call.form \in AllForms /\ call.name \in SaidNames
      /\ call.id \in Ids
  BY ResponsesAssumption DEF Proper, SentItems, SaidNames, Ids
<1>2. Pieces(call, 1, Size(call.form)) \in Seq(Parts)
  BY <1>1, PiecesAre, ProgramIs
<1>3. kind \in {"delta", "named_delta"} => n \in {1, 2}
  BY KindIs DEF DeltasBy
<1>4. Pieces(call, 1, 1) \in Seq(Parts) /\ Pieces(call, 2, 2) \in Seq(Parts)
  BY <1>1, PiecesAre
<1>5. <<>> \in Seq(Parts) /\ NoName \in SaidNames /\ NoId \in Ids
  BY DEF SaidNames, Ids
<1> HIDE DEF n
<1>6. f.args \in Seq(Parts)
  <2>1. CASE kind \in {"delta", "named_delta"}
    <3>1. f.args = Pieces(call, n, n)
      BY <2>1 DEF Tells, n
    <3>2. QED
      BY <1>3, <1>4, <2>1, <3>1
  <2>2. CASE kind \in {"added_full", "flat_done", "args_done", "done"}
    <3>1. f.args = Pieces(call, 1, Size(call.form))
      BY <2>2 DEF Tells
    <3>2. QED
      BY <1>2, <3>1
  <2>3. CASE kind \notin {"delta", "named_delta", "added_full", "flat_done", "args_done",
                          "done"}
    <3>1. f.args = <<>>
      BY <2>3 DEF Tells
    <3>2. QED
      BY <1>5, <3>1
  <2>4. QED
    BY <2>1, <2>2, <2>3
<1> HIDE DEF kind
<1>7. f.name \in SaidNames /\ f.callID \in Ids
  BY <1>1, <1>5 DEF Tells
<1>8. f.type \in {"delta", "added", "done"} /\ f.kind \in {"function_call", "other", "none"}
  BY DEF Tells
<1>9. f.item = <<base, call.id[2]>>
  BY DEF Tells
<1>10. QED
  BY <1>6, <1>7, <1>8, <1>9 DEF ItemFrame

\* What is gathered of an item after its latest frame: a delta,
LEMMA DeltaGathers ==
    ASSUME NEW call, Proper(call), NEW base \in {0, 1}, NEW f, Tells(f, call, base),
           f.type = "delta"
    PROVE  /\ WithDelta(Sofar(call, base), f) = Gathered(call, base)
           /\ ~Sofar(call, base).emitted /\ ~Gathered(call, base).emitted
<1> DEFINE p == Sofar(call, base)
           t == Gathered(call, base)
           r == WithDelta(p, f)
           kind == Program(call.form)[call.at]
           form == call.form
           at == call.at
<1>1. call \in SentItems /\ ItemFrame(f)
  BY TellsType DEF Proper
<1>2. \/ form \in {"standard", "hidden"} /\ at = 2
      \/ form = "bare" /\ at \in {1, 2}
      \/ form \in {"split", "named"} /\ at = 1
  <2>1. kind \in {"delta", "named_delta"}
    BY KindIs DEF Tells
  <2>2. \/ form \in {"standard", "hidden"} /\ at = 2
        \/ form \in {"bare", "split"} /\ at = 1
        \/ form = "bare" /\ at = 2
        \/ form = "named" /\ at = 1
    BY <2>1, KindIs
  <2> HIDE DEF form, at
  <2>3. QED
    BY <2>2
<1>3. kind = (IF form = "named" THEN "named_delta" ELSE "delta")
  BY <1>2, KindIs
<1>4. /\ f.name = (IF form = "named" THEN call.name ELSE NoName)
      /\ f.callID = (IF form = "named" THEN call.id ELSE NoId)
  BY <1>3 DEF Tells
<1>5. f.args = IF form = "bare" /\ at = 2 THEN Pieces(call, 2, 2) ELSE Pieces(call, 1, 1)
  <2>1. f.args = LET n == DeltasBy(form, at) IN Pieces(call, n, n)
    BY <1>3 DEF Tells
  <2>2. DeltasBy(form, at) = IF form = "bare" /\ at = 2 THEN 2 ELSE 1
    BY <1>2 DEF DeltasBy
  <2>3. QED
    BY <2>1, <2>2
<1>6. /\ p \in Items /\ p.item = <<base, call.id[2]>>
      /\ p.name = (IF form = "standard" THEN call.name ELSE NoName)
      /\ p.callID = (IF form = "standard" THEN call.id ELSE NoId)
      /\ p.args = Pieces(call, 1, IF form = "bare" /\ at = 2 THEN 1 ELSE 0)
      /\ p.sawAdded <=> form \in {"standard", "hidden"}
      /\ p.notool <=> form = "hidden"
      /\ ~p.emitted
  <2> DEFINE some == \/ form \in {"prefilled", "named", "split", "bare"} /\ at # 1
                     \/ form \in {"standard", "hidden"} /\ at = 3
  <2>1. /\ p \in Items /\ p.item = <<base, call.id[2]>>
        /\ p.name = IF at # 1 /\ form \in {"standard", "prefilled", "named"}
                    THEN call.name ELSE NoName
        /\ p.callID = IF at # 1 /\ form \in {"standard", "prefilled", "named"}
                      THEN call.id ELSE NoId
        /\ p.args = Pieces(call, 1, IF some THEN 1 ELSE 0)
        /\ p.sawAdded = (at # 1 /\ form \in {"standard", "prefilled", "hidden",
                                             "reasoning"})
        /\ p.notool = (at # 1 /\ form \in {"hidden", "reasoning"})
        /\ p.emitted = (form = "split" /\ at = 3)
    BY SofarIs
  <2>2. some <=> form = "bare" /\ at = 2
    BY <1>2
  <2> HIDE DEF some, p
  <2>3. p.args = Pieces(call, 1, IF form = "bare" /\ at = 2 THEN 1 ELSE 0)
    BY <2>1, <2>2
  <2> HIDE DEF form, at
  <2>4. /\ p.sawAdded <=> form \in {"standard", "hidden"}
        /\ p.notool <=> form = "hidden"
        /\ ~p.emitted
    <3> DEFINE saw == at # 1 /\ form \in {"standard", "prefilled", "hidden", "reasoning"}
               notool == at # 1 /\ form \in {"hidden", "reasoning"}
               over == form = "split" /\ at = 3
    <3>1. /\ saw <=> form \in {"standard", "hidden"}
          /\ notool <=> form = "hidden"
          /\ ~over
      BY <1>2
    <3>2. p.sawAdded = saw /\ p.notool = notool /\ p.emitted = over
      BY <2>1
    <3> HIDE DEF saw, notool, over
    <3>3. QED
      BY <3>1, <3>2, Zenon
  <2>5. /\ p.name = (IF form = "standard" THEN call.name ELSE NoName)
        /\ p.callID = (IF form = "standard" THEN call.id ELSE NoId)
    BY <1>2, <2>1
  <2>6. QED
    BY <2>1, <2>3, <2>4, <2>5
<1>7. /\ t \in Items /\ t.item = <<base, call.id[2]>>
      /\ t.name = (IF form \in {"standard", "named"} THEN call.name ELSE NoName)
      /\ t.callID = (IF form \in {"standard", "named"} THEN call.id ELSE NoId)
      /\ t.args = Pieces(call, 1, IF form = "bare" /\ at = 2 THEN 2 ELSE 1)
      /\ t.sawAdded <=> form \in {"standard", "hidden"}
      /\ t.notool <=> form = "hidden"
      /\ ~t.emitted
  <2>1. /\ t \in Items /\ t.item = <<base, call.id[2]>>
        /\ t.name = IF Named(call) THEN call.name ELSE NoName
        /\ t.callID = IF Named(call) THEN call.id ELSE NoId
        /\ t.args = Pieces(call, 1, Came(call))
        /\ t.sawAdded = (form \in {"standard", "prefilled", "hidden", "reasoning"})
        /\ t.notool = (form \in {"hidden", "reasoning"})
        /\ t.emitted = Over(call)
    BY GatheredIs
  <2>2. /\ Named(call) <=> form \in {"standard", "named"}
        /\ Came(call) = (IF form = "bare" /\ at = 2 THEN 2 ELSE 1)
        /\ ~Over(call)
    BY <1>2 DEF Named, Came, Over
  <2> HIDE DEF t, form, at
  <2>3. QED
    BY <1>2, <2>1, <2>2
<1>8. /\ r \in Items /\ r.item = p.item
      /\ r.name = Or(p.name, NoName, f.name) /\ r.callID = Or(p.callID, NoId, f.callID)
      /\ r.args = p.args \o f.args
      /\ r.sawAdded = p.sawAdded /\ r.notool = p.notool /\ r.emitted = p.emitted
  BY <1>1, <1>6, DeltaLeaves
<1> HIDE DEF p, t, r
<1>9. r.sawAdded = t.sawAdded /\ r.notool = t.notool /\ r.emitted = t.emitted
  BY <1>6, <1>7, <1>8 DEF Items
<1>10. r.name = t.name /\ r.callID = t.callID
  <2>1. call.id # NoId
    BY <1>1, ResponsesAssumption DEF SentItems, CallIds
  <2>2. QED
    BY <1>2, <1>4, <1>6, <1>7, <1>8, <2>1 DEF Or
<1>11. r.args = t.args
  <2>1. CASE form = "bare" /\ at = 2
    BY <1>1, <1>5, <1>6, <1>7, <1>8, <2>1, PiecesAre
  <2>2. CASE ~(form = "bare" /\ at = 2)
    <3>1. p.args = <<>> /\ f.args = Pieces(call, 1, 1) /\ t.args = Pieces(call, 1, 1)
      BY <1>1, <1>5, <1>6, <1>7, <2>2, PiecesAre
    <3>2. <<>> \o Pieces(call, 1, 1) = Pieces(call, 1, 1)
      BY <1>1, PiecesAre
    <3>3. QED
      BY <1>8, <3>1, <3>2
  <2>3. QED
    BY <2>1, <2>2
<1>12. r = t
  BY <1>6, <1>7, <1>8, <1>9, <1>10, <1>11, SameItem
<1>13. QED
  BY <1>6, <1>7, <1>12 DEF p, t, r

\* the news of an item,
LEMMA AddedGathers ==
    ASSUME NEW call, Proper(call), NEW base \in {0, 1}, NEW f, Tells(f, call, base),
           f.type = "added"
    PROVE  /\ WithAdded(Sofar(call, base), f) = Gathered(call, base)
           /\ ~Sofar(call, base).emitted /\ ~Gathered(call, base).emitted
<1> DEFINE p == Sofar(call, base)
           t == Gathered(call, base)
           r == WithAdded(p, f)
           kind == Program(call.form)[call.at]
           form == call.form
           at == call.at
<1>1. call \in SentItems /\ ItemFrame(f)
  BY TellsType DEF Proper
<1>2. at = 1 /\ form \in {"standard", "prefilled", "hidden", "reasoning"}
  <2>1. kind \in {"added", "added_full", "added_other"}
    BY KindIs DEF Tells
  <2>2. QED
    BY <2>1, KindIs
<1>3. kind = (IF form = "standard" THEN "added" ELSE IF form = "prefilled"
              THEN "added_full" ELSE "added_other")
  BY <1>2, KindIs
<1>4. /\ f.kind = (IF form \in {"standard", "prefilled"} THEN "function_call" ELSE "other")
      /\ f.name = (IF form \in {"standard", "prefilled"} THEN call.name ELSE NoName)
      /\ f.callID = (IF form \in {"standard", "prefilled"} THEN call.id ELSE NoId)
  BY <1>2, <1>3 DEF Tells
<1>5. f.args = IF form = "prefilled" THEN Pieces(call, 1, 1) ELSE <<>>
  <2>1. form = "prefilled" => Size(form) = 1
    BY ProgramIs DEF AllForms
  <2>2. QED
    BY <1>2, <1>3, <2>1 DEF Tells
<1>6. p = Blank(<<base, call.id[2]>>) /\ <<base, call.id[2]>> \in {0, 1} \X Nat
  BY <1>1, <1>2 DEF Sofar, SentItems, CallIds
<1>7. /\ p \in Items /\ p.item = <<base, call.id[2]>> /\ p.name = NoName
      /\ p.callID = NoId /\ p.args = <<>> /\ p.sawAdded = FALSE
      /\ p.notool = FALSE /\ p.emitted = FALSE
  BY <1>6, BlankIs
<1>8. /\ t \in Items /\ t.item = <<base, call.id[2]>>
      /\ t.name = (IF form \in {"standard", "prefilled"} THEN call.name ELSE NoName)
      /\ t.callID = (IF form \in {"standard", "prefilled"} THEN call.id ELSE NoId)
      /\ t.args = Pieces(call, 1, IF form = "prefilled" THEN 1 ELSE 0)
      /\ t.sawAdded
      /\ t.notool <=> form \in {"hidden", "reasoning"}
      /\ ~t.emitted
  <2>1. /\ t \in Items /\ t.item = <<base, call.id[2]>>
        /\ t.name = IF Named(call) THEN call.name ELSE NoName
        /\ t.callID = IF Named(call) THEN call.id ELSE NoId
        /\ t.args = Pieces(call, 1, Came(call))
        /\ t.sawAdded = (form \in {"standard", "prefilled", "hidden", "reasoning"})
        /\ t.notool = (form \in {"hidden", "reasoning"})
        /\ t.emitted = Over(call)
    BY GatheredIs
  <2>2. /\ Named(call) <=> form \in {"standard", "prefilled"}
        /\ Came(call) = (IF form = "prefilled" THEN 1 ELSE 0)
        /\ ~Over(call)
    BY <1>2 DEF Named, Came, Over
  <2> HIDE DEF t, form, at
  <2>3. QED
    BY <1>2, <2>1, <2>2
<1>9. /\ r \in Items /\ r.item = p.item
      /\ r.name = IF f.kind = "function_call" THEN Or(f.name, NoName, p.name) ELSE p.name
      /\ r.callID = IF f.kind = "function_call" THEN Or(f.callID, NoId, p.callID)
                    ELSE p.callID
      /\ r.args = IF f.kind = "function_call" THEN p.args \o f.args ELSE p.args
      /\ r.sawAdded = TRUE
      /\ r.notool = IF f.kind = "function_call" THEN p.notool ELSE TRUE
      /\ r.emitted = p.emitted
  BY <1>1, <1>7, AddedLeaves
<1> HIDE DEF p, t, r
<1>10. r.name = t.name /\ r.callID = t.callID
  BY <1>2, <1>4, <1>7, <1>8, <1>9 DEF Or
<1>11. r.args = t.args
  <2>1. <<>> \o <<>> = <<>> /\ Pieces(call, 1, 0) = <<>>
        /\ <<>> \o Pieces(call, 1, 1) = Pieces(call, 1, 1)
    BY <1>1, PiecesAre
  <2>2. QED
    BY <1>4, <1>5, <1>7, <1>8, <1>9, <2>1
<1>12. r.sawAdded = t.sawAdded /\ r.notool = t.notool /\ r.emitted = t.emitted
  <2>1. r.notool <=> t.notool
    BY <1>2, <1>4, <1>7, <1>8, <1>9
  <2>2. QED
    BY <1>7, <1>8, <1>9, <2>1 DEF Items
<1>13. r = t
  BY <1>7, <1>8, <1>9, <1>10, <1>11, <1>12, SameItem
<1>14. QED
  BY <1>7, <1>8, <1>13 DEF p, t, r

\* or the news that it is done.
LEMMA DoneGathers ==
    ASSUME NEW call, Proper(call), NEW base \in {0, 1}, NEW f, Tells(f, call, base),
           f.type = "done"
    PROVE  LET p == Sofar(call, base)
               r == WithDone(p, f)
           IN  /\ r \in Items /\ r.emitted = p.emitted
               /\ [r EXCEPT !.emitted = TRUE] = Gathered(call, base)
               /\ p.emitted => r.args = p.args /\ ~Silent(p) /\ ~Silent(r)
<1> DEFINE p == Sofar(call, base)
           t == Gathered(call, base)
           r == WithDone(p, f)
           u == [r EXCEPT !.emitted = TRUE]
           kind == Program(call.form)[call.at]
           form == call.form
           at == call.at
           some == \/ form \in {"prefilled", "named", "split", "bare"} /\ at # 1
                   \/ form \in {"standard", "hidden"} /\ at = 3
           known == at # 1 /\ form \in {"standard", "prefilled", "named"}
           whose == form \in {"standard", "prefilled", "flat"} \/ (form = "split" /\ at = 3)
           named == form \in {"standard", "prefilled", "flat", "named"}
                       \/ (form = "split" /\ at = 3)
<1>1. call \in SentItems /\ ItemFrame(f) /\ call.id # NoId
  BY TellsType, ResponsesAssumption DEF Proper, SentItems, CallIds
<1>2. \/ form \in {"standard", "hidden"} /\ at = 3
      \/ form = "split" /\ at \in {2, 3}
      \/ form \in {"prefilled", "named", "reasoning"} /\ at = 2
      \/ form = "flat" /\ at = 1
  <2>1. kind \in {"done", "flat_done", "args_done", "marker", "done_other"}
    <3>1. kind \notin {"delta", "named_delta", "added", "added_full", "added_other"}
      BY DEF Tells
    <3>2. QED
      BY <3>1, KindIs
  <2>2. \/ form \in {"standard", "split"} /\ at = 3
        \/ form = "prefilled" /\ at = 2
        \/ form = "flat" /\ at = 1
        \/ form = "split" /\ at = 2
        \/ form \in {"named", "reasoning"} /\ at = 2
        \/ form = "hidden" /\ at = 3
    BY <2>1, KindIs
  <2> HIDE DEF form, at
  <2>3. QED
    BY <2>2
<1>3. /\ form \in {"standard", "prefilled"} => kind = "done"
      /\ form = "split" => kind = IF at = 3 THEN "done" ELSE "args_done"
      /\ form = "flat" => kind = "flat_done"
      /\ form \in {"named", "reasoning"} => kind = "marker"
      /\ form = "hidden" => kind = "done_other"
  BY <1>2, KindIs
<1> HIDE DEF kind
<1>4. f.kind = "other" <=> form = "hidden"
  <2>1. f.kind = CASE kind \in {"added", "added_full", "done"} -> "function_call"
                   [] kind \in {"added_other", "done_other"} -> "other"
                   [] OTHER -> "none"
    BY DEF Tells, kind
  <2>2. QED
    BY <1>2, <1>3, <2>1
<1>5. /\ f.name = IF whose THEN call.name ELSE NoName
      /\ f.callID = IF whose THEN call.id ELSE NoId
  <2>1. (kind \in {"added", "added_full", "named_delta", "flat_done", "done"}) <=> whose
    BY <1>2, <1>3
  <2>2. /\ f.name = IF kind \in {"added", "added_full", "named_delta", "flat_done", "done"}
                    THEN call.name ELSE NoName
        /\ f.callID = IF kind \in {"added", "added_full", "named_delta", "flat_done", "done"}
                      THEN call.id ELSE NoId
    BY DEF Tells, kind
  <2> HIDE DEF whose
  <2>3. QED
    BY <2>1, <2>2
<1>6. f.args = IF form \in {"standard", "prefilled", "flat", "split"}
               THEN Pieces(call, 1, 1) ELSE <<>>
  <2>1. form \in AllForms
    BY <1>1, ResponsesAssumption DEF SentItems
  <2>2. form # "bare" => Size(form) = 1
    BY <2>1, ProgramIs
  <2>3. kind \notin {"delta", "named_delta"}
    BY <1>2, <1>3
  <2>4. f.args = IF kind \in {"added_full", "flat_done", "args_done", "done"}
                 THEN Pieces(call, 1, Size(form)) ELSE <<>>
    BY <2>3 DEF Tells, kind
  <2>5. (kind \in {"added_full", "flat_done", "args_done", "done"})
          <=> form \in {"standard", "prefilled", "flat", "split"}
    BY <1>2, <1>3
  <2>6. QED
    BY <1>2, <2>2, <2>4, <2>5
<1>7. /\ p \in Items /\ p.item = <<base, call.id[2]>>
      /\ p.name = IF known THEN call.name ELSE NoName
      /\ p.callID = IF known THEN call.id ELSE NoId
      /\ p.args = Pieces(call, 1, IF some THEN 1 ELSE 0)
      /\ p.sawAdded = (at # 1 /\ form \in {"standard", "prefilled", "hidden",
                                           "reasoning"})
      /\ p.notool = (at # 1 /\ form \in {"hidden", "reasoning"})
      /\ p.emitted = (form = "split" /\ at = 3)
  BY SofarIs
<1>8. /\ t \in Items /\ t.item = <<base, call.id[2]>>
      /\ t.name = IF Named(call) THEN call.name ELSE NoName
      /\ t.callID = IF Named(call) THEN call.id ELSE NoId
      /\ t.args = Pieces(call, 1, Came(call))
      /\ t.sawAdded = (form \in {"standard", "prefilled", "hidden", "reasoning"})
      /\ t.notool = (form \in {"hidden", "reasoning"})
      /\ t.emitted = Over(call)
  BY GatheredIs
<1>9. /\ Named(call) <=> named
      /\ Came(call) = IF form = "reasoning" THEN 0 ELSE 1
      /\ Over(call)
  BY <1>2 DEF Named, Came, Over
<1>10. /\ known <=> form \in {"standard", "prefilled", "named"}
       /\ some <=> form \notin {"flat", "reasoning"}
  BY <1>2
<1> HIDE DEF p, t, r
<1>11. /\ p.sawAdded <=> form \in {"standard", "prefilled", "hidden", "reasoning"}
       /\ p.notool <=> form \in {"hidden", "reasoning"}
       /\ p.emitted <=> form = "split" /\ at = 3
  <2> DEFINE saw == at # 1 /\ form \in {"standard", "prefilled", "hidden", "reasoning"}
             notool == at # 1 /\ form \in {"hidden", "reasoning"}
             over == form = "split" /\ at = 3
  <2>1. /\ saw <=> form \in {"standard", "prefilled", "hidden", "reasoning"}
        /\ notool <=> form \in {"hidden", "reasoning"}
    BY <1>2
  <2>2. p.sawAdded = saw /\ p.notool = notool /\ p.emitted = over
    BY <1>7
  <2> HIDE DEF saw, notool
  <2>3. QED
    BY <2>1, <2>2, Zenon
<1>12. t.sawAdded = p.sawAdded /\ t.notool = p.notool /\ t.emitted = TRUE
  <2>1. /\ t.sawAdded <=> p.sawAdded
        /\ t.notool <=> p.notool
        /\ t.emitted
    BY <1>8, <1>9, <1>11, Zenon
  <2>2. QED
    BY <1>7, <1>8, <2>1 DEF Items
<1>13. /\ Pieces(call, 1, 0) = <<>> /\ Pieces(call, 1, 1) # <<>>
       /\ p.args = IF form \notin {"flat", "reasoning"} THEN Pieces(call, 1, 1) ELSE <<>>
       /\ t.args = IF form # "reasoning" THEN Pieces(call, 1, 1) ELSE <<>>
  <2>1. Pieces(call, 1, 0) = <<>> /\ Pieces(call, 1, 1) # <<>>
    BY <1>1, PiecesAre
  <2> HIDE DEF some
  <2>2. QED
    BY <1>7, <1>8, <1>9, <1>10, <2>1
<1> HIDE DEF form, at, some, known, named, whose
<1>14. /\ r \in Items /\ r.item = p.item /\ r.name = t.name /\ r.callID = t.callID
       /\ r.args = t.args /\ r.sawAdded = p.sawAdded /\ r.notool = p.notool
       /\ r.emitted = p.emitted
  <2>1. CASE form = "hidden"
    <3>1. r = p
      BY <1>4, <2>1 DEF WithDone, r
    <3>2. r.name = NoName /\ r.callID = NoId /\ t.name = NoName /\ t.callID = NoId
      BY <1>7, <1>8, <1>9, <1>10, <2>1, <3>1 DEF named
    <3>3. QED
      BY <1>7, <1>13, <2>1, <3>1, <3>2
  <2>2. CASE form # "hidden"
    <3>1. /\ r \in Items /\ r.item = p.item
          /\ r.name = Or(f.name, NoName, p.name)
          /\ r.callID = Or(f.callID, NoId, p.callID)
          /\ r.args = Or(f.args, <<>>, p.args)
          /\ r.sawAdded = p.sawAdded
          /\ r.notool = (p.notool /\ ~SaysCall(p, f))
          /\ r.emitted = p.emitted
      BY <1>1, <1>4, <1>7, <2>2, DoneLeaves DEF r
    <3>2. r.name = t.name /\ r.callID = t.callID
      <4>1. named <=> whose \/ known
        BY <1>2, <1>10 DEF named, whose
      <4>2. QED
        BY <1>1, <1>5, <1>7, <1>8, <1>9, <3>1, <4>1 DEF Or
    <3>3. r.args = t.args
      BY <1>2, <1>6, <1>13, <2>2, <3>1 DEF Or
    <3>4. r.notool = p.notool
      <4>1. CASE form = "reasoning"
        <5>1. ~whose /\ ~known
          BY <1>10, <4>1 DEF whose
        <5>2. f.name = NoName /\ f.callID = NoId /\ f.args = <<>> /\ p.args = <<>>
          BY <1>5, <1>6, <1>13, <4>1, <5>1
        <5>3. f.kind # "function_call"
          <6>1. kind = "marker"
            BY <1>3, <4>1
          <6>2. QED
            BY <6>1 DEF Tells, kind
        <5>4. ~SaysCall(p, f)
          BY <5>2, <5>3 DEF SaysCall
        <5>5. r.notool <=> p.notool
          BY <3>1, <5>4
        <5>6. QED
          BY <1>7, <3>1, <5>5 DEF Items
      <4>2. CASE form # "reasoning"
        <5>1. ~p.notool
          BY <1>11, <2>2, <4>2
        <5>2. r.notool <=> p.notool
          BY <3>1, <5>1
        <5>3. QED
          BY <1>7, <3>1, <5>2 DEF Items
      <4>3. QED
        BY <4>1, <4>2
    <3>5. QED
      BY <3>1, <3>2, <3>3, <3>4
  <2>3. QED
    BY <2>1, <2>2
<1>15. u = t
  <2>1. /\ u \in Items /\ u.item = r.item /\ u.name = r.name /\ u.callID = r.callID
        /\ u.args = r.args /\ u.sawAdded = r.sawAdded /\ u.notool = r.notool
        /\ u.emitted = TRUE
    BY <1>14 DEF Items
  <2> HIDE DEF u
  <2>2. /\ t \in Items /\ u.item = t.item /\ u.name = t.name /\ u.callID = t.callID
        /\ u.args = t.args /\ u.sawAdded = t.sawAdded /\ u.notool = t.notool
        /\ u.emitted = t.emitted
    <3>1. t \in Items /\ u.item = t.item
      BY <1>7, <1>8, <1>14, <2>1
    <3>2. u.name = t.name /\ u.callID = t.callID /\ u.args = t.args
      BY <1>14, <2>1
    <3>3. u.sawAdded = t.sawAdded /\ u.notool = t.notool /\ u.emitted = t.emitted
      BY <1>12, <1>14, <2>1
    <3>4. QED
      BY <3>1, <3>2, <3>3
  <2>3. QED
    BY <2>1, <2>2, SameItem
<1>16. ASSUME p.emitted
       PROVE  r.args = p.args /\ ~Silent(p) /\ ~Silent(r)
  <2>1. form = "split"
    BY <1>11, <1>16
  <2>2. r.args = p.args /\ p.args # <<>>
    BY <1>13, <1>14, <2>1
  <2>3. QED
    BY <2>2 DEF Silent
<1>17. QED
  BY <1>14, <1>15, <1>16 DEF p, r, t

----------------------------------------------------------------------------
(* What is picked of a sequence.                                           *)

\* One element more may be one more that is picked.
LEMMA PickedMore ==
    ASSUME NEW T, NEW s \in Seq(T), NEW e \in T, NEW places, NEW more,
           \A i \in DOMAIN s : i \in places <=> i \in more
    PROVE  /\ Len(s) + 1 \in more =>
                 Picked(Append(s, e), more) = Append(Picked(s, places), e)
           /\ Len(s) + 1 \notin more => Picked(Append(s, e), more) = Picked(s, places)
<1> DEFINE r == Append(s, e)
           n == Len(s)
<1>1. /\ n \in Nat /\ DOMAIN s = 1 .. n /\ r \in Seq(T) /\ Len(r) = n + 1
      /\ \A i \in 1 .. n : r[i] = s[i]
      /\ r[n + 1] = e
  BY AppendProperties
<1>2. PICK got :
        /\ got[0] = <<>>
        /\ \A i \in 1 .. Len(s) :
              got[i] = IF i \in places THEN Append(got[i - 1], s[i]) ELSE got[i - 1]
        /\ Picked(s, places) = got[Len(s)]
  BY <1>1, PickedIs DEF Picks
<1> HIDE DEF r
<1>3. PICK left :
        /\ left[0] = <<>>
        /\ \A i \in 1 .. Len(r) :
              left[i] = IF i \in more THEN Append(left[i - 1], r[i]) ELSE left[i - 1]
        /\ Picked(r, more) = left[Len(r)]
  BY <1>1, PickedIs DEF Picks
<1> DEFINE Numbers == {k \in Nat : k <= n => left[k] = got[k]}
<1>4. 0 \in Numbers
  BY <1>2, <1>3
<1>5. ASSUME NEW k \in Nat, k \in Numbers
      PROVE  k + 1 \in Numbers
  <2>1. SUFFICES ASSUME k + 1 <= n
                 PROVE  left[k + 1] = got[k + 1]
    OBVIOUS
  <2>2. /\ left[k] = got[k] /\ k + 1 \in 1 .. n /\ (k + 1) - 1 = k
        /\ k + 1 \in 1 .. Len(r) /\ r[k + 1] = s[k + 1]
    BY <1>1, <1>5, <2>1
  <2>3. k + 1 \in places <=> k + 1 \in more
    BY <1>1, <2>2
  <2>4. /\ got[k + 1] = IF k + 1 \in places THEN Append(got[k], s[k + 1]) ELSE got[k]
        /\ left[k + 1] = IF k + 1 \in more THEN Append(left[k], r[k + 1]) ELSE left[k]
    BY <1>2, <1>3, <2>2
  <2>5. QED
    BY <2>2, <2>3, <2>4
<1>6. left[n] = got[n]
  <2>1. Nat \subseteq Numbers
    <3> HIDE DEF Numbers
    <3>1. QED
      BY <1>4, <1>5, EveryNat
  <2>2. n \in Numbers
    BY <1>1, <2>1
  <2>3. QED
    BY <1>1, <2>2
<1>7. left[n + 1] = IF n + 1 \in more THEN Append(left[n], r[n + 1]) ELSE left[n]
  <2>1. n + 1 \in 1 .. Len(r) /\ (n + 1) - 1 = n
    BY <1>1
  <2>2. QED
    BY <1>3, <2>1
<1>8. QED
  BY <1>1, <1>2, <1>3, <1>6, <1>7 DEF r

\* As many as there are places, each from one of them.
LEMMA PickedAll ==
    ASSUME NEW T, NEW s \in Seq(T), NEW places, places \subseteq DOMAIN s
    PROVE  /\ Picked(s, places) \in Seq(T)
           /\ Len(Picked(s, places)) = Cardinality(places)
           /\ \A k \in DOMAIN Picked(s, places) :
                 \E i \in places : Picked(s, places)[k] = s[i]
<1>1. Len(s) \in Nat /\ DOMAIN s = 1 .. Len(s)
  OBVIOUS
<1>2. PICK got : Picks(got, s, places)
  BY <1>1, PickedIs
<1>3. /\ got[0] = <<>>
      /\ \A i \in 1 .. Len(s) :
            got[i] = IF i \in places THEN Append(got[i - 1], s[i]) ELSE got[i - 1]
      /\ Picked(s, places) = got[Len(s)]
  BY <1>2 DEF Picks
<1> DEFINE Upto(n) == {i \in places : i <= n}
           Good(n) == n <= Len(s) =>
                        /\ got[n] \in Seq(T)
                        /\ IsFiniteSet(Upto(n)) /\ Len(got[n]) = Cardinality(Upto(n))
                        /\ \A k \in DOMAIN got[n] : \E i \in places : got[n][k] = s[i]
           Numbers == {n \in Nat : Good(n)}
<1>4. Good(0)
  <2>1. Upto(0) = {}
    BY <1>1
  <2>2. got[0] = <<>>
    BY <1>3
  <2>3. <<>> \in Seq(T) /\ Len(<<>>) = 0 /\ DOMAIN <<>> = {}
    OBVIOUS
  <2> HIDE DEF Upto
  <2>4. QED
    BY <2>1, <2>2, <2>3, FS_EmptySet
<1>5. ASSUME NEW n \in Nat, Good(n)
      PROVE  Good(n + 1)
  <2> DEFINE p == got[n]
             q == got[n + 1]
             c == Cardinality(Upto(n))
  <2>1. SUFFICES ASSUME n + 1 <= Len(s)
                 PROVE  /\ q \in Seq(T)
                        /\ IsFiniteSet(Upto(n + 1)) /\ Len(q) = Cardinality(Upto(n + 1))
                        /\ \A k \in DOMAIN q : \E i \in places : q[k] = s[i]
    OBVIOUS
  <2>2. n <= Len(s) /\ n + 1 \in 1 .. Len(s) /\ (n + 1) - 1 = n /\ s[n + 1] \in T
    <3>1. n <= Len(s) /\ n + 1 \in 1 .. Len(s) /\ (n + 1) - 1 = n
      BY <1>1, <2>1
    <3>2. QED
      BY <3>1
  <2>3. /\ p \in Seq(T) /\ IsFiniteSet(Upto(n)) /\ Len(p) = c
        /\ \A k \in DOMAIN p : \E i \in places : p[k] = s[i]
    <3> HIDE DEF Upto
    <3>1. QED
      BY <1>5, <2>2
  <2>4. q = IF n + 1 \in places THEN Append(p, s[n + 1]) ELSE p
    BY <1>3, <2>2
  <2>5. CASE n + 1 \notin places
    <3>1. Upto(n + 1) = Upto(n)
      BY <1>1, <2>5
    <3> HIDE DEF Upto
    <3>2. QED
      BY <2>3, <2>4, <2>5, <3>1
  <2>6. CASE n + 1 \in places
    <3>1. Upto(n + 1) = Upto(n) \cup {n + 1} /\ n + 1 \notin Upto(n)
      BY <1>1, <2>6
    <3> HIDE DEF Upto
    <3>2. IsFiniteSet(Upto(n + 1)) /\ Cardinality(Upto(n + 1)) = c + 1
      BY <2>3, <3>1, FS_AddElement
    <3>3. q = Append(p, s[n + 1])
      BY <2>4, <2>6
    <3> HIDE DEF p, q, c
    <3>4. /\ q \in Seq(T) /\ Len(q) = Len(p) + 1 /\ Len(p) \in Nat
          /\ \A k \in 1 .. Len(p) : q[k] = p[k]
          /\ q[Len(p) + 1] = s[n + 1]
      BY <2>2, <2>3, <3>3, AppendProperties
    <3>5. ASSUME NEW k \in DOMAIN q
          PROVE  \E i \in places : q[k] = s[i]
      <4>1. k \in 1 .. Len(p) + 1 /\ DOMAIN p = 1 .. Len(p)
        BY <2>3, <3>4
      <4>2. CASE k \in 1 .. Len(p)
        BY <2>3, <3>4, <4>1, <4>2
      <4>3. CASE k = Len(p) + 1
        BY <2>6, <3>4, <4>3
      <4>4. QED
        BY <3>4, <4>1, <4>2, <4>3
    <3>6. QED
      BY <2>3, <3>2, <3>4, <3>5
  <2>7. QED
    BY <2>5, <2>6
<1>6. Good(Len(s))
  <2> HIDE DEF Good
  <2>1. 0 \in Numbers /\ \A n \in Nat : n \in Numbers => n + 1 \in Numbers
    BY <1>4, <1>5
  <2> HIDE DEF Numbers
  <2>2. Nat \subseteq Numbers
    BY <2>1, EveryNat
  <2>3. QED
    BY <1>1, <2>2 DEF Numbers
<1>7. Upto(Len(s)) = places /\ Len(s) <= Len(s)
  BY <1>1
<1> HIDE DEF Upto
<1>8. QED
  BY <1>3, <1>6, <1>7

\* The calls of a message with one block more.
LEMMA CallsMore ==
    ASSUME NEW bs \in Seq(Blocks), NEW b \in Blocks, NEW m, NEW n,
           m.blocks = bs, n.blocks = Append(bs, b)
    PROVE  /\ Calls(m) \in Seq(Blocks)
           /\ b.kind = "tool_use" => Calls(n) = Append(Calls(m), b)
           /\ b.kind # "tool_use" => Calls(n) = Calls(m)
<1> DEFINE r == Append(bs, b)
           places == {i \in DOMAIN bs : bs[i].kind = "tool_use"}
           more == {i \in DOMAIN r : r[i].kind = "tool_use"}
<1>1. /\ Len(bs) \in Nat /\ DOMAIN bs = 1 .. Len(bs) /\ DOMAIN r = 1 .. Len(bs) + 1
      /\ \A i \in 1 .. Len(bs) : r[i] = bs[i]
      /\ r[Len(bs) + 1] = b
  BY AppendProperties
<1>2. Calls(m) = Picked(bs, places) /\ Calls(n) = Picked(r, more)
  BY DEF Calls
<1>3. Picked(bs, places) \in Seq(Blocks)
  <2>1. places \subseteq DOMAIN bs
    OBVIOUS
  <2> HIDE DEF places
  <2>2. QED
    BY <2>1, PickedAll
<1>4. \A i \in DOMAIN bs : i \in places <=> i \in more
  <2> HIDE DEF r
  <2>1. QED
    BY <1>1
<1>5. Len(bs) + 1 \in more <=> b.kind = "tool_use"
  <2> HIDE DEF r
  <2>1. QED
    BY <1>1
<1> HIDE DEF places, more
<1>6. /\ Len(bs) + 1 \in more => Picked(r, more) = Append(Picked(bs, places), b)
      /\ Len(bs) + 1 \notin more => Picked(r, more) = Picked(bs, places)
  BY <1>4, PickedMore
<1> HIDE DEF r
<1>7. QED
  BY <1>2, <1>3, <1>5, <1>6

----------------------------------------------------------------------------
(* What a streamer has told of its items.                                  *)

\* The places of those it has told of, behind the first pre, which are of a
\* sample that is not told of any more.
Out(c, pre) ==
    {i \in 1 .. Len(c.items) - pre :
        c.items[pre + i].emitted /\ ~Silent(c.items[pre + i])}

\* b is the call told for the item at place pre + i, which is sample s's i-th.
Owns(c, pre, s, i, b) ==
    b.id \in {<<0, pre + i>>, <<s, i>>} /\ b.args = c.items[pre + i].args

\* Each item that was told of has a call on the wire or in the drop log, and
\* no call is there but for one of them.
Settled(c, pre, s) ==
    LET calls == Calls(c.wire)
    IN  /\ Len(calls) + Len(c.dropped) = Cardinality(Out(c, pre))
        /\ \A k \in DOMAIN calls : \E i \in Out(c, pre) : Owns(c, pre, s, i, calls[k])
        /\ \A i \in Out(c, pre) :
              \/ \E k \in DOMAIN calls : calls[k].args = c.items[pre + i].args
              \/ \E k \in DOMAIN c.dropped : c.dropped[k].args = c.items[pre + i].args
        /\ \A k, l \in DOMAIN calls : calls[k].id = calls[l].id => k = l
        /\ c.toolUse <=> calls # <<>>

\* The items are known by no ids but those of their sample's calls.
OwnIds(c, pre, s) ==
    \A i \in 1 .. Len(c.items) - pre : c.items[pre + i].callID \in {NoId, <<s, i>>}

\* d differs from c in items, calls and what is on the wire.
Same(c, d) ==
    /\ d.declared = c.declared /\ d.text = c.text /\ d.head = c.head
    /\ d.status = c.status /\ d.incomplete = c.incomplete
    /\ d.failed = c.failed /\ d.big = c.big

\* A message with a call more, or not.
Hands(m, n) ==
    \/ n = m
    \/ \E b \in ToolBlocks : n = Saying(Append(m.blocks, b), FALSE)

LEMMA SettledStill ==
    ASSUME NEW c, NEW d, NEW pre, NEW s, Settled(c, pre, s),
           Calls(d.wire) = Calls(c.wire), d.dropped = c.dropped,
           d.toolUse = c.toolUse, Out(d, pre) = Out(c, pre),
           \A i \in Out(c, pre) : d.items[pre + i].args = c.items[pre + i].args
    PROVE  Settled(d, pre, s)
<1> DEFINE calls == Calls(c.wire)
           out == Out(c, pre)
<1>1. /\ Len(calls) + Len(c.dropped) = Cardinality(out)
      /\ \A k \in DOMAIN calls : \E i \in out : Owns(c, pre, s, i, calls[k])
      /\ \A i \in out :
            \/ \E k \in DOMAIN calls : calls[k].args = c.items[pre + i].args
            \/ \E k \in DOMAIN c.dropped : c.dropped[k].args = c.items[pre + i].args
      /\ \A k, l \in DOMAIN calls : calls[k].id = calls[l].id => k = l
      /\ c.toolUse <=> calls # <<>>
  BY DEF Settled
<1> HIDE DEF calls, out
<1>2. \A i \in out : \A b : Owns(c, pre, s, i, b) => Owns(d, pre, s, i, b)
  BY DEF Owns, out
<1>3. /\ \A k \in DOMAIN calls : \E i \in out : Owns(d, pre, s, i, calls[k])
      /\ \A i \in out :
            \/ \E k \in DOMAIN calls : calls[k].args = d.items[pre + i].args
            \/ \E k \in DOMAIN c.dropped : c.dropped[k].args = d.items[pre + i].args
  BY <1>1, <1>2 DEF out
<1>4. Calls(d.wire) = calls /\ Out(d, pre) = out
  BY DEF calls, out
<1>5. QED
  BY <1>1, <1>3, <1>4 DEF Settled

LEMMA ItemsAre ==
    ASSUME NEW c, Ready(c)
    PROVE  /\ c.items \in Seq(Items) /\ Len(c.items) \in Nat
           /\ DOMAIN c.items = 1 .. Len(c.items)
           /\ \A i \in DOMAIN c.items : c.items[i] \in Items /\ i \in Nat
<1> DEFINE q == c.items
<1>1. q \in Seq(Items)
  BY DEF Ready, Streamers
<1> HIDE DEF q
<1>2. /\ Len(q) \in Nat /\ DOMAIN q = 1 .. Len(q)
      /\ \A i \in DOMAIN q : q[i] \in Items /\ i \in Nat
  BY <1>1
<1>3. QED
  BY <1>1, <1>2 DEF q

\* Nothing is told, and what is known of an item changes.
LEMMA PutIs ==
    ASSUME NEW c, Ready(c), NEW P \in DOMAIN c.items, NEW r \in Items
    PROVE  LET d == [c EXCEPT !.items[P] = r]
           IN  /\ Ready(d) /\ Same(c, d) /\ d.wire = c.wire /\ d.dropped = c.dropped
               /\ d.toolUse = c.toolUse /\ d.open = c.open
               /\ d.items = [c.items EXCEPT ![P] = r]
               /\ Len(d.items) = Len(c.items) /\ DOMAIN d.items = DOMAIN c.items
               /\ d.items[P] = r
               /\ \A i \in DOMAIN c.items : i # P => d.items[i] = c.items[i]
<1> DEFINE items == [c.items EXCEPT ![P] = r]
           d == [c EXCEPT !.items = items]
<1>1. c \in Streamers /\ InStep(c) /\ c.items \in Seq(Items)
  BY DEF Ready, Streamers
<1>2. items \in Seq(Items) /\ Len(items) = Len(c.items)
      /\ DOMAIN items = DOMAIN c.items /\ items[P] = r
      /\ \A i \in DOMAIN c.items : i # P => items[i] = c.items[i]
  <2> DEFINE q == c.items
             x == [q EXCEPT ![P] = r]
  <2>1. q \in Seq(Items) /\ P \in DOMAIN q
    BY <1>1
  <2> HIDE DEF q
  <2>2. x \in Seq(Items) /\ Len(x) = Len(q) /\ DOMAIN x = DOMAIN q /\ x[P] = r
        /\ \A i \in DOMAIN q : i # P => x[i] = q[i]
    BY <2>1
  <2>3. QED
    BY <2>2 DEF q
<1>3. [c EXCEPT !.items[P] = r] = d
  OBVIOUS
<1> HIDE DEF items
<1>4. d \in Streamers
  BY <1>1, <1>2 DEF Streamers
<1>5. /\ d.wire = c.wire /\ d.dropped = c.dropped /\ d.toolUse = c.toolUse
      /\ d.open = c.open /\ d.next = c.next /\ d.items = items
  BY <1>1 DEF Streamers
<1>6. Same(c, d)
  BY <1>1 DEF Streamers, Same
<1> HIDE DEF d
<1>7. InStep(d)
  BY <1>1, <1>5 DEF InStep
<1>8. QED
  BY <1>2, <1>3, <1>4, <1>5, <1>6, <1>7 DEF Ready, items

\* A call is handed over behind the text.
HandsOn(c, d, b) ==
    /\ Ready(d) /\ Same(c, d) /\ d.items = c.items /\ d.dropped = c.dropped
    /\ d.toolUse = TRUE /\ b \in ToolBlocks
    /\ d.wire = Saying(Append(c.wire.blocks, b), FALSE)
    /\ d.wire.blocks = Append(c.wire.blocks, b)

LEMMA HandsOver ==
    ASSUME NEW c, Ready(c), NEW i \in DOMAIN c.items
    PROVE  HandsOn(c, HandedOver(c, i), CallBlock(CallId(c, i), c.items[i].args))
<1> DEFINE t == closeTextBlock(c)
           args == c.items[i].args
           id == CallId(c, i)
           b == CallBlock(id, args)
           bs == c.wire.blocks
           more == Append(bs, b)
           events == <<Opened(t.next, CallBlock(id, <<>>)), Delta(t.next, args),
                       Closed(t.next)>>
           u == Told(t, events)
           w == Saying(more, FALSE)
           d == HandedOver(c, i)
<1>1. Closes(c, t)
  BY ClosesText
<1>2. c.items[i] \in Items /\ i \in Nat
  BY ItemsAre
<1>3. args \in Seq(Parts) /\ id \in {0, 1, 2} \X Nat
  BY <1>2 DEF Items, CallId, Ids, CallIds, Samples
<1>4. b \in ToolBlocks /\ b \in Blocks
  BY <1>3 DEF CallBlock, ToolBlocks, Blocks
<1>5. d = [u EXCEPT !.next = @ + 1, !.toolUse = TRUE]
  BY DEF HandedOver, CallBlock
<1> HIDE DEF t, args, id, b, d
<1>6. /\ Ready(t) /\ t \in Streamers /\ InStep(t) /\ t.open = FALSE /\ t.next \in Nat
      /\ t.wire = Saying(bs, FALSE) /\ bs \in Seq(Blocks) /\ t.next = Len(bs)
  <2>1. Ready(t) /\ ~t.open /\ t.wire = Saying(bs, FALSE) /\ t.wire.blocks = bs
    BY <1>1 DEF Closes
  <2>2. t.next \in Nat /\ t.next = Len(t.wire.blocks) /\ t.open \in BOOLEAN
        /\ t.wire.blocks \in Seq(Blocks)
    BY <2>1, ReadyWire
  <2>3. QED
    BY <2>1, <2>2 DEF Ready
<1>7. more \in Seq(Blocks) /\ Len(more) = t.next + 1
  BY <1>4, <1>6, AppendProperties
<1>8. w \in Tellings /\ w.blocks = more /\ w.open = FALSE
  BY <1>7, SayingType
<1>9. Received(t.wire, events) = w
  BY <1>3, <1>6, ReceivedCall DEF b
<1> HIDE DEF w, events
<1>10. /\ u \in Streamers /\ u.wire = w /\ u.open = t.open /\ u.next = t.next
       /\ u.text = t.text /\ u.head = t.head /\ Alike(t, u)
  BY <1>6, <1>8, <1>9, ToldIs
<1> HIDE DEF u
<1> DEFINE n == t.next + 1
           v == [u EXCEPT !.next = n]
<1>11. n \in Nat /\ d = [v EXCEPT !.toolUse = TRUE]
  BY <1>5, <1>6, <1>10
<1> HIDE DEF n
<1>12. /\ v \in Streamers /\ v.wire = u.wire /\ v.open = u.open /\ v.next = n
       /\ v.text = u.text /\ v.head = u.head
  BY <1>10, <1>11 DEF Streamers
<1>13. Alike(u, v)
  BY <1>10 DEF Streamers, Alike
<1> HIDE DEF v
<1>14. /\ d \in Streamers /\ d.wire = v.wire /\ d.open = v.open /\ d.next = v.next
       /\ d.text = v.text /\ d.head = v.head /\ d.toolUse = TRUE
       /\ d.items = v.items /\ d.dropped = v.dropped
  BY <1>11, <1>12 DEF Streamers
<1>15. Same(v, d)
  BY <1>11, <1>12 DEF Streamers, Same
<1>16. Same(c, d)
  BY <1>1, <1>10, <1>12, <1>13, <1>15 DEF Same, Alike, Closes
<1>17. d.items = c.items /\ d.dropped = c.dropped
  BY <1>1, <1>10, <1>13, <1>14 DEF Alike, Closes
<1>18. d.wire = w /\ d.open = FALSE /\ d.next = t.next + 1
  BY <1>6, <1>10, <1>12, <1>14 DEF n
<1>19. InStep(d)
  BY <1>7, <1>8, <1>18 DEF InStep
<1>20. d.wire = Saying(Append(bs, b), FALSE) /\ d.wire.blocks = Append(bs, b)
  BY <1>8, <1>18 DEF w
<1>21. HandsOn(c, d, b)
  BY <1>4, <1>14, <1>16, <1>17, <1>19, <1>20 DEF HandsOn, Ready
<1>22. QED
  BY <1>21 DEF d, b, id, args

\* Those told of are finitely many, by place.
LEMMA OutIs ==
    ASSUME NEW c, Ready(c), NEW pre \in Nat
    PROVE  Out(c, pre) \subseteq Nat /\ IsFiniteSet(Out(c, pre))
<1> DEFINE n == Len(c.items)
<1>1. n \in Nat
  BY ItemsAre
<1>2. Out(c, pre) \subseteq 1 .. n - pre
  BY DEF Out
<1> HIDE DEF n
<1>3. 1 .. n - pre \subseteq Nat /\ IsFiniteSet(1 .. n - pre)
  BY <1>1, FS_Interval
<1>4. QED
  BY <1>2, <1>3, FS_Subset

\* One item more is told of, with a call on the wire or in the drop log.
LEMMA SettledMore ==
    ASSUME NEW c, NEW d, NEW pre \in Nat, NEW s \in Samples, Settled(c, pre, s),
           Out(c, pre) \subseteq Nat, IsFiniteSet(Out(c, pre)),
           NEW j \in Nat, j \notin Out(c, pre), Out(d, pre) = Out(c, pre) \cup {j},
           \A i \in Out(c, pre) : d.items[pre + i].args = c.items[pre + i].args,
           Calls(c.wire) \in Seq(Blocks), c.dropped \in Seq(Items),
           \/ \E b \in Blocks : /\ Calls(d.wire) = Append(Calls(c.wire), b)
                                /\ Owns(d, pre, s, j, b)
                                /\ d.dropped = c.dropped /\ d.toolUse = TRUE
           \/ \E p \in Items : /\ Calls(d.wire) = Calls(c.wire)
                               /\ p.args = d.items[pre + j].args
                               /\ d.dropped = Append(c.dropped, p)
                               /\ d.toolUse = c.toolUse
    PROVE  Settled(d, pre, s)
<1> DEFINE calls == Calls(c.wire)
           now == Calls(d.wire)
           out == Out(c, pre)
           more == Out(d, pre)
<1>1. /\ Len(calls) + Len(c.dropped) = Cardinality(out)
      /\ \A k \in DOMAIN calls : \E i \in out : Owns(c, pre, s, i, calls[k])
      /\ \A i \in out :
            \/ \E k \in DOMAIN calls : calls[k].args = c.items[pre + i].args
            \/ \E k \in DOMAIN c.dropped : c.dropped[k].args = c.items[pre + i].args
      /\ \A k, l \in DOMAIN calls : calls[k].id = calls[l].id => k = l
      /\ c.toolUse <=> calls # <<>>
  BY DEF Settled
<1>2. \A i \in out : d.items[pre + i].args = c.items[pre + i].args
  OBVIOUS
<1>3. more = out \cup {j} /\ j \notin out /\ out \subseteq Nat
  OBVIOUS
<1>4. Cardinality(more) = Cardinality(out) + 1
  BY FS_AddElement
<1>5. calls \in Seq(Blocks) /\ Len(calls) \in Nat /\ Len(c.dropped) \in Nat
      /\ DOMAIN calls = 1 .. Len(calls) /\ DOMAIN c.dropped = 1 .. Len(c.dropped)
  OBVIOUS
<1> HIDE DEF calls, out, more
<1>6. \A i \in out : \A b : Owns(c, pre, s, i, b) => Owns(d, pre, s, i, b)
  BY <1>2 DEF Owns
<1>7. CASE \E b \in Blocks : /\ Calls(d.wire) = Append(Calls(c.wire), b)
                             /\ Owns(d, pre, s, j, b)
                             /\ d.dropped = c.dropped /\ d.toolUse = TRUE
  <2>1. PICK b \in Blocks : /\ now = Append(calls, b)
                            /\ Owns(d, pre, s, j, b)
                            /\ d.dropped = c.dropped /\ d.toolUse = TRUE
    BY <1>7 DEF calls
  <2>2. /\ now \in Seq(Blocks) /\ Len(now) = Len(calls) + 1
        /\ DOMAIN now = 1 .. Len(calls) + 1
        /\ \A k \in 1 .. Len(calls) : now[k] = calls[k]
        /\ now[Len(calls) + 1] = b
    BY <1>5, <2>1, AppendProperties
  <2> HIDE DEF now
  <2>3. Len(now) + Len(d.dropped) = Cardinality(more)
    <3> DEFINE x == Len(calls)
               y == Len(c.dropped)
    <3>1. x \in Nat /\ y \in Nat /\ x + y = Cardinality(out)
      BY <1>1, <1>5
    <3>2. Len(now) = x + 1 /\ Len(d.dropped) = y
      BY <2>1, <2>2
    <3> HIDE DEF x, y
    <3>3. QED
      BY <1>4, <3>1, <3>2
  <2>4. ASSUME NEW k \in DOMAIN now
        PROVE  \E i \in more : Owns(d, pre, s, i, now[k])
    <3>1. CASE k \in 1 .. Len(calls)
      BY <1>1, <1>3, <1>5, <1>6, <2>2, <3>1
    <3>2. CASE k = Len(calls) + 1
      BY <1>3, <2>1, <2>2, <3>2
    <3>3. QED
      BY <1>5, <2>2, <3>1, <3>2
  <2>5. ASSUME NEW i \in more
        PROVE  \/ \E k \in DOMAIN now : now[k].args = d.items[pre + i].args
               \/ \E k \in DOMAIN d.dropped : d.dropped[k].args = d.items[pre + i].args
    <3>1. CASE i \in out
      <4>1. d.items[pre + i].args = c.items[pre + i].args
        BY <1>2, <3>1
      <4>2. CASE \E k \in DOMAIN calls : calls[k].args = c.items[pre + i].args
        <5>1. PICK k \in 1 .. Len(calls) : calls[k].args = c.items[pre + i].args
          BY <1>5, <4>2
        <5>2. k \in DOMAIN now /\ now[k] = calls[k]
          BY <1>5, <2>2, <5>1
        <5>3. QED
          BY <4>1, <5>1, <5>2
      <4>3. CASE \E k \in DOMAIN c.dropped : c.dropped[k].args = c.items[pre + i].args
        BY <2>1, <4>1, <4>3
      <4>4. QED
        BY <1>1, <3>1, <4>2, <4>3
    <3>2. CASE i = j
      <4>1. now[Len(calls) + 1].args = d.items[pre + i].args
        BY <2>1, <2>2, <3>2 DEF Owns
      <4>2. Len(calls) + 1 \in DOMAIN now
        BY <1>5, <2>2
      <4>3. QED
        BY <4>1, <4>2
    <3>3. QED
      BY <1>3, <3>1, <3>2
  <2>6. \A k \in 1 .. Len(calls) : calls[k].id # b.id
    <3>1. TAKE k \in 1 .. Len(calls)
    <3>2. PICK i \in out : Owns(c, pre, s, i, calls[k])
      BY <1>1, <1>5
    <3>3. i # j /\ i \in Nat
      BY <1>3, <3>2
    <3>4. calls[k].id \in {<<0, pre + i>>, <<s, i>>} /\ b.id \in {<<0, pre + j>>, <<s, j>>}
      BY <2>1, <3>2 DEF Owns
    <3>5. <<0, pre + i>> # <<0, pre + j>> /\ <<s, i>> # <<s, j>>
          /\ <<0, pre + i>> # <<s, j>> /\ <<s, i>> # <<0, pre + j>>
      <4>1. pre + i # pre + j /\ s # 0
        BY <3>3 DEF Samples
      <4>2. QED
        BY <3>3, <4>1
    <3>6. QED
      BY <3>4, <3>5
  <2>7. ASSUME NEW k \in DOMAIN now, NEW l \in DOMAIN now, now[k].id = now[l].id
        PROVE  k = l
    <3>1. /\ k \in 1 .. Len(calls) \/ k = Len(calls) + 1
          /\ l \in 1 .. Len(calls) \/ l = Len(calls) + 1
      BY <1>5, <2>2
    <3>2. CASE k \in 1 .. Len(calls) /\ l \in 1 .. Len(calls)
      BY <1>1, <1>5, <2>2, <2>7, <3>2
    <3>3. QED
      BY <2>2, <2>6, <2>7, <3>1, <3>2
  <2>8. d.toolUse <=> now # <<>>
    <3>1. now # <<>>
      BY <1>5, <2>2
    <3>2. QED
      BY <2>1, <3>1
  <2>9. QED
    BY <2>3, <2>4, <2>5, <2>7, <2>8 DEF Settled, now, more
<1>8. CASE \E p \in Items : /\ Calls(d.wire) = Calls(c.wire)
                            /\ p.args = d.items[pre + j].args
                            /\ d.dropped = Append(c.dropped, p)
                            /\ d.toolUse = c.toolUse
  <2> DEFINE before == c.dropped
             after == d.dropped
  <2>1. PICK p \in Items : /\ now = calls
                           /\ p.args = d.items[pre + j].args
                           /\ after = Append(before, p)
                           /\ d.toolUse = c.toolUse
    BY <1>8 DEF calls
  <2>2. before \in Seq(Items) /\ Len(before) \in Nat /\ DOMAIN before = 1 .. Len(before)
    BY <1>5
  <2> HIDE DEF before, after, now
  <2>3. /\ after \in Seq(Items) /\ Len(after) = Len(before) + 1
        /\ DOMAIN after = 1 .. Len(before) + 1
        /\ \A k \in 1 .. Len(before) : after[k] = before[k]
        /\ after[Len(before) + 1] = p
    BY <2>1, <2>2, AppendProperties
  <2>4. Len(now) + Len(after) = Cardinality(more)
    BY <1>1, <1>4, <1>5, <2>1, <2>2, <2>3 DEF before
  <2>5. \A k \in DOMAIN now : \E i \in more : Owns(d, pre, s, i, now[k])
    BY <1>1, <1>3, <1>6, <2>1
  <2>6. ASSUME NEW i \in more
        PROVE  \/ \E k \in DOMAIN now : now[k].args = d.items[pre + i].args
               \/ \E k \in DOMAIN after : after[k].args = d.items[pre + i].args
    <3>1. CASE i \in out
      <4>1. d.items[pre + i].args = c.items[pre + i].args
        BY <1>2, <3>1
      <4>2. CASE \E k \in DOMAIN calls : calls[k].args = c.items[pre + i].args
        BY <2>1, <4>1, <4>2
      <4>3. CASE \E k \in DOMAIN before : before[k].args = c.items[pre + i].args
        <5>1. PICK k \in 1 .. Len(before) : before[k].args = c.items[pre + i].args
          BY <2>2, <4>3
        <5>2. k \in DOMAIN after /\ after[k] = before[k]
          BY <2>2, <2>3, <5>1
        <5>3. QED
          BY <4>1, <5>1, <5>2
      <4>4. QED
        BY <1>1, <3>1, <4>2, <4>3 DEF before
    <3>2. CASE i = j
      <4>1. Len(before) + 1 \in DOMAIN after
        BY <2>2, <2>3
      <4>2. QED
        BY <2>1, <2>3, <3>2, <4>1
    <3>3. QED
      BY <1>3, <3>1, <3>2
  <2>7. QED
    BY <1>1, <2>1, <2>4, <2>5, <2>6 DEF Settled, now, more, after
<1>9. QED
  BY <1>7, <1>8

\* An item is told of, if it was not and there is something to tell.
Flushes(c, d, pre, s, i) ==
    /\ Ready(d) /\ Same(c, d) /\ Settled(d, pre, s)
    /\ Hands(c.wire, d.wire)
    /\ d.items = [c.items EXCEPT ![i].emitted = TRUE]

\* d is c but for the news that item i is told of.
Marks(c, d, i) ==
    /\ Ready(d) /\ Same(c, d) /\ d.wire = c.wire
    /\ d.dropped = c.dropped /\ d.toolUse = c.toolUse
    /\ d.items = [c.items EXCEPT ![i].emitted = TRUE]
    /\ Len(d.items) = Len(c.items) /\ DOMAIN d.items = DOMAIN c.items
    /\ d.items[i] \in Items /\ d.items[i].emitted
    /\ d.items[i].args = c.items[i].args /\ d.items[i].callID = c.items[i].callID
    /\ Silent(d.items[i]) <=> Silent(c.items[i])
    /\ \A k \in DOMAIN c.items : k # i => d.items[k] = c.items[k]

LEMMA MarksIs ==
    ASSUME NEW c, Ready(c), NEW i \in DOMAIN c.items
    PROVE  Marks(c, [c EXCEPT !.items[i].emitted = TRUE], i)
<1> DEFINE p == c.items[i]
           r == [p EXCEPT !.emitted = TRUE]
           d == [c EXCEPT !.items[i].emitted = TRUE]
           e == [c EXCEPT !.items[i] = r]
<1>1. p \in Items
  BY ItemsAre
<1>2. /\ r \in Items /\ r.emitted = TRUE /\ r.args = p.args /\ r.callID = p.callID
      /\ r.name = p.name /\ r.sawAdded = p.sawAdded /\ r.notool = p.notool
  BY <1>1 DEF Items
<1>3. d = e /\ [c.items EXCEPT ![i].emitted = TRUE] = [c.items EXCEPT ![i] = r]
  OBVIOUS
<1> HIDE DEF r
<1>4. /\ Ready(e) /\ Same(c, e) /\ e.wire = c.wire /\ e.dropped = c.dropped
      /\ e.toolUse = c.toolUse /\ e.items = [c.items EXCEPT ![i] = r]
      /\ Len(e.items) = Len(c.items) /\ DOMAIN e.items = DOMAIN c.items
      /\ e.items[i] = r
      /\ \A k \in DOMAIN c.items : k # i => e.items[k] = c.items[k]
  BY <1>2, PutIs
<1> HIDE DEF d, e, p
<1>5. Silent(r) <=> Silent(p)
  BY <1>2 DEF Silent
<1>6. Marks(c, d, i)
  BY <1>2, <1>3, <1>4, <1>5 DEF Marks, p
<1>7. QED
  BY <1>6 DEF d

LEMMA CallsType ==
    ASSUME NEW m, m.blocks \in Seq(Blocks)
    PROVE  Calls(m) \in Seq(Blocks)
<1> DEFINE bs == m.blocks
           places == {i \in DOMAIN bs : bs[i].kind = "tool_use"}
<1>1. bs \in Seq(Blocks) /\ places \subseteq DOMAIN bs
  OBVIOUS
<1> HIDE DEF bs, places
<1>2. Picked(bs, places) \in Seq(Blocks)
  BY <1>1, PickedAll
<1>3. QED
  BY <1>2 DEF Calls, bs, places

LEMMA FlushIs ==
    ASSUME NEW c, Ready(c), NEW pre \in Nat, NEW s \in Samples, Settled(c, pre, s),
           OwnIds(c, pre, s), NEW i \in DOMAIN c.items, i <= pre => Silent(c.items[i])
    PROVE  Flushes(c, flushTool(c, i), pre, s, i)
<1> DEFINE p == c.items[i]
           done == [c EXCEPT !.items[i].emitted = TRUE]
           d == flushTool(c, i)
           bs == c.wire.blocks
<1>1. /\ p \in Items /\ p.emitted \in BOOLEAN /\ i \in Nat /\ i > 0 /\ i <= Len(c.items)
      /\ c.items \in Seq(Items) /\ DOMAIN c.items = 1 .. Len(c.items)
      /\ Len(c.items) \in Nat
  <2>1. p \in Items /\ i \in Nat /\ c.items \in Seq(Items) /\ Len(c.items) \in Nat
        /\ DOMAIN c.items = 1 .. Len(c.items)
    BY ItemsAre
  <2>2. QED
    BY <2>1 DEF Items
<1>2. Marks(c, done, i)
  BY MarksIs
<1>3. /\ c.wire = Saying(bs, c.open) /\ bs \in Seq(Blocks) /\ c.dropped \in Seq(Items)
  BY ReadyWire DEF Ready, Streamers
<1>4. Out(c, pre) \subseteq Nat /\ IsFiniteSet(Out(c, pre))
  BY OutIs
<1> HIDE DEF done
<1>5. d = CASE p.emitted -> c
            [] ~p.emitted /\ Silent(p) -> done
            [] ~p.emitted /\ ~Silent(p) ->
                 IF ~p.notool /\ Resolvable(c.declared, p.name, p.args)
                 THEN HandedOver(done, i)
                 ELSE [done EXCEPT !.dropped = Append(@, p)]
  BY DEF flushTool, done
<1> HIDE DEF p
<1>6. \A k \in DOMAIN c.items : k # i => done.items[k] = c.items[k]
  BY <1>2 DEF Marks
<1>7. CASE p.emitted
  <2>1. d = c
    BY <1>5, <1>7
  <2>2. [c.items EXCEPT ![i].emitted = TRUE] = c.items
    <3> DEFINE q == c.items
               r == [q[i] EXCEPT !.emitted = TRUE]
    <3>1. r = q[i]
      BY <1>1, <1>7 DEF Items, p
    <3>2. q \in Seq(Items)
      BY <1>1
    <3> HIDE DEF q, r
    <3>3. [q EXCEPT ![i] = r] = q
      BY <3>1, <3>2
    <3>4. QED
      BY <3>3 DEF q, r
  <2>3. QED
    BY <2>1, <2>2 DEF Flushes, Same, Hands
<1>8. CASE ~p.emitted /\ Silent(p)
  <2>1. d = done
    BY <1>5, <1>8
  <2>2. Out(done, pre) = Out(c, pre)
    <3>1. \A k \in 1 .. Len(c.items) - pre :
            /\ pre + k \in DOMAIN c.items
            /\ pre + k # i => done.items[pre + k] = c.items[pre + k]
      BY <1>1, <1>6
    <3>2. \A k \in 1 .. Len(c.items) - pre :
            pre + k = i => Silent(done.items[pre + k]) /\ Silent(c.items[pre + k])
      BY <1>2, <1>8 DEF Marks, p
    <3>3. Len(done.items) = Len(c.items)
      BY <1>2 DEF Marks
    <3>4. ASSUME NEW k \in 1 .. Len(c.items) - pre
          PROVE  k \in Out(done, pre) <=> k \in Out(c, pre)
      <4>1. CASE pre + k = i
        BY <3>2, <4>1 DEF Out
      <4>2. CASE pre + k # i
        BY <3>1, <3>3, <4>2 DEF Out
      <4>3. QED
        BY <4>1, <4>2
    <3>5. Out(done, pre) \subseteq 1 .. Len(c.items) - pre
          /\ Out(c, pre) \subseteq 1 .. Len(c.items) - pre
      BY <3>3 DEF Out
    <3>6. QED
      BY <3>4, <3>5
  <2>3. \A k \in Out(c, pre) : done.items[pre + k].args = c.items[pre + k].args
    <3>1. TAKE k \in Out(c, pre)
    <3>2. pre + k \in DOMAIN c.items
      BY <1>1 DEF Out
    <3>3. QED
      BY <1>2, <3>2 DEF Marks
  <2>4. Settled(done, pre, s)
    <3>1. done.wire = c.wire /\ done.dropped = c.dropped /\ done.toolUse = c.toolUse
      BY <1>2 DEF Marks
    <3>2. QED
      BY <2>2, <2>3, <3>1, SettledStill
  <2>5. QED
    BY <1>2, <2>1, <2>4 DEF Flushes, Marks, Hands
<1>9. CASE ~p.emitted /\ ~Silent(p)
  <2> DEFINE j == i - pre
  <2>1. j \in 1 .. Len(c.items) - pre /\ pre + j = i /\ j \in Nat
    BY <1>1, <1>9 DEF p
  <2>2. j \notin Out(c, pre)
    BY <1>9, <2>1 DEF Out, p
  <2> HIDE DEF j
  <2>3. \A e : e.items = done.items => Out(e, pre) = Out(c, pre) \cup {j}
    <3>1. \A k \in 1 .. Len(c.items) - pre :
            /\ pre + k \in DOMAIN c.items
            /\ pre + k # i => done.items[pre + k] = c.items[pre + k]
            /\ pre + k = i => k = j
      BY <1>1, <1>6, <2>1
    <3>2. done.items[pre + j].emitted /\ ~Silent(done.items[pre + j])
      BY <1>2, <1>9, <2>1 DEF Marks, p
    <3>3. Len(done.items) = Len(c.items)
      BY <1>2 DEF Marks
    <3>4. TAKE e
    <3>5. HAVE e.items = done.items
    <3>6. ASSUME NEW k \in 1 .. Len(c.items) - pre
          PROVE  (e.items[pre + k].emitted /\ ~Silent(e.items[pre + k]))
                   <=> k \in Out(c, pre) \cup {j}
      <4>1. CASE k = j
        BY <3>2, <3>5, <4>1
      <4>2. CASE k # j
        BY <3>1, <3>5, <4>2 DEF Out
      <4>3. QED
        BY <4>1, <4>2
    <3>7. Len(e.items) = Len(c.items)
      BY <3>3, <3>5
    <3>8. Out(e, pre) \subseteq 1 .. Len(c.items) - pre
          /\ Out(c, pre) \cup {j} \subseteq 1 .. Len(c.items) - pre
      BY <2>1, <3>7 DEF Out
    <3>9. \A k \in 1 .. Len(c.items) - pre :
             k \in Out(e, pre) <=> e.items[pre + k].emitted /\ ~Silent(e.items[pre + k])
      BY <3>7 DEF Out
    <3>10. QED
      BY <3>6, <3>8, <3>9
  <2>4. \A k \in Out(c, pre) : done.items[pre + k].args = c.items[pre + k].args
    <3>1. TAKE k \in Out(c, pre)
    <3>2. pre + k \in DOMAIN c.items
      BY <1>1 DEF Out
    <3>3. QED
      BY <1>2, <3>2 DEF Marks
  <2>5. Ready(done) /\ i \in DOMAIN done.items
    BY <1>2 DEF Marks
  <2>6. Calls(c.wire) \in Seq(Blocks)
    BY <1>3, CallsType
  <2>7. CASE ~p.notool /\ Resolvable(c.declared, p.name, p.args)
    <3> DEFINE b == CallBlock(CallId(done, i), done.items[i].args)
    <3>1. d = HandedOver(done, i)
      BY <1>5, <1>9, <2>7
    <3>2. /\ Ready(d) /\ Same(done, d) /\ d.items = done.items /\ d.dropped = done.dropped
          /\ d.toolUse = TRUE /\ b \in ToolBlocks
          /\ d.wire = Saying(Append(bs, b), FALSE)
          /\ d.wire.blocks = Append(bs, b)
      <4>1. done.wire.blocks = bs
        BY <1>2 DEF Marks
      <4>2. HandsOn(done, d, b)
        BY <2>5, <3>1, HandsOver
      <4>3. QED
        BY <4>1, <4>2 DEF HandsOn
    <3>3. b.id \in {<<0, i>>, <<s, j>>} /\ b.args = done.items[i].args
      <4>1. c.items[pre + j].callID \in {NoId, <<s, j>>}
        BY <2>1 DEF OwnIds
      <4>2. done.items[i].callID \in {NoId, <<s, j>>}
        BY <1>2, <2>1, <4>1 DEF Marks
      <4>3. b.id = CallId(done, i) /\ b.args = done.items[i].args
        BY DEF CallBlock
      <4>4. QED
        BY <4>2, <4>3 DEF CallId
    <3>4. b \in Blocks /\ b.kind = "tool_use"
      BY <3>2 DEF Blocks, ToolBlocks
    <3> HIDE DEF b
    <3>5. Calls(d.wire) = Append(Calls(c.wire), b)
      <4> DEFINE m == c.wire
                 n == d.wire
      <4>1. m.blocks = bs /\ n.blocks = Append(bs, b) /\ bs \in Seq(Blocks)
        BY <1>3, <3>2
      <4> HIDE DEF m, n, bs, d
      <4>2. Calls(n) = Append(Calls(m), b)
        BY <3>4, <4>1, CallsMore
      <4>3. QED
        BY <4>2 DEF m, n, d
    <3>6. Owns(d, pre, s, j, b)
      BY <2>1, <3>2, <3>3 DEF Owns
    <3>7. d.dropped = c.dropped
      BY <1>2, <3>2 DEF Marks
    <3>8. \A k \in Out(c, pre) : d.items[pre + k].args = c.items[pre + k].args
      BY <2>4, <3>2
    <3>9. Settled(d, pre, s)
      BY <1>3, <1>4, <2>1, <2>2, <2>3, <2>6, <3>2, <3>4, <3>5, <3>6, <3>7, <3>8,
         SettledMore
    <3>10. Same(c, d)
      BY <1>2, <3>2 DEF Marks, Same
    <3>11. QED
      BY <1>2, <3>2, <3>9, <3>10 DEF Flushes, Marks, Hands
  <2>8. CASE ~(~p.notool /\ Resolvable(c.declared, p.name, p.args))
    <3> DEFINE more == Append(done.dropped, p)
               e == [done EXCEPT !.dropped = more]
    <3>1. d = e
      BY <1>5, <1>9, <2>8
    <3>2. done \in Streamers /\ InStep(done) /\ done.dropped \in Seq(Items)
      BY <2>5 DEF Ready, Streamers
    <3>3. more \in Seq(Items)
      BY <1>1, <3>2
    <3> HIDE DEF more
    <3>4. /\ e \in Streamers /\ e.items = done.items /\ e.dropped = more
          /\ e.wire = done.wire /\ e.toolUse = done.toolUse
          /\ e.open = done.open /\ e.next = done.next
      BY <3>2, <3>3 DEF Streamers
    <3>5. Same(done, e)
      BY <3>2 DEF Streamers, Same
    <3> HIDE DEF e, d
    <3>6. Ready(d)
      BY <3>1, <3>2, <3>4 DEF Ready, InStep
    <3>7. /\ d.items = done.items /\ d.wire = c.wire /\ d.toolUse = c.toolUse
          /\ d.dropped = Append(c.dropped, p) /\ Same(c, d)
      BY <1>2, <3>1, <3>4, <3>5 DEF Marks, Same, more
    <3>8. p.args = d.items[pre + j].args
      BY <1>2, <2>1, <3>7 DEF Marks, p
    <3>9. \A k \in Out(c, pre) : d.items[pre + k].args = c.items[pre + k].args
      BY <2>4, <3>7
    <3>10. Out(d, pre) = Out(c, pre) \cup {j}
      BY <2>3, <3>7
    <3>11. Settled(d, pre, s)
      BY <1>1, <1>3, <1>4, <2>1, <2>2, <2>6, <3>7, <3>8, <3>9, <3>10, SettledMore
    <3>12. QED
      BY <1>2, <3>6, <3>7, <3>11 DEF Flushes, Marks, Hands, d
  <2>9. QED
    BY <2>7, <2>8
<1>10. QED
  BY <1>1, <1>7, <1>8, <1>9

----------------------------------------------------------------------------
(* What a streamer holds of a sample.                                      *)

\* The items a sample has sent, in order.
Ordered(q, s) ==
    /\ q \in Seq(SentItems)
    /\ \A i \in DOMAIN q : Proper(q[i]) /\ q[i].id = <<s, i>>

\* Behind the first pre items, which are those of a sample without calls, the
\* streamer holds what q has told it.
Holding(c, pre, base, q) ==
    /\ Len(c.items) = pre + Len(q)
    /\ \A k \in 1 .. pre : Silent(c.items[k]) /\ c.items[k].item[1] # base
    /\ \A k \in DOMAIN q : c.items[pre + k] = Gathered(q[k], base)

LEMMA HeldIs ==
    ASSUME NEW c, NEW pre \in Nat, NEW base \in {0, 1}, NEW q, NEW s \in Samples,
           Ready(c), Ordered(q, s), Holding(c, pre, base, q)
    PROVE  /\ OwnIds(c, pre, s)
           /\ \A k \in DOMAIN q : c.items[pre + k].item = <<base, k>>
           /\ Len(q) \in Nat /\ DOMAIN q = 1 .. Len(q)
<1>1. Len(q) \in Nat /\ DOMAIN q = 1 .. Len(q)
  BY DEF Ordered
<1>2. \A k \in DOMAIN q : /\ c.items[pre + k].item = <<base, k>>
                          /\ c.items[pre + k].callID \in {NoId, <<s, k>>}
  <2>1. TAKE k \in DOMAIN q
  <2>2. Proper(q[k]) /\ q[k].id = <<s, k>> /\ c.items[pre + k] = Gathered(q[k], base)
    BY DEF Ordered, Holding
  <2> DEFINE g == Gathered(q[k], base)
  <2>3. /\ g.item = <<base, q[k].id[2]>>
        /\ g.callID = IF Named(q[k]) THEN q[k].id ELSE NoId
    BY <2>2, GatheredIs
  <2> HIDE DEF g
  <2>4. QED
    BY <2>2, <2>3 DEF g
<1>3. 1 .. Len(c.items) - pre = DOMAIN q
  BY <1>1 DEF Holding
<1>4. QED
  BY <1>1, <1>2, <1>3 DEF OwnIds

\* A streamer t for a frame of item i of r: as it was after the item's frame
\* before.
Found(c, t, pre, base, s, r, i) ==
    /\ Ready(t) /\ Same(c, t) /\ t.wire = c.wire
    /\ Settled(t, pre, s)
    /\ Len(t.items) = pre + Len(r)
    /\ \A k \in 1 .. pre : Silent(t.items[k]) /\ t.items[k].item[1] # base
    /\ \A k \in DOMAIN r : k # i => t.items[pre + k] = Gathered(r[k], base)
    /\ t.items[pre + i] = Sofar(r[i], base)

Bases == {0, 1}

\* The item is at the only place that has its id.
LEMMA PlaceIs ==
    ASSUME NEW c, NEW t, NEW pre \in Nat, NEW base \in Bases, NEW s \in Samples, NEW r,
           Ordered(r, s), NEW i \in DOMAIN r, Found(c, t, pre, base, s, r, i),
           NEW id, id = <<base, i>>
    PROVE  Place(t, id) = pre + i
<1>1. base \in {0, 1}
  BY DEF Bases
<1>2. Len(r) \in Nat /\ DOMAIN r = 1 .. Len(r) /\ i \in Nat
  BY DEF Ordered
<1>3. /\ Len(t.items) = pre + Len(r) /\ DOMAIN t.items = 1 .. pre + Len(r)
      /\ Proper(r[i]) /\ r[i].id = <<s, i>>
  BY ItemsAre DEF Found, Ordered
<1>4. t.items[pre + i].item = <<base, i>>
  <2> DEFINE p == Sofar(r[i], base)
  <2>1. p.item = <<base, r[i].id[2]>>
    BY <1>1, <1>3, SofarIs
  <2> HIDE DEF p
  <2>2. QED
    BY <1>3, <2>1 DEF Found, p
<1>5. ASSUME NEW k \in DOMAIN t.items, t.items[k].item = <<base, i>>
      PROVE  k = pre + i
  <2>1. CASE k <= pre
    BY <1>3, <1>5, <2>1 DEF Found
  <2>2. CASE k > pre
    <3> DEFINE j == k - pre
    <3>1. j \in DOMAIN r /\ k = pre + j /\ j \in Nat
      BY <1>2, <1>3, <2>2
    <3> HIDE DEF j
    <3>2. CASE j # i
      <4>1. Proper(r[j]) /\ r[j].id = <<s, j>>
        BY <3>1 DEF Ordered
      <4> DEFINE g == Gathered(r[j], base)
      <4>2. g.item = <<base, r[j].id[2]>>
        BY <1>1, <4>1, GatheredIs
      <4> HIDE DEF g
      <4>3. t.items[k] = g
        BY <3>1, <3>2 DEF Found, g
      <4>4. QED
        BY <1>5, <3>2, <4>1, <4>2, <4>3
    <3>3. QED
      BY <3>1, <3>2
  <2>3. QED
    BY <1>2, <1>3, <2>1, <2>2
<1>6. pre + i \in DOMAIN t.items
  BY <1>2, <1>3
<1>7. QED
  BY <1>4, <1>5, <1>6 DEF Place

LEMMA BlankMore ==
    ASSUME NEW c, Ready(c), NEW id \in {0, 1} \X Nat
    PROVE  LET t == [c EXCEPT !.items = Append(@, Blank(id))]
           IN  /\ Ready(t) /\ Same(c, t) /\ t.wire = c.wire /\ t.dropped = c.dropped
               /\ t.toolUse = c.toolUse
               /\ Len(t.items) = Len(c.items) + 1
               /\ t.items[Len(c.items) + 1] = Blank(id)
               /\ \A k \in DOMAIN c.items : t.items[k] = c.items[k]
<1> DEFINE more == Append(c.items, Blank(id))
           t == [c EXCEPT !.items = more]
<1>1. c \in Streamers /\ c.items \in Seq(Items) /\ Len(c.items) \in Nat
      /\ DOMAIN c.items = 1 .. Len(c.items)
  BY ItemsAre DEF Ready
<1>2. /\ more \in Seq(Items) /\ Len(more) = Len(c.items) + 1
      /\ \A k \in 1 .. Len(c.items) : more[k] = c.items[k]
      /\ more[Len(c.items) + 1] = Blank(id)
  <2> DEFINE e == Blank(id)
             q == c.items
  <2>1. e \in Items /\ q \in Seq(Items)
    BY <1>1, BlankIs
  <2> HIDE DEF e, q
  <2>2. /\ Append(q, e) \in Seq(Items) /\ Len(Append(q, e)) = Len(q) + 1
        /\ \A k \in 1 .. Len(q) : Append(q, e)[k] = q[k]
        /\ Append(q, e)[Len(q) + 1] = e
    BY <2>1, AppendProperties
  <2>3. QED
    BY <2>2 DEF e, q
<1> HIDE DEF more
<1>3. /\ t \in Streamers /\ t.items = more /\ t.dropped = c.dropped
      /\ t.wire = c.wire /\ t.toolUse = c.toolUse
      /\ t.open = c.open /\ t.next = c.next
  BY <1>1, <1>2 DEF Streamers
<1>4. Same(c, t)
  BY <1>1 DEF Streamers, Same
<1> HIDE DEF t
<1>5. Ready(t)
  BY <1>3 DEF Ready, InStep
<1>6. /\ Ready(t) /\ Same(c, t) /\ t.wire = c.wire /\ t.dropped = c.dropped
      /\ t.toolUse = c.toolUse
      /\ Len(t.items) = Len(c.items) + 1
      /\ t.items[Len(c.items) + 1] = Blank(id)
      /\ \A k \in DOMAIN c.items : t.items[k] = c.items[k]
  BY <1>1, <1>2, <1>3, <1>4, <1>5
<1>7. QED
  BY <1>6 DEF t, more

\* The first frame of an item,
LEMMA FindsNew ==
    ASSUME NEW c, NEW pre \in Nat, NEW base \in {0, 1}, NEW s \in Samples, NEW q,
           Ready(c), Ordered(q, s), Holding(c, pre, base, q), Settled(c, pre, s),
           NEW call, Ordered(Append(q, call), s), call.at = 1,
           call.id = <<s, Len(q) + 1>>
    PROVE  Found(c, pendingFor(c, <<base, Len(q) + 1>>), pre, base, s,
                 Append(q, call), Len(q) + 1)
<1> DEFINE i == Len(q) + 1
           id == <<base, i>>
           t == [c EXCEPT !.items = Append(@, Blank(id))]
           r == Append(q, call)
<1>1. /\ Len(q) \in Nat /\ DOMAIN q = 1 .. Len(q) /\ q \in Seq(SentItems)
      /\ \A k \in DOMAIN q : c.items[pre + k].item = <<base, k>>
      /\ Len(c.items) = pre + Len(q) /\ DOMAIN c.items = 1 .. pre + Len(q)
  <2>1. Len(q) \in Nat /\ DOMAIN q = 1 .. Len(q) /\ q \in Seq(SentItems)
    BY DEF Ordered
  <2>2. \A k \in DOMAIN q : c.items[pre + k].item = <<base, k>>
    BY HeldIs
  <2>3. Len(c.items) = pre + Len(q) /\ DOMAIN c.items = 1 .. Len(c.items)
    BY ItemsAre DEF Holding
  <2>4. QED
    BY <2>1, <2>2, <2>3
<1>2. ~Known(c, id)
  <2>1. ASSUME NEW k \in DOMAIN c.items
        PROVE  c.items[k].item # id
    <3>1. CASE k <= pre
      <4>1. c.items[k].item[1] # base
        BY <1>1, <3>1 DEF Holding
      <4>2. QED
        BY <4>1
    <3>2. CASE k > pre
      <4> DEFINE j == k - pre
      <4>1. j \in DOMAIN q /\ k = pre + j /\ j # i
        BY <1>1, <3>2
      <4> HIDE DEF j
      <4>2. c.items[k].item = <<base, j>>
        BY <1>1, <4>1
      <4>3. QED
        BY <4>1, <4>2
    <3>3. QED
      BY <1>1, <3>1, <3>2
  <2>2. QED
    BY <2>1 DEF Known
<1>3. pendingFor(c, id) = t
  BY <1>2 DEF pendingFor, Blank
<1>4. id \in {0, 1} \X Nat /\ i \in Nat
  BY <1>1
<1>5. /\ Ready(t) /\ Same(c, t) /\ t.wire = c.wire /\ t.dropped = c.dropped
      /\ t.toolUse = c.toolUse
      /\ Len(t.items) = Len(c.items) + 1
      /\ t.items[Len(c.items) + 1] = Blank(id)
      /\ \A k \in DOMAIN c.items : t.items[k] = c.items[k]
  BY <1>4, BlankMore
<1> HIDE DEF t
<1>6. ASSUME NEW k \in 1 .. i
      PROVE  k \in Out(t, pre) <=> k \in Out(c, pre)
  <2>1. CASE k = i
    <3>1. ~t.items[pre + i].emitted
      <4>1. pre + i = Len(c.items) + 1
        BY <1>1
      <4>2. Blank(id).emitted = FALSE
        BY <1>4, BlankIs
      <4>3. QED
        BY <1>5, <4>1, <4>2
    <3>2. k \notin 1 .. Len(c.items) - pre
      BY <1>1, <2>1
    <3>3. QED
      BY <2>1, <3>1, <3>2 DEF Out
  <2>2. CASE k # i
    <3>1. pre + k \in DOMAIN c.items
      BY <1>1, <2>2
    <3>2. k \in 1 .. Len(c.items) - pre /\ k \in 1 .. Len(t.items) - pre
      BY <1>1, <1>5, <2>2
    <3>3. t.items[pre + k] = c.items[pre + k]
      BY <1>5, <3>1
    <3>4. QED
      BY <3>2, <3>3 DEF Out
  <2>3. QED
    BY <2>1, <2>2
<1>7. Out(t, pre) \subseteq 1 .. i /\ Out(c, pre) \subseteq 1 .. i
      /\ Out(c, pre) \subseteq 1 .. Len(q)
  BY <1>1, <1>5 DEF Out
<1>8. Out(t, pre) = Out(c, pre)
  BY <1>6, <1>7
<1>9. \A k \in Out(c, pre) : t.items[pre + k].args = c.items[pre + k].args
  <2>1. TAKE k \in Out(c, pre)
  <2>2. pre + k \in DOMAIN c.items
    BY <1>1, <1>7
  <2>3. QED
    BY <1>5, <2>2
<1>10. Settled(t, pre, s)
  BY <1>5, <1>8, <1>9, SettledStill
<1>11. /\ Len(r) = i /\ DOMAIN r = 1 .. i /\ r[i] = call
       /\ \A k \in 1 .. Len(q) : r[k] = q[k]
  BY <1>1 DEF Ordered
<1> HIDE DEF r
<1>12. \A k \in 1 .. pre : Silent(t.items[k]) /\ t.items[k].item[1] # base
  <2>1. TAKE k \in 1 .. pre
  <2>2. k \in DOMAIN c.items
    BY <1>1
  <2>3. QED
    BY <1>5, <2>2 DEF Holding
<1>13. \A k \in DOMAIN r : k # i => t.items[pre + k] = Gathered(r[k], base)
  <2>1. TAKE k \in DOMAIN r
  <2>2. HAVE k # i
  <2>3. k \in DOMAIN q /\ pre + k \in DOMAIN c.items /\ r[k] = q[k]
    BY <1>1, <1>11, <2>2
  <2>4. QED
    BY <1>5, <2>3 DEF Holding
<1>14. t.items[pre + i] = Sofar(r[i], base)
  <2>1. pre + i = Len(c.items) + 1
    BY <1>1
  <2>2. call.id[2] = i
    OBVIOUS
  <2>3. QED
    BY <1>5, <1>11, <2>1, <2>2 DEF Sofar
<1>15. Len(t.items) = pre + Len(r)
  BY <1>1, <1>5, <1>11
<1>16. Found(c, t, pre, base, s, r, i)
  BY <1>5, <1>10, <1>12, <1>13, <1>14, <1>15 DEF Found
<1>17. QED
  BY <1>3, <1>16 DEF r

\* and a later one.
LEMMA FindsKnown ==
    ASSUME NEW c, NEW pre \in Nat, NEW base \in {0, 1}, NEW s \in Samples, NEW q,
           Ready(c), Ordered(q, s), Holding(c, pre, base, q), Settled(c, pre, s),
           NEW i \in DOMAIN q, Ordered([q EXCEPT ![i].at = @ + 1], s)
    PROVE  Found(c, pendingFor(c, <<base, i>>), pre, base, s, [q EXCEPT ![i].at = @ + 1], i)
<1> DEFINE id == <<base, i>>
           call == [q[i] EXCEPT !.at = @ + 1]
           r == [q EXCEPT ![i].at = @ + 1]
<1>1. /\ Len(q) \in Nat /\ DOMAIN q = 1 .. Len(q) /\ q \in Seq(SentItems)
      /\ \A k \in DOMAIN q : c.items[pre + k].item = <<base, k>>
      /\ Len(c.items) = pre + Len(q) /\ DOMAIN c.items = 1 .. pre + Len(q)
  <2>1. Len(q) \in Nat /\ DOMAIN q = 1 .. Len(q) /\ q \in Seq(SentItems)
    BY DEF Ordered
  <2>2. \A k \in DOMAIN q : c.items[pre + k].item = <<base, k>>
    BY HeldIs
  <2>3. Len(c.items) = pre + Len(q) /\ DOMAIN c.items = 1 .. Len(c.items)
    BY ItemsAre DEF Holding
  <2>4. QED
    BY <2>1, <2>2, <2>3
<1>2. Known(c, id)
  <2>1. pre + i \in DOMAIN c.items
    BY <1>1
  <2>2. QED
    BY <1>1, <2>1 DEF Known
<1>3. pendingFor(c, id) = c
  BY <1>2 DEF pendingFor
<1>4. q[i] \in SentItems
  BY <1>1
<1>5. call.at # 1 /\ [call EXCEPT !.at = @ - 1] = q[i]
  <2> DEFINE x == q[i]
  <2>1. x \in SentItems
    BY <1>4
  <2> HIDE DEF x
  <2>2. x.at \in {1, 2, 3} /\ x = [x EXCEPT !.at = x.at]
    BY <2>1 DEF SentItems
  <2>3. [[x EXCEPT !.at = @ + 1] EXCEPT !.at = @ - 1] = [x EXCEPT !.at = (x.at + 1) - 1]
    BY <2>1 DEF SentItems
  <2>4. (x.at + 1) - 1 = x.at /\ x.at + 1 # 1
    BY <2>2
  <2>5. [x EXCEPT !.at = @ + 1].at = x.at + 1
    BY <2>1 DEF SentItems
  <2>6. QED
    BY <2>2, <2>3, <2>4, <2>5 DEF x
<1>6. /\ Len(r) = Len(q) /\ DOMAIN r = DOMAIN q /\ r[i] = call
      /\ \A k \in DOMAIN q : k # i => r[k] = q[k]
  <2>1. r = [q EXCEPT ![i] = call]
    OBVIOUS
  <2> HIDE DEF call, r
  <2>2. QED
    BY <1>1, <2>1
<1>7. Sofar(call, base) = Gathered(q[i], base)
  <2> HIDE DEF call
  <2>1. QED
    BY <1>5 DEF Sofar
<1> HIDE DEF r, call
<1>8. Found(c, c, pre, base, s, r, i)
  <2>1. Same(c, c)
    BY DEF Same
  <2>2. c.items[pre + i] = Sofar(r[i], base)
    BY <1>6, <1>7 DEF Holding
  <2>3. QED
    BY <1>6, <2>1, <2>2 DEF Found, Holding
<1>9. QED
  BY <1>3, <1>8 DEF r

\* A streamer u that has learnt x of item i of r.
Learnt(c, u, pre, base, s, r, i, x) ==
    /\ Ready(u) /\ Same(c, u) /\ u.wire = c.wire
    /\ Settled(u, pre, s)
    /\ Len(u.items) = pre + Len(r)
    /\ \A k \in 1 .. pre : Silent(u.items[k]) /\ u.items[k].item[1] # base
    /\ \A k \in DOMAIN r : k # i => u.items[pre + k] = Gathered(r[k], base)
    /\ u.items[pre + i] = x

LEMMA Learns ==
    ASSUME NEW c, NEW t, NEW pre \in Nat, NEW base \in {0, 1}, NEW s \in Samples, NEW r,
           Ordered(r, s), NEW i \in DOMAIN r, Found(c, t, pre, base, s, r, i),
           NEW x \in Items, x.emitted = Sofar(r[i], base).emitted,
           x.emitted => /\ x.args = Sofar(r[i], base).args
                        /\ ~Silent(Sofar(r[i], base)) /\ ~Silent(x)
    PROVE  Learnt(c, [t EXCEPT !.items[pre + i] = x], pre, base, s, r, i, x)
<1> DEFINE P == pre + i
           u == [t EXCEPT !.items[P] = x]
           p == Sofar(r[i], base)
<1>1. Len(r) \in Nat /\ DOMAIN r = 1 .. Len(r) /\ i \in Nat
  BY DEF Ordered
<1>2. /\ Ready(t) /\ Len(t.items) = pre + Len(r) /\ DOMAIN t.items = 1 .. pre + Len(r)
      /\ t.items[P] = p
  BY ItemsAre DEF Found
<1>3. P \in DOMAIN t.items /\ \A k \in DOMAIN r : k # i => pre + k # P
  BY <1>1, <1>2
<1>4. \A k \in 1 .. pre : k \in DOMAIN t.items /\ k # P
  BY <1>1, <1>2
<1>5. \A k \in DOMAIN r : pre + k \in DOMAIN t.items
  BY <1>1, <1>2
<1> HIDE DEF P
<1>6. /\ Ready(u) /\ Same(t, u) /\ u.wire = t.wire /\ u.dropped = t.dropped
      /\ u.toolUse = t.toolUse
      /\ Len(u.items) = Len(t.items) /\ DOMAIN u.items = DOMAIN t.items
      /\ u.items[P] = x
      /\ \A k \in DOMAIN t.items : k # P => u.items[k] = t.items[k]
  <2>1. Ready(t) /\ P \in DOMAIN t.items
    BY <1>2, <1>3
  <2>2. QED
    BY <2>1, PutIs
<1> HIDE DEF u, p
<1>7. 1 .. Len(t.items) - pre = DOMAIN r /\ 1 .. Len(u.items) - pre = DOMAIN r
  BY <1>1, <1>2, <1>6
<1>8. ASSUME NEW k \in DOMAIN r
      PROVE  /\ k \in Out(u, pre) <=> k \in Out(t, pre)
             /\ k \in Out(t, pre) => u.items[pre + k].args = t.items[pre + k].args
  <2>1. CASE k = i
    <3>1. u.items[pre + k] = x /\ t.items[pre + k] = p
      BY <1>2, <1>6, <2>1 DEF P
    <3>2. x.emitted = p.emitted /\ (x.emitted => x.args = p.args /\ ~Silent(p) /\ ~Silent(x))
      BY DEF p
    <3>3. (k \in Out(u, pre) <=> x.emitted /\ ~Silent(x))
          /\ (k \in Out(t, pre) <=> p.emitted /\ ~Silent(p))
      BY <1>7, <3>1 DEF Out
    <3>4. QED
      BY <3>1, <3>2, <3>3
  <2>2. CASE k # i
    <3>1. u.items[pre + k] = t.items[pre + k]
      BY <1>3, <1>5, <1>6, <2>2
    <3>2. QED
      BY <1>7, <3>1 DEF Out
  <2>3. QED
    BY <2>1, <2>2
<1>9. Out(u, pre) = Out(t, pre) /\ Out(t, pre) \subseteq DOMAIN r
  <2>1. Out(u, pre) \subseteq DOMAIN r /\ Out(t, pre) \subseteq DOMAIN r
    BY <1>7 DEF Out
  <2>2. QED
    BY <1>8, <2>1
<1>10. Settled(u, pre, s)
  <2>1. Settled(t, pre, s)
    BY DEF Found
  <2>2. QED
    BY <1>6, <1>8, <1>9, <2>1, SettledStill
<1>11. Same(c, u) /\ u.wire = c.wire
  BY <1>6 DEF Found, Same
<1>12. \A k \in 1 .. pre : Silent(u.items[k]) /\ u.items[k].item[1] # base
  BY <1>4, <1>6 DEF Found
<1>13. \A k \in DOMAIN r : k # i => u.items[pre + k] = Gathered(r[k], base)
  BY <1>3, <1>5, <1>6 DEF Found
<1>14. Learnt(c, u, pre, base, s, r, i, x)
  BY <1>2, <1>6, <1>10, <1>11, <1>12, <1>13 DEF Learnt, P
<1>15. QED
  BY <1>14 DEF u, P

\* A frame of an item leaves the streamer holding what r has told it.
Handled(c, d, pre, base, s, r) ==
    /\ Ready(d) /\ Same(c, d) /\ Hands(c.wire, d.wire)
    /\ Settled(d, pre, s) /\ Holding(d, pre, base, r)

LEMMA ItemHandled ==
    ASSUME NEW c, NEW pre \in Nat, NEW base \in {0, 1}, NEW s \in Samples, NEW r,
           Ordered(r, s), NEW i \in DOMAIN r, NEW f, Tells(f, r[i], base),
           Found(c, pendingFor(c, <<base, i>>), pre, base, s, r, i)
    PROVE  Handled(c, HandleItem(c, f), pre, base, s, r)
<1> DEFINE t == pendingFor(c, <<base, i>>)
           P == pre + i
           call == r[i]
           p == Sofar(call, base)
           g == Gathered(call, base)
           d == HandleItem(c, f)
<1>1. Proper(call) /\ call.id = <<s, i>>
  BY DEF Ordered
<1>2. ItemFrame(f) /\ f.item = <<base, i>>
  BY <1>1, TellsType
<1>3. Place(t, f.item) = P
  <2> DEFINE id == f.item
  <2>1. Found(c, t, pre, base, s, r, i) /\ id = <<base, i>> /\ base \in Bases
    BY <1>2 DEF Bases
  <2> HIDE DEF t, id
  <2>2. Place(t, id) = pre + i
    BY <2>1, PlaceIs
  <2>3. QED
    BY <2>2 DEF id
<1>4. p \in Items /\ g \in Items /\ t.items[P] = p
      /\ g.callID \in {NoId, <<s, i>>}
  <2>1. p \in Items
    BY <1>1, SofarIs
  <2>2. g \in Items /\ g.callID = IF Named(call) THEN call.id ELSE NoId
    BY <1>1, GatheredIs
  <2>3. t.items[P] = p
    BY DEF Found
  <2> HIDE DEF p, g, t
  <2>4. QED
    BY <1>1, <2>1, <2>2, <2>3
<1>5. d = CASE f.type = "delta" -> [t EXCEPT !.items[P] = WithDelta(@, f)]
            [] f.type = "added" -> [t EXCEPT !.items[P] = WithAdded(@, f)]
            [] f.type = "done" -> flushTool([t EXCEPT !.items[P] = WithDone(@, f)], P)
  BY <1>2, <1>3 DEF HandleItem
<1>6. /\ [t EXCEPT !.items[P] = WithDelta(@, f)] = [t EXCEPT !.items[P] = WithDelta(p, f)]
      /\ [t EXCEPT !.items[P] = WithAdded(@, f)] = [t EXCEPT !.items[P] = WithAdded(p, f)]
      /\ [t EXCEPT !.items[P] = WithDone(@, f)] = [t EXCEPT !.items[P] = WithDone(p, f)]
  <2> HIDE DEF t, P, p
  <2>1. QED
    BY <1>4
<1>7. Len(r) \in Nat /\ DOMAIN r = 1 .. Len(r) /\ i \in Nat /\ i > 0
  BY DEF Ordered
<1>8. CASE f.type \in {"delta", "added"}
  <2>1. /\ f.type = "delta" => WithDelta(p, f) = g
        /\ f.type = "added" => WithAdded(p, f) = g
        /\ ~p.emitted /\ ~g.emitted
    BY <1>1, <1>8, DeltaGathers, AddedGathers
  <2>2. p.emitted \in BOOLEAN /\ g.emitted \in BOOLEAN
    <3> HIDE DEF p, g
    <3>1. QED
      BY <1>4 DEF Items
  <2>3. d = [t EXCEPT !.items[P] = g]
    <3> HIDE DEF t, p, g, P, d
    <3>1. QED
      BY <1>5, <1>6, <1>8, <2>1
  <2>4. g.emitted = p.emitted
    BY <2>1, <2>2
  <2>5. Learnt(c, [t EXCEPT !.items[P] = g], pre, base, s, r, i, g)
    <3>1. g.emitted => g.args = p.args /\ ~Silent(p) /\ ~Silent(g)
      BY <2>1
    <3>2. Found(c, t, pre, base, s, r, i) /\ g \in Items
      BY <1>4
    <3>3. g.emitted = Sofar(r[i], base).emitted
      BY <2>4
    <3>4. g.emitted => /\ g.args = Sofar(r[i], base).args
                       /\ ~Silent(Sofar(r[i], base)) /\ ~Silent(g)
      BY <3>1
    <3> HIDE DEF t, g
    <3>5. QED
      BY <3>2, <3>3, <3>4, Learns
  <2> HIDE DEF t, d, p, P
  <2>6. Learnt(c, d, pre, base, s, r, i, g)
    BY <2>3, <2>5
  <2>7. \A k \in DOMAIN r : d.items[pre + k] = Gathered(r[k], base)
    BY <2>6 DEF Learnt, g
  <2>8. QED
    BY <2>6, <2>7 DEF Learnt, Handled, Holding, Hands, d
<1>9. CASE f.type = "done"
  <2> DEFINE x == WithDone(p, f)
             u == [t EXCEPT !.items[P] = x]
  <2>1. /\ x \in Items /\ x.emitted = p.emitted
        /\ [x EXCEPT !.emitted = TRUE] = g
        /\ p.emitted => x.args = p.args /\ ~Silent(p) /\ ~Silent(x)
    BY <1>1, <1>9, DoneGathers
  <2> HIDE DEF x, g
  <2>2. Learnt(c, u, pre, base, s, r, i, x)
    BY <2>1, Learns
  <2>3. d = flushTool(u, P)
    <3> HIDE DEF t, p, P, d
    <3>1. QED
      BY <1>5, <1>6, <1>9 DEF x
  <2> HIDE DEF u, p, t, d
  <2>4. x.callID \in {NoId, <<s, i>>}
    <3>1. g.callID = x.callID
      BY <2>1 DEF Items
    <3>2. QED
      BY <1>4, <3>1
  <2>5. OwnIds(u, pre, s)
    <3>1. ASSUME NEW k \in DOMAIN r
          PROVE  u.items[pre + k].callID \in {NoId, <<s, k>>}
      <4>1. CASE k = i
        BY <2>2, <2>4, <4>1 DEF Learnt
      <4>2. CASE k # i
        <5> DEFINE h == Gathered(r[k], base)
        <5>1. u.items[pre + k] = h
          BY <2>2, <4>2 DEF Learnt
        <5>2. Proper(r[k]) /\ r[k].id = <<s, k>>
          BY DEF Ordered
        <5>3. h.callID = IF Named(r[k]) THEN r[k].id ELSE NoId
          BY <5>2, GatheredIs
        <5> HIDE DEF h
        <5>4. QED
          BY <5>1, <5>2, <5>3
      <4>3. QED
        BY <4>1, <4>2
    <3>2. 1 .. Len(u.items) - pre = DOMAIN r
      BY <1>7, <2>2 DEF Learnt
    <3>3. QED
      BY <3>1, <3>2 DEF OwnIds
  <2>6. Ready(u) /\ Settled(u, pre, s) /\ P \in DOMAIN u.items /\ ~(P <= pre)
        /\ u.items \in Seq(Items) /\ u.items[P] = x
        /\ DOMAIN u.items = 1 .. pre + Len(r)
    BY <1>7, <2>2, ItemsAre DEF Learnt
  <2>7. Flushes(u, flushTool(u, P), pre, s, P)
    BY <2>5, <2>6, FlushIs
  <2>8. Flushes(u, d, pre, s, P)
    BY <2>3, <2>7
  <2>9. /\ d.items[P] = g /\ Len(d.items) = Len(u.items)
        /\ \A k \in 1 .. pre + Len(r) : k # P => d.items[k] = u.items[k]
    <3> DEFINE v == u.items
               e == d.items
    <3>1. e = [v EXCEPT ![P] = [v[P] EXCEPT !.emitted = TRUE]]
      BY <2>8 DEF Flushes
    <3>2. v \in Seq(Items) /\ P \in DOMAIN v /\ v[P] = x /\ DOMAIN v = 1 .. pre + Len(r)
      BY <2>6
    <3> HIDE DEF v, e
    <3>3. e = [v EXCEPT ![P] = g]
      BY <2>1, <3>1, <3>2
    <3>4. e[P] = g /\ Len(e) = Len(v) /\ \A k \in 1 .. pre + Len(r) : k # P => e[k] = v[k]
      BY <3>2, <3>3
    <3>5. QED
      BY <3>4 DEF v, e
  <2>10. \A k \in 1 .. pre : Silent(d.items[k]) /\ d.items[k].item[1] # base
    <3>1. \A k \in 1 .. pre : k \in 1 .. pre + Len(r) /\ k # P
      BY <1>7
    <3>2. QED
      BY <2>2, <2>9, <3>1 DEF Learnt
  <2>11. \A k \in DOMAIN r : d.items[pre + k] = Gathered(r[k], base)
    <3>1. TAKE k \in DOMAIN r
    <3>2. CASE k = i
      BY <2>9, <3>2 DEF g
    <3>3. CASE k # i
      <4>1. pre + k \in 1 .. pre + Len(r) /\ pre + k # P
        BY <1>7, <3>3
      <4>2. QED
        BY <2>2, <2>9, <3>3, <4>1 DEF Learnt
    <3>4. QED
      BY <3>2, <3>3
  <2>12. Same(c, d) /\ Hands(c.wire, d.wire) /\ Len(d.items) = pre + Len(r)
    BY <2>2, <2>8, <2>9 DEF Learnt, Flushes, Same
  <2>13. QED
    BY <2>8, <2>10, <2>11, <2>12 DEF Flushes, Handled, Holding, d
<1>10. QED
  BY <1>2, <1>8, <1>9 DEF ItemFrame

----------------------------------------------------------------------------
(* What a frame does to a streamer.                                        *)

TextFrame(f, s) ==
    f.type \in {"text", "text_done"} /\ f.from = s /\ f.ends \in Heads

EndFrame(f) ==
    /\ f.type \in {"completed", "incomplete", "failed"}
    /\ f.status \in {"", "completed", "incomplete"}
    /\ f.big \in BOOLEAN

\* A frame that is item i's latest: its first one, or one more.
MovesItem(q, f, r, i) ==
    /\ f = Frame(r[i], r[i].at)
    /\ \/ i = Len(q) + 1 /\ r = Append(q, r[i]) /\ r[i].at = 1
       \/ i \in DOMAIN q /\ r = [q EXCEPT ![i].at = @ + 1]

\* Frame f of sample s, whose items it changes from q to r.
Moves(s, q, f, r) ==
    /\ Ordered(q, s) /\ Ordered(r, s)
    /\ \/ TextFrame(f, s) /\ r = q
       \/ EndFrame(f) /\ r = q
       \/ \E i \in DOMAIN r : MovesItem(q, f, r, i)

\* What a frame does to the text: nothing, unless it is one of text.
Utters(c, d, f, s) ==
    \/ d.text = c.text /\ d.head = c.head
    \/ /\ TextFrame(f, s)
       /\ d.text \in {c.text, c.text \cup {s}}
       /\ d.head = c.head \/ s \in d.text

\* A frame of sample s leaves the streamer holding the sample.
Taken(c, d, pre, base, s, r, f) ==
    /\ Ready(d) /\ Holding(d, pre, base, r) /\ Settled(d, pre, s)
    /\ d.declared = c.declared
    /\ SaysText(c.wire, d.wire, s) \/ Hands(c.wire, d.wire)
    /\ Utters(c, d, f, s)

\* Text has no calls.
LEMMA CallsStill ==
    ASSUME NEW m, NEW n, NEW from \in Samples, m.blocks \in Seq(Blocks),
           SaysText(m, n, from)
    PROVE  Calls(n) = Calls(m)
<1> DEFINE b == [kind |-> "text", from |-> from]
           bs == m.blocks
<1>1. b \in Blocks /\ b.kind # "tool_use"
  BY DEF Blocks, TextBlocks
<1>2. \/ n.blocks = bs
      \/ n.blocks = Append(bs, b)
  BY DEF SaysText, Saying
<1>3. bs \in Seq(Blocks)
  OBVIOUS
<1> HIDE DEF b
<1>4. CASE n.blocks = bs
  BY <1>4 DEF Calls
<1>5. CASE n.blocks = Append(bs, b)
  <2>1. m.blocks = bs
    OBVIOUS
  <2> HIDE DEF bs
  <2>2. QED
    BY <1>1, <1>3, <1>5, <2>1, CallsMore
<1>6. QED
  BY <1>2, <1>4, <1>5

LEMMA TextTaken ==
    ASSUME NEW c, NEW pre \in Nat, NEW base \in Bases, NEW s \in Samples, NEW q,
           Ready(c), Ordered(q, s), Holding(c, pre, base, q), Settled(c, pre, s),
           NEW f, TextFrame(f, s)
    PROVE  Taken(c, HandleEvent(c, f), pre, base, s, q, f)
<1> DEFINE d == HandleEvent(c, f)
<1>1. Spoken(c, d, s)
  <2>1. CASE f.type = "text"
    <3>1. f.ends \in Heads /\ f.from = s
      BY DEF TextFrame
    <3>2. Spoken(c, Narrated(c, s, f.ends), s)
      BY <3>1, NarratedIs
    <3>3. d = Narrated(c, s, f.ends)
      BY <2>1, <3>1 DEF HandleEvent
    <3> HIDE DEF d
    <3>4. QED
      BY <3>2, <3>3
  <2>2. CASE f.type = "text_done"
    <3>1. f.ends \in Heads /\ f.from = s
      BY DEF TextFrame
    <3>2. Spoken(c, outputTextDone(c, f), s)
      BY <3>1, TextDoneIs
    <3>3. d = outputTextDone(c, f)
      BY <2>2 DEF HandleEvent
    <3> HIDE DEF d
    <3>4. QED
      BY <3>2, <3>3
  <2>3. QED
    BY <2>1, <2>2 DEF TextFrame
<1> HIDE DEF d
<1>2. c.wire.blocks \in Seq(Blocks)
  BY ReadyWire
<1>3. Calls(d.wire) = Calls(c.wire)
  BY <1>1, <1>2, CallsStill DEF Spoken
<1>4. d.items = c.items /\ d.dropped = c.dropped /\ d.toolUse = c.toolUse
      /\ d.declared = c.declared
  BY <1>1 DEF Spoken, Alike
<1>5. Out(d, pre) = Out(c, pre)
  BY <1>4 DEF Out
<1>6. Settled(d, pre, s)
  BY <1>3, <1>4, <1>5, SettledStill
<1>7. Holding(d, pre, base, q)
  BY <1>4 DEF Holding
<1>8. QED
  BY <1>1, <1>4, <1>6, <1>7 DEF Taken, Spoken, Utters, d

LEMMA EndTaken ==
    ASSUME NEW c, NEW pre \in Nat, NEW base \in Bases, NEW s \in Samples, NEW q,
           Ready(c), Ordered(q, s), Holding(c, pre, base, q), Settled(c, pre, s),
           NEW f, EndFrame(f)
    PROVE  Taken(c, HandleEvent(c, f), pre, base, s, q, f)
<1> DEFINE d == HandleEvent(c, f)
<1>1. c \in Streamers /\ d = Outcome(c, f)
  BY DEF Ready, EndFrame, HandleEvent
<1>2. /\ d \in Streamers /\ d.items = c.items /\ d.dropped = c.dropped
      /\ d.toolUse = c.toolUse /\ d.declared = c.declared /\ d.wire = c.wire
      /\ d.open = c.open /\ d.next = c.next
      /\ d.text = c.text /\ d.head = c.head
  <2>1. CASE f.type = "completed"
    <3> DEFINE full == c.incomplete \/ f.status = "incomplete"
               status == f.status
               big == f.big
               d1 == [c EXCEPT !.status = status]
               d2 == [d1 EXCEPT !.big = big]
               d3 == [d2 EXCEPT !.incomplete = full]
    <3>1. d = d3
      BY <1>1, <2>1 DEF Outcome, Streamers
    <3>2. status \in {"", "completed", "incomplete"} /\ big \in BOOLEAN /\ full \in BOOLEAN
      BY <1>1 DEF EndFrame
    <3> HIDE DEF status, big, full, d
    <3>3. /\ d1 \in Streamers /\ d1.items = c.items /\ d1.dropped = c.dropped
          /\ d1.toolUse = c.toolUse /\ d1.declared = c.declared /\ d1.wire = c.wire
          /\ d1.open = c.open /\ d1.next = c.next
          /\ d1.text = c.text /\ d1.head = c.head
      BY <1>1, <3>2 DEF Streamers
    <3> HIDE DEF d1
    <3>4. /\ d2 \in Streamers /\ d2.items = d1.items /\ d2.dropped = d1.dropped
          /\ d2.toolUse = d1.toolUse /\ d2.declared = d1.declared /\ d2.wire = d1.wire
          /\ d2.open = d1.open /\ d2.next = d1.next
          /\ d2.text = d1.text /\ d2.head = d1.head
      BY <3>2, <3>3 DEF Streamers
    <3> HIDE DEF d2
    <3>5. /\ d3 \in Streamers /\ d3.items = d2.items /\ d3.dropped = d2.dropped
          /\ d3.toolUse = d2.toolUse /\ d3.declared = d2.declared /\ d3.wire = d2.wire
          /\ d3.open = d2.open /\ d3.next = d2.next
          /\ d3.text = d2.text /\ d3.head = d2.head
      BY <3>2, <3>4 DEF Streamers
    <3> HIDE DEF d3
    <3>6. QED
      BY <3>1, <3>3, <3>4, <3>5
  <2>2. CASE f.type = "incomplete"
    <3> DEFINE big == f.big
               d1 == [c EXCEPT !.incomplete = TRUE]
               d2 == [d1 EXCEPT !.big = big]
    <3>1. d = d2
      BY <1>1, <2>2 DEF Outcome, Streamers
    <3>2. big \in BOOLEAN
      BY <1>1 DEF EndFrame
    <3> HIDE DEF big, d
    <3>3. /\ d1 \in Streamers /\ d1.items = c.items /\ d1.dropped = c.dropped
          /\ d1.toolUse = c.toolUse /\ d1.declared = c.declared /\ d1.wire = c.wire
          /\ d1.open = c.open /\ d1.next = c.next
          /\ d1.text = c.text /\ d1.head = c.head
      BY <1>1, <3>2 DEF Streamers
    <3> HIDE DEF d1
    <3>4. /\ d2 \in Streamers /\ d2.items = d1.items /\ d2.dropped = d1.dropped
          /\ d2.toolUse = d1.toolUse /\ d2.declared = d1.declared /\ d2.wire = d1.wire
          /\ d2.open = d1.open /\ d2.next = d1.next
          /\ d2.text = d1.text /\ d2.head = d1.head
      BY <3>2, <3>3 DEF Streamers
    <3> HIDE DEF d2
    <3>5. QED
      BY <3>1, <3>3, <3>4
  <2>3. CASE f.type = "failed"
    <3>1. d = [c EXCEPT !.failed = TRUE]
      BY <1>1, <2>3 DEF Outcome
    <3>2. QED
      BY <1>1, <3>1 DEF Streamers
  <2>4. QED
    BY <2>1, <2>2, <2>3 DEF EndFrame
<1> HIDE DEF d
<1>3. Ready(d)
  BY <1>2 DEF Ready, InStep
<1>4. Out(d, pre) = Out(c, pre)
  BY <1>2 DEF Out
<1>5. Settled(d, pre, s)
  BY <1>2, <1>4, SettledStill
<1>6. Holding(d, pre, base, q)
  BY <1>2 DEF Holding
<1>7. QED
  BY <1>2, <1>3, <1>5, <1>6 DEF Taken, Hands, Utters, d

\* The frame as the streamer gets it: as it came, or in the replay.
Given(f, base) == IF base = 0 THEN f ELSE Namespaced(f)

LEMMA ItemTaken ==
    ASSUME NEW c, NEW pre \in Nat, NEW base \in Bases, NEW s \in Samples, NEW q,
           Ready(c), Ordered(q, s), Holding(c, pre, base, q), Settled(c, pre, s),
           NEW f, NEW r, Ordered(r, s), NEW i \in DOMAIN r, MovesItem(q, f, r, i)
    PROVE  Taken(c, HandleEvent(c, Given(f, base)), pre, base, s, r, f)
<1> DEFINE g == Given(f, base)
           d == HandleEvent(c, g)
           id == <<base, i>>
<1>1. base \in {0, 1} /\ Proper(r[i]) /\ r[i].id = <<s, i>>
  BY DEF Bases, Ordered
<1>2. Tells(g, r[i], base)
  BY <1>1, FrameTells DEF MovesItem, Given
<1>3. ItemFrame(g)
  BY <1>1, <1>2, TellsType
<1>4. d = HandleItem(c, g)
  BY <1>3 DEF HandleEvent, ItemFrame
<1>5. Found(c, pendingFor(c, id), pre, base, s, r, i)
  <2>1. CASE i = Len(q) + 1 /\ r = Append(q, r[i]) /\ r[i].at = 1
    <3> DEFINE call == r[i]
    <3>1. /\ Ordered(Append(q, call), s) /\ call.at = 1
          /\ call.id = <<s, Len(q) + 1>> /\ r = Append(q, call) /\ i = Len(q) + 1
      BY <1>1, <2>1
    <3> HIDE DEF call
    <3>2. Found(c, pendingFor(c, <<base, Len(q) + 1>>), pre, base, s,
                Append(q, call), Len(q) + 1)
      BY <1>1, <3>1, FindsNew
    <3>3. QED
      BY <3>1, <3>2
  <2>2. CASE i \in DOMAIN q /\ r = [q EXCEPT ![i].at = @ + 1]
    <3>1. Ordered([q EXCEPT ![i].at = @ + 1], s) /\ i \in DOMAIN q
      BY <2>2
    <3>2. Found(c, pendingFor(c, <<base, i>>), pre, base, s,
                [q EXCEPT ![i].at = @ + 1], i)
      BY <1>1, <3>1, FindsKnown
    <3>3. QED
      BY <2>2, <3>2
  <2>3. QED
    BY <2>1, <2>2 DEF MovesItem
<1>6. Handled(c, HandleItem(c, g), pre, base, s, r)
  BY <1>1, <1>2, <1>5, ItemHandled
<1> HIDE DEF d, g
<1>7. Handled(c, d, pre, base, s, r)
  BY <1>4, <1>6
<1>8. QED
  BY <1>7 DEF Handled, Taken, Same, Utters, d, g

\* A frame of sample s, as it came or in the replay.
LEMMA FrameTaken ==
    ASSUME NEW c, NEW pre \in Nat, NEW base \in Bases, NEW s \in Samples, NEW q,
           Ready(c), Holding(c, pre, base, q), Settled(c, pre, s),
           NEW f, NEW r, Moves(s, q, f, r)
    PROVE  Taken(c, HandleEvent(c, Given(f, base)), pre, base, s, r, f)
<1>1. Ordered(q, s) /\ Ordered(r, s)
  BY DEF Moves
<1>2. CASE TextFrame(f, s) /\ r = q
  <2>1. Given(f, base) = f
    BY <1>2 DEF Given, Namespaced, TextFrame
  <2>2. Taken(c, HandleEvent(c, f), pre, base, s, q, f)
    BY <1>1, <1>2, TextTaken
  <2>3. QED
    BY <1>2, <2>1, <2>2
<1>3. CASE EndFrame(f) /\ r = q
  <2>1. Given(f, base) = f
    BY <1>3 DEF Given, Namespaced, EndFrame
  <2>2. Taken(c, HandleEvent(c, f), pre, base, s, q, f)
    BY <1>1, <1>3, EndTaken
  <2>3. QED
    BY <1>3, <2>1, <2>2
<1>4. CASE \E i \in DOMAIN r : MovesItem(q, f, r, i)
  <2>1. PICK i \in DOMAIN r : MovesItem(q, f, r, i)
    BY <1>4
  <2>2. QED
    BY <1>1, <2>1, ItemTaken
<1>5. QED
  BY <1>2, <1>3, <1>4 DEF Moves

\* What the upstream may send is a frame of the sample.
LEMMA OffersMove ==
    ASSUME NEW s \in Samples, Ordered(sent[s], s), NEW o \in Offers(s),
           ResponsesAssumption
    PROVE  Moves(s, sent[s], o.frame, o.items)
<1> DEFINE q == sent[s]
<1>1. \/ \E f \in Texts(s) : o = [frame |-> f, items |-> q]
      \/ \E f \in Ends(s) : o = [frame |-> f, items |-> q]
      \/ \E c \in NewItems(s) :
            Plausible(c) /\ o = [frame |-> Frame(c, 1), items |-> Append(q, c)]
      \/ \E i \in DOMAIN q :
            /\ q[i].at < Len(Program(q[i].form))
            /\ o = [frame |-> Frame(q[i], q[i].at + 1), items |-> [q EXCEPT ![i].at = @ + 1]]
  BY DEF Offers
<1>2. CASE \E f \in Texts(s) : o = [frame |-> f, items |-> q]
  <2>1. PICK f \in Texts(s) : o = [frame |-> f, items |-> q]
    BY <1>2
  <2>2. o.frame = f /\ o.items = q
    BY <2>1
  <2>3. TextFrame(f, s)
    BY DEF TextFrame, Texts, Heads
  <2>4. QED
    BY <2>2, <2>3 DEF Moves
<1>3. CASE \E c \in NewItems(s) :
            Plausible(c) /\ o = [frame |-> Frame(c, 1), items |-> Append(q, c)]
  <2>1. PICK c \in NewItems(s) : Plausible(c) /\ o = [frame |-> Frame(c, 1), items |-> Append(q, c)]
    BY <1>3
  <2>2. Len(q) \in Nat /\ DOMAIN q = 1 .. Len(q) /\ q \in Seq(SentItems)
    BY DEF Ordered
  <2>3. /\ c.id = <<s, Len(q) + 1>> /\ c.at = 1 /\ c.form \in AllForms
        /\ <<s, Len(q) + 1>> \in CallIds
    BY <2>2 DEF ResponsesAssumption, CallIds, NewItems
  <2>4. c \in SentItems
    BY <2>3 DEF SentItems, NewItems
  <2>5. Proper(c)
    <3>1. c.at <= Frames(c.form)
      BY <2>3, ProgramIs
    <3>2. QED
      BY <2>1, <2>4, <3>1 DEF Proper, Plausible
  <2> DEFINE r == Append(q, c)
  <2>6. /\ r \in Seq(SentItems) /\ Len(r) = Len(q) + 1 /\ DOMAIN r = 1 .. Len(q) + 1
        /\ \A k \in 1 .. Len(q) : r[k] = q[k]
        /\ r[Len(q) + 1] = c
    BY <2>2, <2>4
  <2> HIDE DEF r
  <2>7. Ordered(r, s)
    BY <2>2, <2>3, <2>5, <2>6 DEF Ordered
  <2>8. MovesItem(q, o.frame, r, Len(q) + 1)
    <3>1. o.frame = Frame(c, 1) /\ c.at = 1
      BY <2>1, <2>3
    <3>2. r = Append(q, r[Len(q) + 1])
      BY <2>6 DEF r
    <3>3. QED
      BY <2>6, <3>1, <3>2 DEF MovesItem
  <2>9. o.items = r /\ Len(q) + 1 \in DOMAIN r
    BY <2>1, <2>2, <2>6 DEF r
  <2>10. QED
    BY <2>7, <2>8, <2>9 DEF Moves
<1>4. CASE \E i \in DOMAIN q :
            /\ q[i].at < Len(Program(q[i].form))
            /\ o = [frame |-> Frame(q[i], q[i].at + 1), items |-> [q EXCEPT ![i].at = @ + 1]]
  <2>1. PICK i \in DOMAIN q :
          /\ q[i].at < Len(Program(q[i].form))
          /\ o = [frame |-> Frame(q[i], q[i].at + 1), items |-> [q EXCEPT ![i].at = @ + 1]]
    BY <1>4
  <2> DEFINE x == q[i]
             y == [x EXCEPT !.at = @ + 1]
             r == [q EXCEPT ![i].at = @ + 1]
  <2>2. q \in Seq(SentItems) /\ Proper(x) /\ x.id = <<s, i>>
    BY DEF Ordered
  <2>3. x \in SentItems /\ x.at \in {1, 2, 3} /\ x.form \in AllForms
    BY <2>2 DEF Proper, SentItems, ResponsesAssumption
  <2>4. x.at < Frames(x.form) /\ Frames(x.form) \in {1, 2, 3}
    BY <2>1, <2>3, ProgramIs
  <2>5. r = [q EXCEPT ![i] = y]
    OBVIOUS
  <2> HIDE DEF x
  <2>6. /\ y \in SentItems /\ y.at = x.at + 1 /\ y.form = x.form /\ y.id = x.id
        /\ y.name = x.name /\ y.shaped = x.shaped
    BY <2>3, <2>4 DEF SentItems
  <2> HIDE DEF y
  <2>7. Proper(y)
    <3>1. y.at <= Frames(y.form)
      BY <2>3, <2>4, <2>6
    <3>2. QED
      BY <2>2, <2>6, <3>1 DEF Proper
  <2>8. Frame(x, x.at + 1) = Frame(y, y.at)
    BY <2>6 DEF Frame, Pieces
  <2> HIDE DEF r
  <2>9. /\ r \in Seq(SentItems) /\ Len(r) = Len(q) /\ DOMAIN r = DOMAIN q /\ r[i] = y
        /\ \A k \in DOMAIN q : k # i => r[k] = q[k]
    BY <2>2, <2>5, <2>6
  <2>10. Ordered(r, s)
    BY <2>2, <2>6, <2>7, <2>9 DEF Ordered
  <2>11. MovesItem(q, o.frame, r, i)
    <3>1. o.frame = Frame(r[i], r[i].at)
      BY <2>1, <2>8, <2>9 DEF x
    <3>2. QED
      BY <3>1 DEF MovesItem, r
  <2>12. o.items = r
    BY <2>1 DEF r
  <2>13. QED
    BY <2>9, <2>10, <2>11, <2>12 DEF Moves
<1>5. CASE \E f \in Ends(s) : o = [frame |-> f, items |-> q]
  <2>1. PICK f \in Ends(s) : o = [frame |-> f, items |-> q]
    BY <1>5
  <2>2. o.frame = f /\ o.items = q
    BY <2>1
  <2>3. EndFrame(f)
    BY DEF EndFrame, Ends
  <2>4. QED
    BY <2>2, <2>3 DEF Moves
<1>6. QED
  BY <1>1, <1>2, <1>3, <1>4, <1>5

----------------------------------------------------------------------------
(* The end of the stream.                                                  *)

\* What Flushed computes, item by item.
Flushing(told, c) ==
    /\ told[0] = c
    /\ \A i \in 1 .. Len(c.items) : told[i] = flushTool(told[i - 1], i)
    /\ Flushed(c) = told[Len(c.items)]

LEMMA FlushedSteps ==
    ASSUME NEW c, Len(c.items) \in Nat
    PROVE  \E told : Flushing(told, c)
<1> DEFINE Body(g, k) ==
             [i \in 0 .. k |-> IF i = 0 THEN c ELSE flushTool(g[i - 1], i)]
           Good == {k \in Nat : \E g : g = Body(g, k)}
           told == CHOOSE g : g = Body(g, Len(c.items))
<1>1. 0 \in Good
  <2>1. [i \in 0 .. 0 |-> c] = Body([i \in 0 .. 0 |-> c], 0)
    OBVIOUS
  <2>2. QED
    BY <2>1
<1>2. ASSUME NEW k \in Nat, k \in Good
      PROVE  k + 1 \in Good
  <2>1. PICK g : g = Body(g, k)
    BY <1>2
  <2> DEFINE h == [i \in 0 .. k + 1 |->
                     IF i <= k THEN g[i] ELSE flushTool(g[k], k + 1)]
  <2>2. ASSUME NEW i \in 0 .. k + 1
        PROVE  h[i] = Body(h, k + 1)[i]
    <3>1. CASE i = 0
      BY <2>1, <3>1
    <3>2. CASE i # 0 /\ i <= k
      <4>1. i - 1 \in 0 .. k + 1 /\ i - 1 <= k /\ i \in 0 .. k
        BY <3>2
      <4>2. h[i - 1] = g[i - 1] /\ h[i] = g[i]
        BY <3>2, <4>1
      <4>3. g[i] = flushTool(g[i - 1], i)
        BY <2>1, <3>2, <4>1
      <4>4. QED
        BY <3>2, <4>2, <4>3
    <3>3. CASE i = k + 1
      <4>1. i - 1 = k /\ i # 0 /\ ~(i <= k) /\ k \in 0 .. k + 1
        BY <3>3
      <4>2. h[i] = flushTool(g[k], k + 1) /\ h[i - 1] = g[k]
        BY <3>3, <4>1
      <4>3. QED
        BY <3>3, <4>1, <4>2
    <3>4. QED
      BY <3>1, <3>2, <3>3
  <2>3. h = Body(h, k + 1)
    <3> HIDE DEF h
    <3>1. DOMAIN h = 0 .. k + 1 /\ h = [i \in 0 .. k + 1 |-> h[i]]
      BY DEF h
    <3>2. QED
      BY <2>2, <3>1
  <2>4. \E f : f = Body(f, k + 1)
    <3> HIDE DEF h, Body
    <3>1. QED
      BY <2>3
  <2>5. QED
    BY <2>4
<1>3. Nat \subseteq Good
  <2>1. \A k \in Nat : k \in Good => k + 1 \in Good
    BY <1>2
  <2> HIDE DEF Good
  <2>2. QED
    BY <1>1, <2>1, EveryNat
<1>4. told = Body(told, Len(c.items))
  <2>1. \E g : g = Body(g, Len(c.items))
    BY <1>3
  <2>2. QED
    BY <2>1
<1>5. Flushed(c) = told[Len(c.items)]
  BY DEF Flushed
<1> HIDE DEF told
<1>6. told[0] = c
  BY <1>4
<1>7. ASSUME NEW i \in 1 .. Len(c.items)
      PROVE  told[i] = flushTool(told[i - 1], i)
  <2>1. i \in 0 .. Len(c.items) /\ i # 0
    OBVIOUS
  <2>2. QED
    BY <1>4, <2>1
<1>8. Flushing(told, c)
  BY <1>5, <1>6, <1>7 DEF Flushing
<1>9. QED
  BY <1>8

\* What can be said of an item after the flush as before.
Likewise(p, r) ==
    r.args = p.args /\ r.callID = p.callID /\ (Silent(r) <=> Silent(p))

\* Calls behind what was there before.
Extends(bs, all) ==
    /\ Len(bs) <= Len(all)
    /\ \A k \in 1 .. Len(bs) : all[k] = bs[k]
    /\ \A k \in 1 .. Len(all) : k > Len(bs) => all[k] \in ToolBlocks

\* d is c with its first n items told of.
FlushedTo(c, d, pre, s, n) ==
    /\ Ready(d) /\ Same(c, d) /\ Settled(d, pre, s)
    /\ Extends(c.wire.blocks, d.wire.blocks)
    /\ Len(d.items) = Len(c.items)
    /\ \A k \in 1 .. Len(c.items) :
          /\ Likewise(c.items[k], d.items[k])
          /\ k <= n => d.items[k].emitted

LEMMA ExtendsHands ==
    ASSUME NEW bs \in Seq(Blocks), NEW m, NEW n, m.blocks \in Seq(Blocks),
           Extends(bs, m.blocks), Hands(m, n)
    PROVE  Extends(bs, n.blocks)
<1> DEFINE all == m.blocks
<1>1. all \in Seq(Blocks) /\ Extends(bs, all) /\ Len(bs) \in Nat /\ Len(all) \in Nat
  OBVIOUS
<1>2. CASE n = m
  BY <1>1, <1>2
<1>3. CASE \E b \in ToolBlocks : n = Saying(Append(m.blocks, b), FALSE)
  <2>1. PICK b \in ToolBlocks : n = Saying(Append(all, b), FALSE)
    BY <1>3
  <2> DEFINE more == Append(all, b)
  <2>2. n.blocks = more
    BY <2>1 DEF Saying
  <2> HIDE DEF all
  <2>3. /\ Len(more) = Len(all) + 1 /\ more[Len(all) + 1] = b
        /\ \A k \in 1 .. Len(all) : more[k] = all[k]
    <3>1. b \in Blocks
      BY DEF Blocks
    <3>2. QED
      BY <1>1, <3>1, AppendProperties
  <2> HIDE DEF more
  <2>4. Extends(bs, more)
    <3>1. /\ Len(bs) <= Len(all) /\ \A k \in 1 .. Len(bs) : all[k] = bs[k]
          /\ \A k \in 1 .. Len(all) : k > Len(bs) => all[k] \in ToolBlocks
      BY <1>1 DEF Extends
    <3>2. Len(bs) <= Len(more) /\ \A k \in 1 .. Len(bs) : k \in 1 .. Len(all)
      BY <1>1, <2>3, <3>1
    <3>3. \A k \in 1 .. Len(bs) : more[k] = bs[k]
      BY <2>3, <3>1, <3>2
    <3>4. ASSUME NEW k \in 1 .. Len(more), k > Len(bs)
          PROVE  more[k] \in ToolBlocks
      <4>1. CASE k = Len(all) + 1
        BY <2>3, <4>1
      <4>2. CASE k \in 1 .. Len(all)
        BY <2>3, <3>1, <3>4, <4>2
      <4>3. QED
        BY <1>1, <2>3, <4>1, <4>2
    <3>5. QED
      BY <3>2, <3>3, <3>4 DEF Extends
  <2>5. QED
    BY <2>2, <2>4
<1>4. QED
  BY <1>2, <1>3 DEF Hands

LEMMA FlushesOne ==
    ASSUME NEW c, NEW d, NEW pre \in Nat, NEW s \in Samples, NEW n \in Nat,
           Ready(c), OwnIds(c, pre, s), \A k \in 1 .. pre : Silent(c.items[k]),
           FlushedTo(c, d, pre, s, n), n < Len(c.items)
    PROVE  FlushedTo(c, flushTool(d, n + 1), pre, s, n + 1)
<1> DEFINE i == n + 1
           e == flushTool(d, i)
           bs == c.wire.blocks
<1>1. /\ Ready(d) /\ Same(c, d) /\ Settled(d, pre, s)
      /\ Extends(bs, d.wire.blocks)
      /\ Len(d.items) = Len(c.items) /\ Len(c.items) \in Nat
      /\ d.items \in Seq(Items) /\ c.items \in Seq(Items)
      /\ DOMAIN d.items = 1 .. Len(c.items)
  BY ItemsAre DEF FlushedTo
<1>2. \A k \in 1 .. Len(c.items) : /\ Likewise(c.items[k], d.items[k])
                                   /\ k <= n => d.items[k].emitted
  BY DEF FlushedTo
<1>3. i \in 1 .. Len(c.items) /\ i \in DOMAIN d.items
  BY <1>1
<1>4. OwnIds(d, pre, s)
  <2>1. ASSUME NEW k \in 1 .. Len(d.items) - pre
        PROVE  d.items[pre + k].callID \in {NoId, <<s, k>>}
    <3>1. pre + k \in 1 .. Len(c.items) /\ k \in 1 .. Len(c.items) - pre
      BY <1>1
    <3>2. d.items[pre + k].callID = c.items[pre + k].callID
      BY <1>2, <3>1 DEF Likewise
    <3>3. QED
      BY <3>1, <3>2 DEF OwnIds
  <2>2. QED
    BY <2>1 DEF OwnIds
<1>5. i <= pre => Silent(d.items[i])
  BY <1>2, <1>3 DEF Likewise
<1>6. Flushes(d, e, pre, s, i)
  <2> HIDE DEF i
  <2>1. QED
    BY <1>1, <1>3, <1>4, <1>5, FlushIs
<1> HIDE DEF e
<1>7. /\ Len(e.items) = Len(c.items)
      /\ \A k \in 1 .. Len(c.items) :
            IF k = i THEN e.items[k] = [d.items[i] EXCEPT !.emitted = TRUE]
            ELSE e.items[k] = d.items[k]
  <2> DEFINE q == d.items
             r == e.items
             g == [q[i] EXCEPT !.emitted = TRUE]
  <2>1. r = [q EXCEPT ![i] = g] /\ q \in Seq(Items) /\ DOMAIN q = 1 .. Len(c.items)
        /\ Len(q) = Len(c.items)
    BY <1>1, <1>6 DEF Flushes
  <2> HIDE DEF q, r, g
  <2>2. Len(r) = Len(c.items)
        /\ \A k \in 1 .. Len(c.items) : IF k = i THEN r[k] = g ELSE r[k] = q[k]
    BY <1>3, <2>1
  <2>3. QED
    BY <2>2 DEF q, r, g
<1>8. ASSUME NEW k \in 1 .. Len(c.items)
      PROVE  /\ Likewise(c.items[k], e.items[k])
             /\ k <= i => e.items[k].emitted
  <2>1. CASE k = i
    <3> DEFINE p == d.items[i]
               g == [p EXCEPT !.emitted = TRUE]
    <3>1. p \in Items
      BY <1>1, <1>3
    <3>2. e.items[k] = g
      BY <1>7, <2>1
    <3> HIDE DEF p
    <3>3. /\ g.args = p.args /\ g.callID = p.callID /\ g.name = p.name
          /\ g.sawAdded = p.sawAdded /\ g.notool = p.notool /\ g.emitted = TRUE
      BY <3>1 DEF Items
    <3> HIDE DEF g
    <3>4. Silent(g) <=> Silent(p)
      BY <3>3 DEF Silent
    <3>5. Likewise(c.items[k], p)
      BY <1>2, <2>1 DEF p
    <3>6. QED
      BY <3>2, <3>3, <3>4, <3>5 DEF Likewise
  <2>2. CASE k # i
    <3>1. k <= i => k <= n
      BY <1>1, <2>2
    <3>2. QED
      BY <1>2, <1>7, <2>2, <3>1
  <2>3. QED
    BY <2>1, <2>2
<1>9. Extends(bs, e.wire.blocks)
  <2>1. bs \in Seq(Blocks) /\ d.wire.blocks \in Seq(Blocks)
    BY <1>1, ReadyWire
  <2>2. Hands(d.wire, e.wire)
    BY <1>6 DEF Flushes
  <2>3. QED
    BY <1>1, <2>1, <2>2, ExtendsHands
<1>10. Ready(e) /\ Same(c, e) /\ Settled(e, pre, s)
  BY <1>1, <1>6 DEF Flushes, Same
<1>11. QED
  BY <1>7, <1>8, <1>9, <1>10 DEF FlushedTo, e

\* All items are told of.
LEMMA FlushedAll ==
    ASSUME NEW c, NEW pre \in Nat, NEW s \in Samples, Ready(c), Settled(c, pre, s),
           OwnIds(c, pre, s), \A k \in 1 .. pre : Silent(c.items[k])
    PROVE  FlushedTo(c, Flushed(c), pre, s, Len(c.items))
<1> DEFINE m == Len(c.items)
<1>1. m \in Nat /\ c.wire.blocks \in Seq(Blocks)
  BY ItemsAre, ReadyWire
<1>2. PICK told : /\ told[0] = c
                  /\ \A i \in 1 .. m : told[i] = flushTool(told[i - 1], i)
                  /\ Flushed(c) = told[m]
  BY <1>1, FlushedSteps DEF Flushing
<1> DEFINE Good == {n \in Nat : n <= m => FlushedTo(c, told[n], pre, s, n)}
<1>3. 0 \in Good
  <2>1. \A k \in 1 .. m : Likewise(c.items[k], c.items[k]) /\ ~(k <= 0)
    BY <1>1 DEF Likewise
  <2>2. Extends(c.wire.blocks, c.wire.blocks)
    <3> DEFINE bs == c.wire.blocks
    <3>1. bs \in Seq(Blocks)
      BY <1>1
    <3> HIDE DEF bs
    <3>2. Extends(bs, bs)
      BY <3>1 DEF Extends
    <3>3. QED
      BY <3>2 DEF bs
  <2>3. QED
    BY <1>2, <2>1, <2>2 DEF FlushedTo, Same
<1>4. ASSUME NEW n \in Nat, n \in Good
      PROVE  n + 1 \in Good
  <2>1. CASE n + 1 <= m
    <3>1. n < Len(c.items) /\ FlushedTo(c, told[n], pre, s, n)
      BY <1>1, <1>4, <2>1
    <3>2. FlushedTo(c, flushTool(told[n], n + 1), pre, s, n + 1)
      BY <3>1, FlushesOne
    <3>3. told[n + 1] = flushTool(told[n], n + 1)
      <4>1. n + 1 \in 1 .. m /\ (n + 1) - 1 = n
        BY <1>1, <2>1
      <4>2. QED
        BY <1>2, <4>1
    <3>4. QED
      BY <3>2, <3>3
  <2>2. CASE ~(n + 1 <= m)
    BY <2>2
  <2>3. QED
    BY <2>1, <2>2
<1>5. Nat \subseteq Good
  <2>1. \A n \in Nat : n \in Good => n + 1 \in Good
    BY <1>4
  <2> HIDE DEF Good
  <2>2. QED
    BY <1>3, <2>1, EveryNat
<1>6. m \in Good
  BY <1>1, <1>5
<1>7. QED
  BY <1>1, <1>2, <1>6

\* What is looked at of a streamer that has been finalized.
Fields == {"wire", "text", "head", "items", "dropped", "toolUse", "failed", "finalized"}

\* What a streamer has said when the message has ended.
Finished(c, d, pre, s) ==
    /\ Fields \subseteq DOMAIN d
    /\ d.text = c.text /\ d.head = c.head /\ d.failed = c.failed /\ d.finalized = TRUE
    /\ \E all \in Seq(Blocks), reason \in {"end_turn", "max_tokens", "tool_use"} :
          /\ d.wire = Closing(all, reason)
          /\ Extends(c.wire.blocks, all)
          /\ reason = "tool_use" <=> Calls(d.wire) # <<>>
    /\ Settled(d, pre, s) /\ d.dropped \in Seq(Items)
    /\ Len(d.items) = Len(c.items)
    /\ \A k \in 1 .. Len(c.items) : Likewise(c.items[k], d.items[k]) /\ d.items[k].emitted

LEMMA FinalIs ==
    ASSUME NEW c, NEW pre \in Nat, NEW s \in Samples, Ready(c), Settled(c, pre, s),
           OwnIds(c, pre, s), \A k \in 1 .. pre : Silent(c.items[k]), ~c.failed
    PROVE  Finished(c, Finalize(c), pre, s)
<1> DEFINE e == Flushed(c)
           t == closeTextBlock(e)
           all == t.wire.blocks
           reason == StopReason(t)
           w == Closing(all, reason)
           d == Finalize(c)
<1>1. FlushedTo(c, e, pre, s, Len(c.items)) /\ Len(c.items) \in Nat
  BY FlushedAll, ItemsAre
<1>2. Ready(e) /\ Same(c, e) /\ Settled(e, pre, s) /\ Extends(c.wire.blocks, e.wire.blocks)
      /\ Len(e.items) = Len(c.items)
      /\ \A k \in 1 .. Len(c.items) : Likewise(c.items[k], e.items[k]) /\ e.items[k].emitted
  BY <1>1 DEF FlushedTo
<1>3. Closes(e, t)
  BY <1>2, ClosesText
<1> HIDE DEF e, t
<1>4. t \in Streamers /\ ~t.open
      /\ t.wire = Saying(all, FALSE) /\ all = e.wire.blocks /\ all \in Seq(Blocks)
      /\ t.text = c.text /\ t.head = c.head /\ t.items = e.items
      /\ t.dropped = e.dropped /\ t.toolUse = e.toolUse /\ t.failed = c.failed
  <2>1. Ready(t) /\ ~t.open
    BY <1>3 DEF Closes
  <2>2. t.wire = Saying(all, FALSE) /\ all \in Seq(Blocks)
    BY <2>1, ReadyWire
  <2>3. all = e.wire.blocks
    BY <1>3 DEF Closes
  <2>4. QED
    BY <1>2, <1>3, <2>1, <2>2, <2>3 DEF Closes, Ready, Alike, Same
<1>5. /\ reason \in {"end_turn", "max_tokens", "tool_use"}
      /\ reason = "tool_use" <=> t.toolUse
  BY <1>4 DEF StopReason, Streamers
<1> HIDE DEF all, reason
<1>6. Received(t.wire, <<Stopping(reason), Stopped>>) = w
  <2>1. Received(Saying(all, FALSE), <<Stopping(reason), Stopped>>) = w
    BY <1>5, ReceivedEnd
  <2>2. QED
    BY <1>4, <2>1
<1>7. d = [[t EXCEPT !.wire = w] EXCEPT !.finalized = TRUE]
  <2>1. ~c.finalized /\ ~c.failed
    BY DEF Ready, Streamers
  <2>2. d = [Ended(c) EXCEPT !.finalized = TRUE]
    BY <2>1 DEF Finalize
  <2>3. Ended(c) = Told(t, <<Stopping(reason), Stopped>>)
    BY DEF Ended, t, e, reason
  <2>4. Told(t, <<Stopping(reason), Stopped>>) = [t EXCEPT !.wire = w]
    <3> HIDE DEF w
    <3>1. QED
      BY <1>6 DEF Told
  <2> HIDE DEF w, d
  <2>5. QED
    BY <2>2, <2>3, <2>4
<1> HIDE DEF w, d
<1>8. /\ d.wire = w /\ d.finalized = TRUE /\ d.text = t.text /\ d.head = t.head
      /\ d.items = t.items /\ d.dropped = t.dropped /\ d.toolUse = t.toolUse
      /\ d.failed = t.failed
  BY <1>4, <1>7 DEF Streamers
<1>9. w.blocks = all /\ Fields \subseteq DOMAIN d
  <2>1. Fields \subseteq DOMAIN d
    BY <1>4, <1>7 DEF Streamers, Fields
  <2>2. QED
    BY <2>1 DEF w, Closing
<1>10. Calls(d.wire) = Calls(e.wire)
  BY <1>4, <1>8, <1>9 DEF Calls
<1>11. Settled(d, pre, s)
  <2>1. Out(d, pre) = Out(e, pre)
    BY <1>4, <1>8 DEF Out
  <2>2. d.items = e.items /\ d.dropped = e.dropped /\ d.toolUse = e.toolUse
    BY <1>4, <1>8
  <2>3. \A i \in Out(e, pre) : d.items[pre + i].args = e.items[pre + i].args
    BY <2>2
  <2>4. QED
    BY <1>2, <1>10, <2>1, <2>2, <2>3, SettledStill
<1>12. reason = "tool_use" <=> Calls(d.wire) # <<>>
  BY <1>2, <1>4, <1>5, <1>10 DEF Settled
<1>13. \E a \in Seq(Blocks), r \in {"end_turn", "max_tokens", "tool_use"} :
          /\ d.wire = Closing(a, r)
          /\ Extends(c.wire.blocks, a)
          /\ r = "tool_use" <=> Calls(d.wire) # <<>>
  BY <1>2, <1>4, <1>5, <1>8, <1>12 DEF w
<1>14. d.dropped \in Seq(Items)
  BY <1>4, <1>8 DEF Streamers
<1>15. Finished(c, d, pre, s)
  BY <1>2, <1>4, <1>8, <1>9, <1>11, <1>13, <1>14 DEF Finished
<1>16. QED
  BY <1>15 DEF d

\* A streamer whose message broke off.
Broken(c, d) ==
    /\ Fields \subseteq DOMAIN d
    /\ d.wire = [c.wire EXCEPT !.failed = TRUE]
    /\ d.text = c.text /\ d.head = c.head /\ d.failed = c.failed
    /\ d.items = c.items /\ d.dropped = c.dropped /\ d.toolUse = c.toolUse

LEMMA FailedIs ==
    ASSUME NEW c, Ready(c), c.failed
    PROVE  Broken(c, Finalize(c))
<1> DEFINE w == [c.wire EXCEPT !.failed = TRUE]
           d == Finalize(c)
<1>1. c \in Streamers /\ ~c.finalized /\ c.wire.valid
  BY DEF Ready, Streamers, Tellings
<1>2. Received(c.wire, <<Error>>) = w
  BY <1>1, ReceivedError
<1>3. d = [[c EXCEPT !.wire = w] EXCEPT !.finalized = TRUE]
  <2>1. d = [Told(c, <<Error>>) EXCEPT !.finalized = TRUE]
    BY <1>1 DEF Finalize
  <2>2. Told(c, <<Error>>) = [c EXCEPT !.wire = w]
    <3> HIDE DEF w
    <3>1. QED
      BY <1>2 DEF Told
  <2> HIDE DEF w, d
  <2>3. QED
    BY <2>1, <2>2
<1> HIDE DEF w, d
<1>4. /\ d.wire = w /\ d.text = c.text /\ d.head = c.head
      /\ d.items = c.items /\ d.dropped = c.dropped /\ d.toolUse = c.toolUse
      /\ d.failed = c.failed /\ Fields \subseteq DOMAIN d
  BY <1>1, <1>3 DEF Streamers, Fields
<1>5. QED
  BY <1>4 DEF Broken, w, d

\* The streamer of a broken body, finalized and with the error told.
LEMMA ErrorIs ==
    ASSUME NEW c, c.wire.valid, Fields \subseteq DOMAIN c
    PROVE  Broken(c, EmitError(c))
<1> DEFINE w == [c.wire EXCEPT !.failed = TRUE]
           d == EmitError(c)
<1>1. Received(c.wire, <<Error>>) = w
  BY ReceivedError
<1>2. d = [[c EXCEPT !.wire = w] EXCEPT !.finalized = TRUE]
  <2>1. d = [Told(c, <<Error>>) EXCEPT !.finalized = TRUE]
    BY DEF EmitError
  <2>2. Told(c, <<Error>>) = [c EXCEPT !.wire = w]
    <3> HIDE DEF w
    <3>1. QED
      BY <1>1 DEF Told
  <2> HIDE DEF w, d
  <2>3. QED
    BY <2>1, <2>2
<1> HIDE DEF w, d
<1>3. /\ d.wire = w /\ d.text = c.text /\ d.head = c.head
      /\ d.items = c.items /\ d.dropped = c.dropped /\ d.toolUse = c.toolUse
      /\ d.failed = c.failed /\ Fields \subseteq DOMAIN d
  BY <1>2 DEF Fields
<1>4. QED
  BY <1>3 DEF Broken, w, d

----------------------------------------------------------------------------
(* What a client is told in the end.                                       *)

\* Everything that q has told the streamer is accounted for.
Counted(d, q) ==
    LET told == Calls(d.wire) \o d.dropped
        calls == Picked(q, {i \in DOMAIN q : Evident(q[i])})
    IN  /\ Len(told) = Len(calls)
        /\ \A call \in ToSet(calls) : \E b \in ToSet(told) :
              b.args = Pieces(call, 1, Arrived(call))
                  \/ (Arrived(call) = 0 /\ b.args = <<>>)

\* The calls on the wire are sample s's.
CallsAre(d, s) ==
    \A b \in ToSet(Calls(d.wire)) : b.args # <<>> => b.args[1].call[1] = s

\* Items that were told of have the arguments that came for them.
ToldArgs(d, pre, q) ==
    \A i \in Out(d, pre) :
        i \in DOMAIN q /\ d.items[pre + i].args = Pieces(q[i], 1, Came(q[i]))

LEMMA CallsAreOf ==
    ASSUME NEW d, NEW pre \in Nat, NEW s \in Samples, NEW q, Ordered(q, s),
           Settled(d, pre, s), ToldArgs(d, pre, q)
    PROVE  CallsAre(d, s)
<1> DEFINE calls == Calls(d.wire)
<1>1. ASSUME NEW b \in ToSet(calls), b.args # <<>>
      PROVE  b.args[1].call[1] = s
  <2>1. PICK k \in DOMAIN calls : b = calls[k]
    BY DEF ToSet
  <2>2. PICK i \in Out(d, pre) : Owns(d, pre, s, i, calls[k])
    BY DEF Settled
  <2>3. i \in DOMAIN q /\ b.args = Pieces(q[i], 1, Came(q[i]))
    BY <2>1, <2>2 DEF Owns, ToldArgs
  <2>4. Proper(q[i]) /\ q[i].id = <<s, i>> /\ q[i] \in SentItems
    BY <2>3 DEF Ordered, Proper
  <2>5. Came(q[i]) \in {0, 1, 2}
    BY <2>4, ArrivedIs
  <2> DEFINE call == q[i]
             n == Came(call)
             args == Pieces(call, 1, n)
  <2>6. call \in SentItems /\ n \in {0, 1, 2}
    BY <2>4, <2>5
  <2> HIDE DEF call, n
  <2>7. /\ args = <<>> <=> n = 0
        /\ n > 0 => args[1].call = call.id
    BY <2>6, PiecesAre
  <2>8. b.args = args /\ call.id = <<s, i>>
    BY <2>3, <2>4 DEF call, n
  <2> HIDE DEF args
  <2>9. args[1].call = <<s, i>>
    BY <1>1, <2>6, <2>7, <2>8
  <2>10. QED
    BY <2>8, <2>9
<1>2. QED
  BY <1>1 DEF CallsAre

\* While the streamer holds the sample, and when it is finalized.
LEMMA HeldArgs ==
    ASSUME NEW c, NEW d, NEW pre \in Nat, NEW base \in Bases, NEW s \in Samples, NEW q,
           Ready(c), Ordered(q, s), Holding(c, pre, base, q),
           Len(d.items) = Len(c.items),
           \A k \in 1 .. Len(c.items) : Likewise(c.items[k], d.items[k])
    PROVE  /\ ToldArgs(d, pre, q)
           /\ \A i \in DOMAIN q :
                 /\ pre + i \in 1 .. Len(c.items)
                 /\ d.items[pre + i].args = Pieces(q[i], 1, Came(q[i]))
                 /\ Silent(d.items[pre + i]) <=> ~Evident(q[i])
           /\ 1 .. Len(d.items) - pre = DOMAIN q /\ Len(q) \in Nat
<1>1. base \in {0, 1} /\ Len(q) \in Nat /\ DOMAIN q = 1 .. Len(q)
      /\ Len(c.items) = pre + Len(q) /\ Len(c.items) \in Nat
  BY ItemsAre DEF Bases, Ordered, Holding
<1>2. 1 .. Len(d.items) - pre = DOMAIN q
  BY <1>1
<1>3. ASSUME NEW i \in DOMAIN q
      PROVE  /\ pre + i \in 1 .. Len(c.items)
             /\ d.items[pre + i].args = Pieces(q[i], 1, Came(q[i]))
             /\ Silent(d.items[pre + i]) <=> ~Evident(q[i])
  <2>1. pre + i \in 1 .. Len(c.items)
    BY <1>1
  <2>2. Proper(q[i]) /\ c.items[pre + i] = Gathered(q[i], base)
    BY DEF Ordered, Holding
  <2> DEFINE g == Gathered(q[i], base)
  <2>3. g.args = Pieces(q[i], 1, Came(q[i])) /\ (Silent(g) <=> ~Evident(q[i]))
    BY <1>1, <2>2, GatheredIs, SilenceIs
  <2> HIDE DEF g
  <2>4. Likewise(g, d.items[pre + i])
    BY <2>1, <2>2 DEF g
  <2>5. QED
    BY <2>1, <2>3, <2>4 DEF Likewise
<1>4. ToldArgs(d, pre, q)
  BY <1>2, <1>3 DEF ToldArgs, Out
<1>5. QED
  BY <1>1, <1>2, <1>3, <1>4

LEMMA CountedIs ==
    ASSUME NEW c, NEW d, NEW pre \in Nat, NEW base \in Bases, NEW s \in Samples, NEW q,
           Ready(c), Ordered(q, s), Holding(c, pre, base, q),
           Len(d.items) = Len(c.items),
           \A k \in 1 .. Len(c.items) : Likewise(c.items[k], d.items[k])
                                        /\ d.items[k].emitted,
           Settled(d, pre, s), Calls(d.wire) \in Seq(Blocks), d.dropped \in Seq(Items)
    PROVE  Counted(d, q)
<1> DEFINE places == {i \in DOMAIN q : Evident(q[i])}
           calls == Picked(q, places)
           handed == Calls(d.wire)
           lost == d.dropped
           told == handed \o lost
<1>1. /\ \A i \in DOMAIN q :
            /\ pre + i \in 1 .. Len(c.items)
            /\ d.items[pre + i].args = Pieces(q[i], 1, Came(q[i]))
            /\ Silent(d.items[pre + i]) <=> ~Evident(q[i])
      /\ 1 .. Len(d.items) - pre = DOMAIN q /\ Len(q) \in Nat
  BY HeldArgs
<1>2. Out(d, pre) = places
  <2>1. \A i \in DOMAIN q : d.items[pre + i].emitted
    BY <1>1
  <2>2. QED
    BY <1>1, <2>1 DEF Out
<1>3. q \in Seq(SentItems) /\ places \subseteq DOMAIN q
  BY DEF Ordered
<1> HIDE DEF places
<1>4. /\ calls \in Seq(SentItems) /\ Len(calls) = Cardinality(places)
      /\ \A k \in DOMAIN calls : \E i \in places : calls[k] = q[i]
  BY <1>3, PickedAll
<1>5. /\ Len(handed) + Len(lost) = Cardinality(places)
      /\ \A i \in places :
            \/ \E k \in DOMAIN handed : handed[k].args = d.items[pre + i].args
            \/ \E k \in DOMAIN lost : lost[k].args = d.items[pre + i].args
  BY <1>2 DEF Settled
<1> DEFINE T == Blocks \cup Items
<1>6. handed \in Seq(T) /\ lost \in Seq(T)
  <2> HIDE DEF handed, lost
  <2>1. handed \in Seq(Blocks) /\ lost \in Seq(Items)
    BY DEF handed, lost
  <2>2. QED
    BY <2>1
<1> HIDE DEF handed, lost, calls, T
<1>7. /\ told \in Seq(T) /\ Len(told) = Len(handed) + Len(lost)
      /\ DOMAIN told = 1 .. Len(handed) + Len(lost)
      /\ \A k \in 1 .. Len(handed) : told[k] = handed[k]
      /\ \A k \in 1 .. Len(lost) : told[Len(handed) + k] = lost[k]
      /\ DOMAIN handed = 1 .. Len(handed) /\ DOMAIN lost = 1 .. Len(lost)
      /\ Len(handed) \in Nat /\ Len(lost) \in Nat
  BY <1>6
<1> HIDE DEF told
<1>8. ASSUME NEW call \in ToSet(calls)
      PROVE  \E b \in ToSet(told) : b.args = Pieces(call, 1, Arrived(call))
  <2>1. PICK i \in places : call = q[i]
    BY <1>4 DEF ToSet
  <2>2. i \in DOMAIN q /\ Proper(call)
    BY <1>3, <2>1 DEF Ordered
  <2>3. d.items[pre + i].args = Pieces(call, 1, Arrived(call))
    BY <1>1, <2>1, <2>2, ArrivedIs
  <2>4. CASE \E k \in DOMAIN handed : handed[k].args = d.items[pre + i].args
    <3>1. PICK k \in 1 .. Len(handed) : handed[k].args = d.items[pre + i].args
      BY <1>7, <2>4
    <3>2. k \in DOMAIN told /\ told[k] = handed[k]
      BY <1>7, <3>1
    <3>3. QED
      BY <2>3, <3>1, <3>2 DEF ToSet
  <2>5. CASE \E k \in DOMAIN lost : lost[k].args = d.items[pre + i].args
    <3>1. PICK k \in 1 .. Len(lost) : lost[k].args = d.items[pre + i].args
      BY <1>7, <2>5
    <3>2. Len(handed) + k \in DOMAIN told /\ told[Len(handed) + k] = lost[k]
      BY <1>7, <3>1
    <3>3. QED
      BY <2>3, <3>1, <3>2 DEF ToSet
  <2>6. QED
    BY <1>5, <2>1, <2>4, <2>5
<1>9. Len(told) = Len(calls)
  BY <1>4, <1>5, <1>7
<1>10. QED
  BY <1>8, <1>9 DEF Counted, told, calls, handed, lost, places

----------------------------------------------------------------------------
(* The frames that are kept for the replay.                                *)

TextFrames == [type : {"text", "text_done"}, from : Samples, ends : Heads]
EndFrames ==
    [type : {"completed", "incomplete", "failed"},
     status : {"", "completed", "incomplete"}, big : BOOLEAN]
ItemFrames ==
    [type : {"delta", "added", "done"}, item : {0} \X Nat,
     kind : {"function_call", "other", "none"}, name : SaidNames, callID : Ids,
     args : Seq(Parts)]
AllFrames == TextFrames \cup EndFrames \cup ItemFrames

LEMMA FrameType ==
    ASSUME NEW call, Proper(call)
    PROVE  Frame(call, call.at) \in ItemFrames
<1> DEFINE f == Frame(call, call.at)
<1>1. f = [type |-> f.type, item |-> f.item, kind |-> f.kind, name |-> f.name,
           callID |-> f.callID, args |-> f.args]
  BY DEF Frame
<1>2. Tells(f, call, 0)
  BY FrameTells
<1>3. ItemFrame(f) /\ f.item = <<0, call.id[2]>>
  BY <1>2, TellsType
<1>4. call.id[2] \in Nat
  BY DEF Proper, SentItems, CallIds
<1> HIDE DEF f
<1>5. /\ f.type \in {"delta", "added", "done"} /\ f.item \in {0} \X Nat
      /\ f.kind \in {"function_call", "other", "none"}
      /\ f.name \in SaidNames /\ f.callID \in Ids /\ f.args \in Seq(Parts)
  BY <1>3, <1>4 DEF ItemFrame
<1>6. QED
  BY <1>1, <1>5 DEF ItemFrames, f

LEMMA OffersType ==
    ASSUME NEW s \in Samples, Ordered(sent[s], s), NEW o \in Offers(s),
           ResponsesAssumption
    PROVE  o.frame \in AllFrames
<1> DEFINE q == sent[s]
<1>1. CASE o.frame \in Texts(s)
  <2>1. Texts(s) \subseteq TextFrames
    <3> DEFINE E == (IF s = 1 THEN Endings ELSE {"plain"}) \cup {""}
    <3>1. E \subseteq Heads
      BY DEF Heads
    <3>2. Texts(s) = [type : {"text", "text_done"}, from : {s}, ends : E]
      BY DEF Texts
    <3> HIDE DEF E
    <3>3. QED
      BY <3>1, <3>2 DEF TextFrames
  <2>2. QED
    BY <1>1, <2>1 DEF AllFrames
<1>2. CASE o.frame \in Ends(s)
  <2>1. Ends(s) \subseteq EndFrames
    <3> DEFINE big == (s = 1)
    <3>1. big \in BOOLEAN
      OBVIOUS
    <3>2. Ends(s) = [type : {"completed"}, status : {"completed", "incomplete", ""},
                     big : {FALSE, big}]
                    \cup [type : {"incomplete", "failed"}, status : {""}, big : {FALSE}]
      BY DEF Ends
    <3> HIDE DEF big
    <3>3. {FALSE, big} \subseteq BOOLEAN
      BY <3>1
    <3> DEFINE B == {FALSE, big}
    <3> HIDE DEF B
    <3>4. B \subseteq BOOLEAN
      BY <3>3 DEF B
    <3>5. [type : {"completed"}, status : {"completed", "incomplete", ""}, big : B]
            \subseteq EndFrames
      BY <3>4 DEF EndFrames
    <3>6. [type : {"incomplete", "failed"}, status : {""}, big : {FALSE}] \subseteq EndFrames
      BY DEF EndFrames
    <3>7. QED
      BY <3>2, <3>5, <3>6 DEF B
  <2>2. QED
    BY <1>2, <2>1 DEF AllFrames
<1>3. CASE o.frame \notin Texts(s) \cup Ends(s)
  <2>1. \A c, k : Frame(c, k).type \in {"delta", "added", "done"}
    BY DEF Frame
  <2>2. o.frame.type \in {"delta", "added", "done"}
    BY <1>3, <2>1 DEF Offers
  <2>3. ~TextFrame(o.frame, s) /\ ~EndFrame(o.frame)
    BY <2>2 DEF TextFrame, EndFrame
  <2>4. Moves(s, q, o.frame, o.items)
    BY OffersMove
  <2>5. PICK i \in DOMAIN o.items : MovesItem(q, o.frame, o.items, i)
    BY <2>3, <2>4 DEF Moves
  <2>6. Proper(o.items[i]) /\ o.frame = Frame(o.items[i], o.items[i].at)
    BY <2>4, <2>5 DEF Moves, Ordered, MovesItem
  <2>7. QED
    BY <2>6, FrameType DEF AllFrames
<1>4. QED
  BY <1>1, <1>2, <1>3

\* A frame that is not of an item leaves the record of items as it is.
LEMMA MovesStill ==
    ASSUME NEW s, NEW q, NEW f, NEW r, Moves(s, q, f, r),
           f.type \notin {"delta", "added", "done"}
    PROVE  r = q
<1>1. \A c, k : Frame(c, k).type \in {"delta", "added", "done"}
  BY DEF Frame
<1>2. QED
  BY <1>1 DEF Moves, MovesItem

\* Frames that lead a sample from the items of before to those of after.
Trail(before, fs, after) ==
    \E trail \in [0 .. Len(fs) -> Seq(SentItems)] :
        /\ trail[0] = before
        /\ trail[Len(fs)] = after
        /\ \A i \in 1 .. Len(fs) : Moves(2, trail[i - 1], fs[i], trail[i])

LEMMA TrailNone ==
    ASSUME NEW before, NEW after
    PROVE  /\ before = after /\ before \in Seq(SentItems) => Trail(before, <<>>, after)
           /\ Trail(before, <<>>, after) => before = after
<1>1. Len(<<>>) = 0 /\ 0 .. 0 = {0} /\ 1 .. 0 = {}
  OBVIOUS
<1>2. ASSUME before = after, before \in Seq(SentItems)
      PROVE  Trail(before, <<>>, after)
  <2> DEFINE trail == [i \in 0 .. Len(<<>>) |-> before]
  <2>1. trail \in [0 .. Len(<<>>) -> Seq(SentItems)]
    BY <1>2
  <2>2. trail[0] = before /\ trail[Len(<<>>)] = after
    BY <1>1, <1>2
  <2> HIDE DEF trail
  <2>3. QED
    BY <1>1, <2>1, <2>2 DEF Trail
<1>3. QED
  BY <1>1, <1>2 DEF Trail

LEMMA TrailMore ==
    ASSUME NEW before, NEW fs \in Seq(AllFrames), NEW after, NEW f \in AllFrames, NEW last,
           Trail(before, fs, after), Moves(2, after, f, last)
    PROVE  Trail(before, Append(fs, f), last)
<1> DEFINE n == Len(fs)
           more == Append(fs, f)
<1>1. PICK trail \in [0 .. n -> Seq(SentItems)] :
        /\ trail[0] = before /\ trail[n] = after
        /\ \A i \in 1 .. n : Moves(2, trail[i - 1], fs[i], trail[i])
  BY DEF Trail
<1>2. /\ n \in Nat /\ Len(more) = n + 1
      /\ \A i \in 1 .. n : more[i] = fs[i]
      /\ more[n + 1] = f
  BY AppendProperties
<1> DEFINE next == [i \in 0 .. n + 1 |-> IF i \in 0 .. n THEN trail[i] ELSE last]
<1> HIDE DEF n, more
<1>3. next \in [0 .. n + 1 -> Seq(SentItems)]
  <2>1. last \in Seq(SentItems)
    BY DEF Moves, Ordered
  <2>2. \A i \in 0 .. n + 1 : (IF i \in 0 .. n THEN trail[i] ELSE last) \in Seq(SentItems)
    BY <1>1, <2>1
  <2>3. QED
    BY <2>2
<1>4. next[0] = before /\ next[n + 1] = last
      /\ \A i \in 0 .. n : next[i] = trail[i]
  BY <1>1, <1>2
<1> HIDE DEF next
<1>5. ASSUME NEW i \in 1 .. n + 1
      PROVE  Moves(2, next[i - 1], more[i], next[i])
  <2>1. CASE i \in 1 .. n
    <3>1. i \in 0 .. n /\ i - 1 \in 0 .. n
      BY <1>2, <2>1
    <3>2. QED
      BY <1>1, <1>2, <1>4, <2>1, <3>1
  <2>2. CASE i = n + 1
    <3>1. i - 1 = n /\ n \in 0 .. n
      BY <1>2, <2>2
    <3>2. next[i - 1] = after
      BY <1>1, <1>4, <3>1
    <3>3. QED
      BY <1>2, <1>4, <2>2, <3>2
  <2>3. QED
    BY <1>2, <2>1, <2>2
<1>6. Trail(before, more, last)
  BY <1>2, <1>3, <1>4, <1>5 DEF Trail
<1>7. QED
  BY <1>6 DEF more

LEMMA TrailRest ==
    ASSUME NEW before, NEW fs \in Seq(AllFrames), NEW after, fs # <<>>,
           Trail(before, fs, after)
    PROVE  \E next \in Seq(SentItems) :
              Moves(2, before, Head(fs), next) /\ Trail(next, Tail(fs), after)
<1> DEFINE n == Len(fs)
           rest == Tail(fs)
           first == Head(fs)
<1>1. PICK trail \in [0 .. n -> Seq(SentItems)] :
        /\ trail[0] = before /\ trail[n] = after
        /\ \A i \in 1 .. n : Moves(2, trail[i - 1], fs[i], trail[i])
  BY DEF Trail
<1>2. /\ n \in Nat /\ n > 0 /\ Len(rest) = n - 1
      /\ \A i \in 1 .. n - 1 : rest[i] = fs[i + 1]
      /\ first = fs[1]
  <2>1. /\ Len(rest) = Len(fs) - 1 /\ Len(fs) \in Nat /\ Len(fs) # 0
        /\ first = fs[1]
    BY EmptySeq
  <2>2. \A i \in 1 .. Len(fs) - 1 : rest[i] = fs[i + 1]
    OBVIOUS
  <2>3. QED
    BY <2>1, <2>2
<1> HIDE DEF n, rest, first
<1>3. Moves(2, before, first, trail[1]) /\ trail[1] \in Seq(SentItems)
  <2>1. 1 \in 1 .. n /\ 1 \in 0 .. n /\ 1 - 1 = 0
    BY <1>2
  <2>2. QED
    BY <1>1, <1>2, <2>1
<1> DEFINE next == [i \in 0 .. n - 1 |-> trail[i + 1]]
<1>4. next \in [0 .. n - 1 -> Seq(SentItems)]
  <2>1. \A i \in 0 .. n - 1 : i + 1 \in 0 .. n
    BY <1>2
  <2>2. QED
    BY <1>1, <2>1
<1>5. next[0] = trail[1] /\ next[n - 1] = after
  <2>1. 0 \in 0 .. n - 1 /\ n - 1 \in 0 .. n - 1 /\ (n - 1) + 1 = n /\ 0 + 1 = 1
    BY <1>2
  <2>2. QED
    BY <1>1, <2>1
<1>6. ASSUME NEW i \in 1 .. n - 1
      PROVE  Moves(2, next[i - 1], rest[i], next[i])
  <2>1. /\ i \in 0 .. n - 1 /\ i - 1 \in 0 .. n - 1
        /\ i + 1 \in 1 .. n /\ (i + 1) - 1 = i /\ (i - 1) + 1 = i
    BY <1>2
  <2>2. next[i] = trail[i + 1] /\ next[i - 1] = trail[i]
    BY <2>1
  <2>3. Moves(2, trail[i], fs[i + 1], trail[i + 1])
    BY <1>1, <2>1
  <2>4. QED
    BY <1>2, <2>2, <2>3
<1> HIDE DEF next
<1>7. Trail(trail[1], rest, after)
  BY <1>2, <1>4, <1>5, <1>6 DEF Trail
<1>8. QED
  BY <1>3, <1>7 DEF rest, first

----------------------------------------------------------------------------
(* The inductive invariant.                                                *)

TypeOK ==
    /\ pc \in {"first", "verdict", "second", "replay", "done"}
    /\ enabled \in BOOLEAN
    /\ frames \in Seq(AllFrames)
    /\ attempt \in 1 .. MaxAttempts
    /\ sent \in [Samples -> Seq(SentItems)]
    /\ count \in [Samples -> 0 .. MaxFrames]
    /\ ended \subseteq Samples

Sending == \A s \in Samples : Ordered(sent[s], s)

\* A streamer that is told its own sample's frames.
Held(c, s) == Ready(c) /\ Holding(c, 0, 0, sent[s]) /\ Settled(c, 0, s)

\* The text of the first sample, and what a further one needs of it.
Spoke == conv.text \subseteq {1} /\ (conv.head # "" => 1 \in conv.text)
Retried == attempt > 1 => conv.head = "colon" /\ 1 \in conv.text

\* Text is kept only if the first sample had none.
NoMoreText ==
    \A i \in DOMAIN frames :
        frames[i].type \in {"text", "text_done"} => 1 \notin conv.text

\* The first sample is relayed; of a further one there is nothing.
WhileFirst ==
    pc \in {"first", "verdict"} =>
        /\ Held(conv, 1) /\ Held(candidate, 2)
        /\ sent[2] = <<>> /\ frames = <<>>
        /\ Spoke /\ Retried
        /\ pc = "first" => attempt = 1

\* The first sample made no calls, and the kept frames lead a streamer to the
\* items of the further one.
WhileSecond ==
    pc = "second" =>
        /\ Held(conv, 1) /\ Held(candidate, 2)
        /\ \A i \in DOMAIN conv.items : Silent(conv.items[i])
        /\ Calls(conv.wire) = <<>> /\ conv.dropped = <<>>
        /\ Trail(<<>>, frames, sent[2])
        /\ Spoke /\ Retried /\ NoMoreText

\* Behind the first sample's items the streamer holds q of the further one's,
\* and the frames that are left lead to all of them.
WhileReplay ==
    pc = "replay" =>
        /\ Won
        /\ Ready(conv) /\ Settled(conv, Len(sent[1]), 2)
        /\ \E q : /\ Ordered(q, 2) /\ Holding(conv, Len(sent[1]), 1, q)
                  /\ Trail(q, frames, sent[2])
        /\ conv.text \in {{}, {1}, {2}}
        /\ Retried /\ NoMoreText

WhenDone == pc = "done" => CallsExactlyOnce /\ OneSample

IInv ==
    TypeOK /\ Sending /\ WhileFirst /\ WhileSecond /\ WhileReplay /\ WhenDone

----------------------------------------------------------------------------
(* The initial states, and the actions one by one.                         *)

\* Nothing is told, and nothing is to be told.
LEMMA SettledNone ==
    ASSUME NEW c, NEW pre \in Nat, NEW s, Len(c.items) = pre,
           Calls(c.wire) = <<>>, c.dropped = <<>>, ~c.toolUse
    PROVE  Settled(c, pre, s)
<1> DEFINE none == <<>>
           calls == Calls(c.wire)
<1>1. calls = none /\ c.dropped = none
  OBVIOUS
<1>2. Len(none) = 0 /\ DOMAIN none = {}
  OBVIOUS
<1>3. calls = <<>>
  OBVIOUS
<1> HIDE DEF none, calls
<1>4. Out(c, pre) = {}
  BY DEF Out
<1>5. Cardinality(Out(c, pre)) = 0
  BY <1>4, FS_EmptySet
<1>6. Len(calls) = 0 /\ Len(c.dropped) = 0
  BY <1>1, <1>2
<1>7. Len(calls) + Len(c.dropped) = Cardinality(Out(c, pre))
  BY <1>5, <1>6
<1>8. DOMAIN calls = {}
  BY <1>1, <1>2
<1>9. c.toolUse <=> calls # <<>>
  BY <1>3
<1>10. QED
  BY <1>4, <1>7, <1>8, <1>9 DEF Settled, calls

LEMMA FreshIs ==
    ASSUME NEW names \in BOOLEAN, NEW s \in Samples
    PROVE  LET c == NewResponsesToAnthropicStreamer(names)
           IN  /\ Ready(c) /\ Holding(c, 0, 0, <<>>) /\ Settled(c, 0, s)
               /\ c.wire = NoMessage /\ c.text = {} /\ c.head = ""
               /\ c.finalized = FALSE
<1> DEFINE c == NewResponsesToAnthropicStreamer(names)
<1>1. c \in Streamers
  <2>1. NoMessage \in Tellings
    <3> DEFINE none == <<>>
               no == FALSE
               yes == TRUE
    <3>1. none \in Seq(Blocks) /\ no \in BOOLEAN /\ no \in {FALSE} /\ yes \in {TRUE}
      OBVIOUS
    <3>2. NoMessage = [blocks |-> none, open |-> no, stop |-> "none",
                       ended |-> no, failed |-> no, valid |-> yes]
      BY DEF NoMessage
    <3> HIDE DEF none, no, yes
    <3>3. QED
      BY <3>1, <3>2 DEF Tellings
  <2> DEFINE none == <<>>
             empty == ""
             no == FALSE
             nothing == {}
             message == NoMessage
  <2>2. /\ none \in Seq(Items) /\ nothing \in SUBSET Samples
        /\ empty \in Heads /\ empty \in {"", "completed", "incomplete"}
        /\ no \in BOOLEAN /\ no \in {FALSE} /\ 0 \in Nat /\ message \in Tellings
    BY <2>1 DEF Heads
  <2>3. c = [declared |-> names, items |-> none, text |-> nothing, head |-> empty,
             open |-> no, next |-> 0, toolUse |-> no, dropped |-> none,
             status |-> empty, incomplete |-> no, failed |-> no, big |-> no,
             finalized |-> no, wire |-> message]
    BY DEF NewResponsesToAnthropicStreamer
  <2> HIDE DEF none, empty, no, nothing, message, c
  <2>4. QED
    BY <2>2, <2>3 DEF Streamers
<1>2. /\ c.items = <<>> /\ c.wire = NoMessage /\ c.text = {} /\ c.head = ""
      /\ c.open = FALSE /\ c.next = 0 /\ c.toolUse = FALSE /\ c.dropped = <<>>
      /\ c.finalized = FALSE
  BY DEF NewResponsesToAnthropicStreamer
<1>3. NoMessage.blocks = <<>> /\ NoMessage.open = FALSE
  BY DEF NoMessage
<1> HIDE DEF c
<1> DEFINE none == <<>>
<1>4. none \in Seq({})
  OBVIOUS
<1>5. Len(none) = 0 /\ DOMAIN none = {}
  OBVIOUS
<1>6. c.items = none /\ c.wire.blocks = none /\ c.dropped = none
  BY <1>2, <1>3
<1> HIDE DEF none
<1>7. Ready(c)
  <2>1. c.next = Len(c.wire.blocks)
    BY <1>2, <1>5, <1>6
  <2>2. c.wire.open = c.open
    BY <1>2, <1>3
  <2>3. QED
    BY <1>1, <1>2, <2>1, <2>2 DEF Ready, InStep
<1>8. Holding(c, 0, 0, <<>>)
  <2>1. Len(c.items) = 0 + Len(none)
    BY <1>5, <1>6
  <2>2. \A k \in 1 .. 0 : Silent(c.items[k]) /\ c.items[k].item[1] # 0
    OBVIOUS
  <2>3. \A k \in DOMAIN none : c.items[0 + k] = Gathered(none[k], 0)
    BY <1>5
  <2>4. Holding(c, 0, 0, none)
    BY <2>1, <2>2, <2>3 DEF Holding
  <2>5. QED
    BY <2>4 DEF none
<1>9. Settled(c, 0, s)
  <2>1. Calls(c.wire) = <<>>
    <3>1. Picked(none, {}) = none
      <4>1. Picked(none, {}) \in Seq({}) /\ Len(Picked(none, {})) = Cardinality({})
        BY <1>4, PickedAll
      <4>2. Cardinality({}) = 0
        BY FS_EmptySet
      <4> DEFINE p == Picked(none, {})
      <4> HIDE DEF p
      <4>3. p \in Seq({}) /\ Len(p) = 0
        BY <4>1, <4>2 DEF p
      <4>4. p = <<>>
        BY <4>3
      <4>5. QED
        BY <4>4 DEF p, none
    <3>2. {i \in DOMAIN none : none[i].kind = "tool_use"} = {}
      BY <1>5
    <3>3. Calls(c.wire) = none
      BY <1>6, <3>1, <3>2 DEF Calls
    <3>4. QED
      BY <3>3 DEF none
  <2>2. Len(c.items) = 0
    BY <1>5, <1>6
  <2>3. QED
    BY <1>2, <2>1, <2>2, SettledNone
<1>10. QED
  BY <1>2, <1>7, <1>8, <1>9 DEF c

LEMMA OrderedNone ==
    ASSUME NEW s
    PROVE  Ordered(<<>>, s)
BY DEF Ordered

LEMMA InitInv == ResponsesAssumption /\ Init => IInv
<1> SUFFICES ASSUME ResponsesAssumption, Init
             PROVE  IInv
  OBVIOUS
<1>1. PICK names \in BOOLEAN : /\ conv = NewResponsesToAnthropicStreamer(names)
                               /\ candidate = NewResponsesToAnthropicStreamer(names)
  BY DEF Init
<1>2. sent \in [Samples -> Seq(SentItems)] /\ sent[1] = <<>> /\ sent[2] = <<>>
  <2>1. <<>> \in Seq(SentItems)
    OBVIOUS
  <2>2. QED
    BY <2>1 DEF Init, Samples
<1>3. count \in [Samples -> 0 .. MaxFrames]
  <2>1. 0 \in 0 .. MaxFrames
    BY DEF ResponsesAssumption
  <2>2. QED
    BY <2>1 DEF Init
<1>4. TypeOK
  <2>1. frames \in Seq(AllFrames)
    BY DEF Init
  <2>2. pc = "first" /\ enabled \in BOOLEAN /\ ended = {} /\ attempt = 1
    BY DEF Init
  <2>3. 1 \in 1 .. MaxAttempts
    BY DEF ResponsesAssumption
  <2>4. QED
    BY <1>2, <1>3, <2>1, <2>2, <2>3 DEF TypeOK
<1>5. Sending
  BY <1>2, OrderedNone DEF Sending, Samples
<1>6. Held(conv, 1) /\ conv.text = {} /\ conv.head = ""
  BY <1>1, <1>2, FreshIs DEF Held, Samples
<1>7. Held(candidate, 2)
  BY <1>1, <1>2, FreshIs DEF Held, Samples
<1>8. WhileFirst
  <2>1. attempt = 1 /\ frames = <<>>
    BY DEF Init
  <2>2. Spoke
    BY <1>6 DEF Spoke
  <2>3. Retried
    BY <2>1 DEF Retried
  <2>4. QED
    BY <1>2, <1>6, <1>7, <2>1, <2>2, <2>3 DEF WhileFirst
<1>9. WhileSecond /\ WhileReplay /\ WhenDone
  BY DEF Init, WhileSecond, WhileReplay, WhenDone
<1>10. QED
  BY <1>4, <1>5, <1>8, <1>9 DEF IInv

\* A frame is sent.
LEMMA Sends ==
    ASSUME ResponsesAssumption, TypeOK, Sending, NEW s \in Samples,
           NEW o \in Offers(s), Send(s, o)
    PROVE  /\ Moves(s, sent[s], o.frame, o.items) /\ o.frame \in AllFrames
           /\ sent'[s] = o.items /\ \A r \in Samples : r # s => sent'[r] = sent[r]
           /\ sent' \in [Samples -> Seq(SentItems)]
           /\ count' \in [Samples -> 0 .. MaxFrames] /\ ended' \subseteq Samples
           /\ Sending'
<1>1. Ordered(sent[s], s)
  BY DEF Sending
<1>2. Moves(s, sent[s], o.frame, o.items)
  BY <1>1, OffersMove
<1>3. o.frame \in AllFrames
  BY <1>1, OffersType
<1>4. Ordered(o.items, s) /\ o.items \in Seq(SentItems)
  BY <1>2 DEF Moves, Ordered
<1>5. /\ sent' = [sent EXCEPT ![s] = o.items]
      /\ count' = [count EXCEPT ![s] = @ + 1] /\ count[1] + count[2] < MaxFrames
      /\ ended' \subseteq ended \cup {s}
  BY DEF Send
<1>6. /\ sent'[s] = o.items /\ \A r \in Samples : r # s => sent'[r] = sent[r]
      /\ sent' \in [Samples -> Seq(SentItems)]
  BY <1>4, <1>5 DEF TypeOK
<1>7. count' \in [Samples -> 0 .. MaxFrames]
  <2>1. count[1] \in Nat /\ count[2] \in Nat /\ MaxFrames \in Nat
    BY DEF TypeOK, ResponsesAssumption, Samples
  <2>2. s = 1 \/ s = 2
    BY DEF Samples
  <2>3. count[s] + 1 \in 0 .. MaxFrames
    BY <1>5, <2>1, <2>2
  <2>4. QED
    BY <1>5, <2>3 DEF TypeOK
<1>8. ended' \subseteq Samples
  BY <1>5 DEF TypeOK
<1>9. Sending'
  BY <1>1, <1>4, <1>6 DEF Sending
<1>10. QED
  BY <1>2, <1>3, <1>6, <1>7, <1>8, <1>9

\* A frame of the first sample,
LEMMA RelayTakes ==
    ASSUME ResponsesAssumption, IInv, RelayFrame
    PROVE  /\ Ready(conv)
           /\ \E o \in Offers(1) :
                 Send(1, o) /\ Taken(conv, conv', 0, 0, 1, o.items, o.frame)
<1>1. PICK o \in Offers(1) : Send(1, o) /\ conv' = HandleEvent(conv, o.frame)
  BY DEF RelayFrame
<1>2. 1 \in Samples /\ 0 \in Bases /\ 0 \in Nat
  BY DEF Samples, Bases
<1>3. TypeOK /\ Sending /\ Held(conv, 1)
  BY DEF IInv, WhileFirst, RelayFrame
<1>4. Moves(1, sent[1], o.frame, o.items)
  BY <1>1, <1>2, <1>3, Sends
<1>5. Given(o.frame, 0) = o.frame
  BY DEF Given
<1>6. Ready(conv) /\ Holding(conv, 0, 0, sent[1]) /\ Settled(conv, 0, 1)
  BY <1>3 DEF Held
<1>7. Taken(conv, conv', 0, 0, 1, o.items, o.frame)
  BY <1>1, <1>2, <1>4, <1>5, <1>6, FrameTaken
<1>8. QED
  BY <1>1, <1>6, <1>7

LEMMA RelayInv ==
    ASSUME ResponsesAssumption, IInv, RelayFrame
    PROVE  IInv'
<1>1. PICK o \in Offers(1) :
        Send(1, o) /\ Taken(conv, conv', 0, 0, 1, o.items, o.frame)
  BY RelayTakes
<1>2. /\ pc = "first" /\ pc' = pc /\ enabled' = enabled
      /\ candidate' = candidate /\ frames' = frames /\ attempt' = attempt
  BY DEF RelayFrame
<1>3. 1 \in Samples /\ 2 \in Samples /\ 0 \in Bases /\ 0 \in Nat
  BY DEF Samples, Bases
<1>4. /\ TypeOK /\ Sending /\ Held(conv, 1) /\ Held(candidate, 2)
      /\ sent[2] = <<>> /\ frames = <<>> /\ Spoke /\ attempt = 1
  BY <1>2 DEF IInv, WhileFirst
<1>5. /\ Moves(1, sent[1], o.frame, o.items) /\ sent'[1] = o.items /\ sent'[2] = sent[2]
      /\ sent' \in [Samples -> Seq(SentItems)]
      /\ count' \in [Samples -> 0 .. MaxFrames] /\ ended' \subseteq Samples
      /\ Sending'
  <2>1. Send(1, o)
    BY <1>1
  <2>2. QED
    BY <1>3, <1>4, <2>1, Sends
<1>6. Taken(conv, conv', 0, 0, 1, o.items, o.frame)
  BY <1>1
<1>7. TypeOK'
  BY <1>2, <1>4, <1>5 DEF TypeOK
<1>8. Held(conv, 1)'
  BY <1>5, <1>6 DEF Taken, Held
<1>9. Held(candidate, 2)'
  BY <1>2, <1>4, <1>5 DEF Held
<1>10. Spoke'
  BY <1>4, <1>6 DEF Taken, Utters, Spoke
<1>11. Retried'
  BY <1>2, <1>4 DEF Retried
<1>12. WhileFirst'
  BY <1>2, <1>4, <1>5, <1>8, <1>9, <1>10, <1>11 DEF WhileFirst
<1>13. WhileSecond' /\ WhileReplay' /\ WhenDone'
  BY <1>2 DEF WhileSecond, WhileReplay, WhenDone
<1>14. QED
  BY <1>5, <1>7, <1>12, <1>13 DEF IInv

\* The first sample has ended.
LEMMA EndsInv ==
    ASSUME IInv, FirstEnds
    PROVE  IInv'
<1>1. /\ pc = "first" /\ pc' = "verdict" /\ enabled' = enabled /\ conv' = conv
      /\ candidate' = candidate /\ frames' = frames /\ attempt' = attempt
      /\ sent' = sent /\ count' = count /\ ended' = ended
  BY DEF FirstEnds, stream, upstream
<1>2. /\ TypeOK /\ Sending /\ Held(conv, 1) /\ Held(candidate, 2)
      /\ sent[2] = <<>> /\ frames = <<>> /\ Spoke /\ Retried
  BY <1>1 DEF IInv, WhileFirst
<1>3. TypeOK' /\ Sending'
  BY <1>1, <1>2 DEF TypeOK, Sending
<1>4. Held(conv, 1)' /\ Held(candidate, 2)' /\ Spoke' /\ Retried'
  BY <1>1, <1>2 DEF Held, Spoke, Retried
<1>5. WhileFirst'
  BY <1>1, <1>2, <1>4 DEF WhileFirst
<1>6. WhileSecond' /\ WhileReplay' /\ WhenDone'
  BY <1>1 DEF WhileSecond, WhileReplay, WhenDone
<1>7. QED
  BY <1>3, <1>5, <1>6 DEF IInv

\* A further sample is asked for only when nothing was told of any item.
LEMMA ResampleInv ==
    ASSUME IInv, Resample
    PROVE  IInv'
<1>1. /\ pc = "verdict" /\ pc' = "second" /\ enabled' = enabled /\ conv' = conv
      /\ candidate' = candidate /\ frames' = frames /\ attempt' = attempt
      /\ sent' = sent /\ count' = count /\ ended' = ended
  BY DEF Resample, stream, upstream
<1>2. ~conv.toolUse /\ ~HasPendingTools(conv) /\ conv.dropped = <<>>
  BY DEF Resample, MayResample
<1>3. /\ TypeOK /\ Sending /\ Held(conv, 1) /\ Held(candidate, 2)
      /\ sent[2] = <<>> /\ frames = <<>> /\ Spoke /\ Retried
  BY <1>1 DEF IInv, WhileFirst
<1>4. Ready(conv) /\ Settled(conv, 0, 1)
  BY <1>3 DEF Held
<1>5. Calls(conv.wire) = <<>>
  BY <1>2, <1>4 DEF Settled
<1>6. Out(conv, 0) = {}
  <2> DEFINE none == <<>>
  <2>1. Len(none) = 0
    OBVIOUS
  <2>2. Calls(conv.wire) = none /\ conv.dropped = none
    BY <1>2, <1>5
  <2> HIDE DEF none
  <2>3. Len(Calls(conv.wire)) + Len(conv.dropped) = 0
    BY <2>1, <2>2
  <2>4. Cardinality(Out(conv, 0)) = 0
    BY <1>4, <2>3 DEF Settled
  <2>5. IsFiniteSet(Out(conv, 0))
    <3>1. 0 \in Nat
      OBVIOUS
    <3>2. QED
      BY <1>4, <3>1, OutIs
  <2>6. QED
    BY <2>4, <2>5, FS_EmptySet
<1>7. \A i \in DOMAIN conv.items : Silent(conv.items[i])
  <2> TAKE i \in DOMAIN conv.items
  <2>1. i \in 1 .. Len(conv.items) - 0 /\ 0 + i = i
    BY <1>4, ItemsAre
  <2>2. CASE conv.items[i].emitted
    BY <1>6, <2>1, <2>2 DEF Out
  <2>3. CASE ~conv.items[i].emitted
    <3>1. conv.items[i] \in ToSet(conv.items)
      BY DEF ToSet
    <3>2. QED
      BY <1>2, <2>3, <3>1 DEF HasPendingTools
  <2>4. QED
    BY <2>2, <2>3
<1>8. TypeOK' /\ Sending'
  BY <1>1, <1>3 DEF TypeOK, Sending
<1>9. Held(conv, 1)' /\ Held(candidate, 2)' /\ Spoke' /\ Retried'
  BY <1>1, <1>3 DEF Held, Spoke, Retried
<1>10. Trail(<<>>, frames, sent[2])'
  <2>1. <<>> \in Seq(SentItems)
    OBVIOUS
  <2>2. Trail(<<>>, <<>>, <<>>)
    BY <2>1, TrailNone
  <2>3. frames' = <<>> /\ sent'[2] = <<>>
    BY <1>1, <1>3
  <2>4. QED
    BY <2>2, <2>3
<1>11. NoMoreText'
  <2> DEFINE none == <<>>
  <2>1. DOMAIN none = {} /\ frames' = none
    BY <1>1, <1>3
  <2> HIDE DEF none
  <2>2. QED
    BY <2>1 DEF NoMoreText
<1>12. WhileSecond'
  BY <1>1, <1>2, <1>5, <1>7, <1>9, <1>10, <1>11 DEF WhileSecond
<1>13. WhileFirst' /\ WhileReplay' /\ WhenDone'
  BY <1>1 DEF WhileFirst, WhileReplay, WhenDone
<1>14. QED
  BY <1>8, <1>12, <1>13 DEF IInv

----------------------------------------------------------------------------
(* The actions that conclude the message.                                  *)

\* An error takes nothing back.
LEMMA BrokenStill ==
    ASSUME NEW c, NEW d, Broken(c, d), "blocks" \in DOMAIN c.wire
    PROVE  Calls(d.wire) = Calls(c.wire)
<1>1. d.wire.blocks = c.wire.blocks
  BY DEF Broken
<1>2. QED
  BY <1>1 DEF Calls

\* d is what becomes of a streamer c that holds q of sample s.
Accounted(c, d, s, q) ==
    /\ d.text = c.text /\ d.head = c.head
    /\ CallsAre(d, s)
    /\ ~d.failed => Counted(d, q)

LEMMA StillAre ==
    ASSUME NEW d, NEW e, NEW s, CallsAre(d, s), Calls(e.wire) = Calls(d.wire)
    PROVE  CallsAre(e, s)
BY DEF CallsAre

LEMMA ReadyAre ==
    ASSUME NEW c, NEW pre \in Nat, NEW base \in Bases, NEW s \in Samples, NEW q,
           Ready(c), Ordered(q, s), Holding(c, pre, base, q), Settled(c, pre, s)
    PROVE  CallsAre(c, s)
<1>1. \A k \in 1 .. Len(c.items) : Likewise(c.items[k], c.items[k])
  BY DEF Likewise
<1>2. ToldArgs(c, pre, q)
  BY <1>1, HeldArgs
<1>3. QED
  BY <1>2, CallsAreOf

LEMMA ConcludesTold ==
    ASSUME NEW c, NEW pre \in Nat, NEW base \in Bases, NEW s \in Samples, NEW q,
           Ready(c), Ordered(q, s), Holding(c, pre, base, q), Settled(c, pre, s)
    PROVE  /\ Accounted(c, Finalize(c), s, q)
           /\ Accounted(c, EmitError(Finalize(c)), s, q)
<1> DEFINE d == Finalize(c)
           e == EmitError(d)
<1>1. /\ Accounted(c, d, s, q) /\ Fields \subseteq DOMAIN d
      /\ d.wire.valid /\ "blocks" \in DOMAIN d.wire
  <2>1. CASE c.failed
    <3>1. Broken(c, d)
      BY <2>1, FailedIs
    <3>2. c.wire \in Tellings
      BY DEF Ready, Streamers
    <3>3. "blocks" \in DOMAIN c.wire /\ c.wire.valid
      BY <3>2 DEF Tellings
    <3>4. "blocks" \in DOMAIN d.wire /\ d.wire.valid
      BY <3>1, <3>2 DEF Broken, Tellings
    <3>5. CallsAre(d, s)
      BY <3>1, <3>3, BrokenStill, ReadyAre, StillAre
    <3>6. QED
      BY <2>1, <3>1, <3>4, <3>5 DEF Broken, Accounted
  <2>2. CASE ~c.failed
    <3>1. OwnIds(c, pre, s) /\ \A k \in 1 .. pre : Silent(c.items[k])
      BY HeldIs DEF Holding, Bases
    <3>2. Finished(c, d, pre, s)
      BY <2>2, <3>1, FinalIs
    <3>3. PICK all \in Seq(Blocks), reason \in {"end_turn", "max_tokens", "tool_use"} :
            d.wire = Closing(all, reason)
      BY <3>2 DEF Finished
    <3>4. d.wire.blocks = all /\ d.wire.valid /\ "blocks" \in DOMAIN d.wire
      BY <3>3 DEF Closing
    <3>5. Calls(d.wire) \in Seq(Blocks)
      BY <3>4, CallsType
    <3>6. /\ Settled(d, pre, s) /\ d.dropped \in Seq(Items)
          /\ Len(d.items) = Len(c.items) /\ Fields \subseteq DOMAIN d
          /\ d.text = c.text /\ d.head = c.head
          /\ \A k \in 1 .. Len(c.items) :
                Likewise(c.items[k], d.items[k]) /\ d.items[k].emitted
      BY <3>2 DEF Finished
    <3> HIDE DEF d
    <3>7. ToldArgs(d, pre, q)
      BY <3>6, HeldArgs
    <3>8. CallsAre(d, s)
      BY <3>6, <3>7, CallsAreOf
    <3>9. Counted(d, q)
      BY <3>5, <3>6, CountedIs
    <3>10. QED
      BY <3>4, <3>6, <3>8, <3>9 DEF Accounted
  <2>3. QED
    BY <2>1, <2>2
<1> HIDE DEF d
<1>2. Broken(d, e)
  BY <1>1, ErrorIs
<1>3. Calls(e.wire) = Calls(d.wire)
  BY <1>1, <1>2, BrokenStill
<1>4. /\ e.text = d.text /\ e.head = d.head /\ e.failed = d.failed
      /\ e.dropped = d.dropped
  BY <1>2 DEF Broken
<1> HIDE DEF e
<1>5. CallsAre(e, s)
  BY <1>1, <1>3, StillAre DEF Accounted
<1>6. Counted(d, q) => Counted(e, q)
  BY <1>3, <1>4 DEF Counted
<1>7. Accounted(c, e, s, q)
  BY <1>1, <1>4, <1>5, <1>6 DEF Accounted
<1>8. QED
  BY <1>1, <1>7 DEF d, e

\* What the client was told is what the sample that counts had to tell.
LEMMA DoneInv ==
    ASSUME NEW c, NEW s, NEW q, Accounted(c, conv', s, q),
           Source' = s, sent'[s] = q, c.text \in {{}, {1}, {s}},
           attempt' > 1 => c.head = "colon" /\ 1 \in c.text
    PROVE  WhenDone'
<1>1. CallsExactlyOnce'
  <2>1. ~conv'.failed => Counted(conv', sent'[Source'])
    BY DEF Accounted
  <2>2. QED
    BY <2>1 DEF CallsExactlyOnce, Counted, wire
<1>2. OneSample'
  <2>1. CallsAre(conv', Source')
    BY DEF Accounted
  <2>2. conv'.text = c.text /\ conv'.head = c.head
    BY DEF Accounted
  <2>3. QED
    BY <2>1, <2>2 DEF OneSample, CallsAre, wire
<1>3. QED
  BY <1>1, <1>2 DEF WhenDone

\* The first sample is the turn.
LEMMA FirstDone ==
    ASSUME Held(conv, 1), Sending, Spoke, Retried, ~candidate'.finalized,
           sent'[1] = sent[1], attempt' = attempt,
           conv' \in {Finalize(conv), EmitError(Finalize(conv))}
    PROVE  WhenDone'
<1>1. 1 \in Samples /\ 0 \in Bases /\ 0 \in Nat
  BY DEF Samples, Bases
<1>2. Ordered(sent[1], 1)
  BY <1>1 DEF Sending
<1>3. Ready(conv) /\ Holding(conv, 0, 0, sent[1]) /\ Settled(conv, 0, 1)
  BY DEF Held
<1>4. Accounted(conv, conv', 1, sent[1])
  BY <1>1, <1>2, <1>3, ConcludesTold
<1>5. Source' = 1
  BY DEF Source, Won
<1>6. conv.text \in {{}, {1}}
  BY DEF Spoke
<1>7. attempt' > 1 => conv.head = "colon" /\ 1 \in conv.text
  BY DEF Retried
<1>8. QED
  BY <1>4, <1>5, <1>6, <1>7, DoneInv

\* A streamer that is told frames is not finalized.
LEMMA NotOver ==
    ASSUME NEW c, Ready(c)
    PROVE  c.finalized = FALSE /\ c.declared \in BOOLEAN
BY DEF Ready, Streamers

LEMMA BreaksInv ==
    ASSUME IInv, FirstBreaks
    PROVE  IInv'
<1>1. /\ pc = "first" /\ pc' = "done" /\ conv' = EmitError(Finalize(conv))
      /\ enabled' = enabled /\ candidate' = candidate /\ frames' = frames
      /\ attempt' = attempt /\ sent' = sent /\ count' = count /\ ended' = ended
  BY DEF FirstBreaks, upstream
<1>2. /\ TypeOK /\ Sending /\ Held(conv, 1) /\ Held(candidate, 2) /\ Spoke /\ Retried
  BY <1>1 DEF IInv, WhileFirst
<1>3. ~candidate'.finalized
  BY <1>1, <1>2, NotOver DEF Held
<1>4. TypeOK' /\ Sending'
  BY <1>1, <1>2 DEF TypeOK, Sending
<1>5. WhenDone'
  BY <1>1, <1>2, <1>3, FirstDone
<1>6. WhileFirst' /\ WhileSecond' /\ WhileReplay'
  BY <1>1 DEF WhileFirst, WhileSecond, WhileReplay
<1>7. QED
  BY <1>4, <1>5, <1>6 DEF IInv

LEMMA AcceptInv ==
    ASSUME IInv, Accept
    PROVE  IInv'
<1>1. /\ pc = "verdict" /\ pc' = "done" /\ conv' = Finalize(conv)
      /\ enabled' = enabled /\ candidate' = candidate /\ frames' = frames
      /\ attempt' = attempt /\ sent' = sent /\ count' = count /\ ended' = ended
  BY DEF Accept, Conclude, upstream
<1>2. /\ TypeOK /\ Sending /\ Held(conv, 1) /\ Held(candidate, 2) /\ Spoke /\ Retried
  BY <1>1 DEF IInv, WhileFirst
<1>3. ~candidate'.finalized
  BY <1>1, <1>2, NotOver DEF Held
<1>4. TypeOK' /\ Sending'
  BY <1>1, <1>2 DEF TypeOK, Sending
<1>5. WhenDone'
  BY <1>1, <1>2, <1>3, FirstDone
<1>6. WhileFirst' /\ WhileSecond' /\ WhileReplay'
  BY <1>1 DEF WhileFirst, WhileSecond, WhileReplay
<1>7. QED
  BY <1>4, <1>5, <1>6 DEF IInv

----------------------------------------------------------------------------
(* The further sample.                                                     *)

LEMMA BufferInv ==
    ASSUME ResponsesAssumption, IInv, BufferFrame
    PROVE  IInv'
<1>1. PICK o \in Offers(2) :
        /\ Send(2, o) /\ candidate' = HandleEvent(candidate, o.frame)
        /\ frames' = IF Kept(o.frame) THEN Append(frames, o.frame) ELSE frames
  BY DEF BufferFrame
<1>2. /\ pc = "second" /\ pc' = pc /\ enabled' = enabled
      /\ conv' = conv /\ attempt' = attempt
  BY DEF BufferFrame
<1>3. 1 \in Samples /\ 2 \in Samples /\ 0 \in Bases /\ 0 \in Nat
  BY DEF Samples, Bases
<1>4. /\ TypeOK /\ Sending /\ Held(conv, 1) /\ Held(candidate, 2)
      /\ \A i \in DOMAIN conv.items : Silent(conv.items[i])
      /\ Calls(conv.wire) = <<>> /\ conv.dropped = <<>>
      /\ Trail(<<>>, frames, sent[2])
      /\ Spoke /\ Retried /\ NoMoreText
  BY <1>2 DEF IInv, WhileSecond
<1>5. /\ Moves(2, sent[2], o.frame, o.items) /\ o.frame \in AllFrames
      /\ sent'[2] = o.items /\ sent'[1] = sent[1]
      /\ sent' \in [Samples -> Seq(SentItems)]
      /\ count' \in [Samples -> 0 .. MaxFrames] /\ ended' \subseteq Samples
      /\ Sending'
  BY <1>1, <1>3, <1>4, Sends
<1>6. Taken(candidate, candidate', 0, 0, 2, o.items, o.frame)
  <2>1. Given(o.frame, 0) = o.frame
    BY DEF Given
  <2>2. Ready(candidate) /\ Holding(candidate, 0, 0, sent[2]) /\ Settled(candidate, 0, 2)
    BY <1>4 DEF Held
  <2>3. QED
    BY <1>1, <1>3, <1>5, <2>1, <2>2, FrameTaken
<1>7. frames \in Seq(AllFrames)
  BY <1>4 DEF TypeOK
<1>8. frames' \in Seq(AllFrames)
  BY <1>1, <1>5, <1>7
<1>9. TypeOK'
  BY <1>2, <1>4, <1>5, <1>8 DEF TypeOK
<1>10. Held(conv, 1)' /\ Held(candidate, 2)'
  <2>1. Held(conv, 1)'
    BY <1>2, <1>4, <1>5 DEF Held
  <2>2. Held(candidate, 2)'
    BY <1>5, <1>6 DEF Taken, Held
  <2>3. QED
    BY <2>1, <2>2
<1>11. Trail(<<>>, frames, sent[2])'
  <2>1. CASE Kept(o.frame)
    <3>1. Trail(<<>>, Append(frames, o.frame), o.items)
      BY <1>4, <1>5, <1>7, TrailMore
    <3>2. frames' = Append(frames, o.frame)
      BY <1>1, <2>1
    <3>3. QED
      BY <1>5, <3>1, <3>2
  <2>2. CASE ~Kept(o.frame)
    <3>1. o.frame.type \notin {"delta", "added", "done"}
      BY <2>2 DEF Kept
    <3>2. o.items = sent[2]
      BY <1>5, <3>1, MovesStill
    <3>3. frames' = frames
      BY <1>1, <2>2
    <3>4. QED
      BY <1>4, <1>5, <3>2, <3>3
  <2>3. QED
    BY <2>1, <2>2
<1>12. NoMoreText'
  <2>1. CASE Kept(o.frame)
    <3>1. frames' = Append(frames, o.frame)
      BY <1>1, <2>1
    <3>2. o.frame.type \in {"text", "text_done"} => conv.text = {}
      BY <2>1 DEF Kept
    <3>3. \A i \in DOMAIN frames' :
            \/ i \in DOMAIN frames /\ frames'[i] = frames[i]
            \/ frames'[i] = o.frame
      BY <1>7, <3>1
    <3>4. QED
      BY <1>2, <1>4, <3>2, <3>3 DEF NoMoreText
  <2>2. CASE ~Kept(o.frame)
    <3>1. frames' = frames
      BY <1>1, <2>2
    <3>2. QED
      BY <1>2, <1>4, <3>1 DEF NoMoreText
  <2>3. QED
    BY <2>1, <2>2
<1>13. Spoke' /\ Retried'
  BY <1>2, <1>4 DEF Spoke, Retried
<1>14. WhileSecond'
  BY <1>2, <1>4, <1>10, <1>11, <1>12, <1>13 DEF WhileSecond
<1>15. WhileFirst' /\ WhileReplay' /\ WhenDone'
  BY <1>2 DEF WhileFirst, WhileReplay, WhenDone
<1>16. QED
  BY <1>5, <1>9, <1>14, <1>15 DEF IInv

LEMMA UnrescuedInv ==
    ASSUME ResponsesAssumption, IInv, pc = "second", Unrescued
    PROVE  IInv'
<1>1. /\ candidate' = NewResponsesToAnthropicStreamer(conv.declared) /\ frames' = <<>>
      /\ sent' = [sent EXCEPT ![2] = <<>>] /\ count' = [count EXCEPT ![2] = 0]
      /\ ended' = ended \ {2} /\ enabled' = enabled
  BY DEF Unrescued
<1>2. /\ TypeOK /\ Sending /\ Held(conv, 1) /\ Spoke /\ Retried
  BY DEF IInv, WhileSecond
<1>3. 1 \in Samples /\ 2 \in Samples /\ 0 \in Nat
  BY DEF Samples
<1>4. sent' \in [Samples -> Seq(SentItems)] /\ sent'[1] = sent[1] /\ sent'[2] = <<>>
  <2>1. <<>> \in Seq(SentItems)
    OBVIOUS
  <2>2. QED
    BY <1>1, <1>2, <1>3, <2>1 DEF TypeOK
<1>5. count' \in [Samples -> 0 .. MaxFrames] /\ ended' \subseteq Samples
  <2>1. 0 \in 0 .. MaxFrames
    BY DEF ResponsesAssumption
  <2>2. QED
    BY <1>1, <1>2, <2>1 DEF TypeOK
<1>6. Sending'
  <2>1. Ordered(sent'[1], 1)
    BY <1>2, <1>3, <1>4 DEF Sending
  <2>2. Ordered(sent'[2], 2)
    BY <1>4, OrderedNone
  <2>3. QED
    BY <2>1, <2>2 DEF Sending, Samples
<1>7. frames' \in Seq(AllFrames) /\ enabled' \in BOOLEAN
  <2>1. <<>> \in Seq(AllFrames)
    OBVIOUS
  <2>2. QED
    BY <1>1, <1>2, <2>1 DEF TypeOK
<1>8. Held(candidate, 2)'
  <2>1. conv.declared \in BOOLEAN
    BY <1>2, NotOver DEF Held
  <2>2. /\ Ready(candidate') /\ Holding(candidate', 0, 0, <<>>)
        /\ Settled(candidate', 0, 2)
    BY <1>1, <1>3, <2>1, FreshIs
  <2>3. QED
    BY <1>4, <2>2 DEF Held
<1>9. CASE Stalled /\ attempt < MaxAttempts
  <2>1. pc' = "verdict" /\ attempt' = attempt + 1 /\ conv' = conv
    BY <1>9 DEF Unrescued
  <2>2. attempt' \in 1 .. MaxAttempts
    BY <1>2, <1>9, <2>1 DEF TypeOK, ResponsesAssumption
  <2>3. TypeOK'
    BY <1>4, <1>5, <1>7, <2>1, <2>2 DEF TypeOK
  <2>4. Held(conv, 1)'
    BY <1>2, <1>4, <2>1 DEF Held
  <2>5. Spoke'
    BY <1>2, <2>1 DEF Spoke
  <2>6. Retried'
    <3>1. conv.head = "colon" /\ 1 \in conv.text
      BY <1>2, <1>9 DEF Stalled, Spoke
    <3>2. QED
      BY <2>1, <3>1 DEF Retried
  <2>7. WhileFirst'
    BY <1>1, <1>4, <1>8, <2>1, <2>4, <2>5, <2>6 DEF WhileFirst
  <2>8. WhileSecond' /\ WhileReplay' /\ WhenDone'
    BY <2>1 DEF WhileSecond, WhileReplay, WhenDone
  <2>9. QED
    BY <1>6, <2>3, <2>7, <2>8 DEF IInv
<1>10. CASE ~(Stalled /\ attempt < MaxAttempts)
  <2>1. pc' = "done" /\ attempt' = attempt /\ conv' = Finalize(conv)
    BY <1>10 DEF Unrescued, Conclude
  <2>2. TypeOK'
    BY <1>2, <1>4, <1>5, <1>7, <2>1 DEF TypeOK
  <2>3. ~candidate'.finalized
    BY <1>8, NotOver DEF Held
  <2>4. WhenDone'
    BY <1>2, <1>4, <2>1, <2>3, FirstDone
  <2>5. WhileFirst' /\ WhileSecond' /\ WhileReplay'
    BY <2>1 DEF WhileFirst, WhileSecond, WhileReplay
  <2>6. QED
    BY <1>6, <2>2, <2>4, <2>5 DEF IInv
<1>11. QED
  BY <1>9, <1>10

\* A further sample is replayed when it completed with a call.
LEMMA WonInv ==
    ASSUME IInv, pc = "second", Usable(Finalize(candidate)),
           candidate' = Finalize(candidate), pc' = "replay",
           UNCHANGED <<enabled, conv, frames, attempt, upstream>>
    PROVE  IInv'
<1>1. /\ enabled' = enabled /\ conv' = conv /\ frames' = frames /\ attempt' = attempt
      /\ sent' = sent /\ count' = count /\ ended' = ended
  BY DEF upstream
<1>2. /\ TypeOK /\ Sending /\ Held(conv, 1) /\ Held(candidate, 2)
      /\ \A i \in DOMAIN conv.items : Silent(conv.items[i])
      /\ Calls(conv.wire) = <<>> /\ conv.dropped = <<>>
      /\ Trail(<<>>, frames, sent[2])
      /\ Spoke /\ Retried /\ NoMoreText
  BY DEF IInv, WhileSecond
<1>3. 1 \in Samples /\ 2 \in Samples /\ 0 \in Bases /\ 0 \in Nat /\ 0 \in {0, 1}
  BY DEF Samples, Bases
<1>4. TypeOK' /\ Sending'
  BY <1>1, <1>2 DEF TypeOK, Sending
<1>5. Won'
  <2>1. Ready(candidate) /\ Holding(candidate, 0, 0, sent[2]) /\ Settled(candidate, 0, 2)
    BY <1>2 DEF Held
  <2>2. Ordered(sent[2], 2)
    BY <1>2, <1>3 DEF Sending
  <2>3. OwnIds(candidate, 0, 2)
    BY <1>3, <2>1, <2>2, HeldIs
  <2>4. ~candidate.failed
    <3>1. SUFFICES ASSUME candidate.failed
                   PROVE  FALSE
      OBVIOUS
    <3>2. Broken(candidate, Finalize(candidate))
      BY <2>1, <3>1, FailedIs
    <3>3. Finalize(candidate).failed = candidate.failed
      BY <3>2 DEF Broken
    <3>4. QED
      BY <3>1, <3>3 DEF Usable
  <2>5. Finished(candidate, Finalize(candidate), 0, 2)
    <3>1. \A k \in 1 .. 0 : Silent(candidate.items[k])
      OBVIOUS
    <3>2. QED
      BY <1>3, <2>1, <2>3, <2>4, <3>1, FinalIs
  <2>6. QED
    BY <2>5 DEF Finished, Won
<1>6. Ready(conv) /\ Holding(conv, 0, 0, sent[1]) /\ Settled(conv, 0, 1)
  BY <1>2 DEF Held
<1>7. Ordered(sent[1], 1)
  BY <1>2, <1>3 DEF Sending
<1>8. /\ \A k \in DOMAIN sent[1] : conv.items[0 + k].item = <<0, k>>
      /\ Len(sent[1]) \in Nat /\ DOMAIN sent[1] = 1 .. Len(sent[1])
  BY <1>3, <1>6, <1>7, HeldIs
<1>9. Len(conv.items) = Len(sent[1]) /\ DOMAIN conv.items = 1 .. Len(sent[1])
  BY <1>6, <1>8, ItemsAre DEF Holding
<1>10. Settled(conv, Len(sent[1]), 2)
  <2>1. ~conv.toolUse
    BY <1>2, <1>6 DEF Settled
  <2>2. QED
    BY <1>2, <1>8, <1>9, <2>1, SettledNone
<1>11. Holding(conv, Len(sent[1]), 1, <<>>)
  <2> DEFINE none == <<>>
  <2>1. Len(none) = 0 /\ DOMAIN none = {}
    OBVIOUS
  <2> HIDE DEF none
  <2>2. \A k \in 1 .. Len(sent[1]) : Silent(conv.items[k]) /\ conv.items[k].item[1] # 1
    <3> TAKE k \in 1 .. Len(sent[1])
    <3>1. 0 + k = k
      BY <1>8
    <3>2. conv.items[k].item = <<0, k>>
      BY <1>8, <3>1
    <3>3. QED
      BY <1>2, <1>9, <3>2
  <2>3. Len(conv.items) = Len(sent[1]) + Len(none)
    BY <1>8, <1>9, <2>1
  <2>4. Holding(conv, Len(sent[1]), 1, none)
    BY <2>1, <2>2, <2>3 DEF Holding
  <2>5. QED
    BY <2>4 DEF none
<1>12. WhileReplay'
  <2>1. Ready(conv') /\ Settled(conv', Len(sent'[1]), 2)
    BY <1>1, <1>6, <1>10
  <2>2. /\ Ordered(<<>>, 2) /\ Holding(conv', Len(sent'[1]), 1, <<>>)
        /\ Trail(<<>>, frames', sent'[2])
    BY <1>1, <1>2, <1>11, OrderedNone
  <2>3. conv'.text \in {{}, {1}, {2}}
    BY <1>1, <1>2 DEF Spoke
  <2>4. Retried' /\ NoMoreText'
    BY <1>1, <1>2 DEF Retried, NoMoreText
  <2>5. QED
    BY <1>5, <2>1, <2>2, <2>3, <2>4 DEF WhileReplay
<1>13. WhileFirst' /\ WhileSecond' /\ WhenDone'
  BY DEF WhileFirst, WhileSecond, WhenDone
<1>14. QED
  BY <1>4, <1>12, <1>13 DEF IInv

LEMMA SecondInv ==
    ASSUME ResponsesAssumption, IInv, SecondEnds
    PROVE  IInv'
<1>1. pc = "second"
  BY DEF SecondEnds
<1>2. CASE Unrescued
  BY <1>1, <1>2, UnrescuedInv
<1>3. CASE ~Unrescued
  BY <1>1, <1>3, WonInv DEF SecondEnds
<1>4. QED
  BY <1>2, <1>3

\* A frame of the replay.
LEMMA ReplayTakes ==
    ASSUME IInv, ReplayFrame
    PROVE  /\ Ready(conv)
           /\ \E r : /\ Ordered(r, 2) /\ Trail(r, Tail(frames), sent[2])
                     /\ Taken(conv, conv', Len(sent[1]), 1, 2, r, Head(frames))
<1>1. /\ pc = "replay" /\ frames # <<>>
      /\ conv' = HandleEvent(conv, Namespaced(Head(frames)))
  BY DEF ReplayFrame
<1>2. TypeOK /\ Ready(conv) /\ Settled(conv, Len(sent[1]), 2)
  BY <1>1 DEF IInv, WhileReplay
<1>3. PICK q : /\ Ordered(q, 2) /\ Holding(conv, Len(sent[1]), 1, q)
               /\ Trail(q, frames, sent[2])
  BY <1>1 DEF IInv, WhileReplay
<1>4. 1 \in Samples /\ 2 \in Samples /\ 1 \in Bases
  BY DEF Samples, Bases
<1>5. frames \in Seq(AllFrames) /\ Len(sent[1]) \in Nat
  <2>1. sent[1] \in Seq(SentItems)
    BY <1>2, <1>4 DEF TypeOK
  <2>2. QED
    BY <1>2, <2>1 DEF TypeOK
<1> DEFINE f == Head(frames)
<1>6. PICK r \in Seq(SentItems) : Moves(2, q, f, r) /\ Trail(r, Tail(frames), sent[2])
  BY <1>1, <1>3, <1>5, TrailRest
<1>7. conv' = HandleEvent(conv, Given(f, 1))
  BY <1>1 DEF Given
<1> HIDE DEF f
<1>8. Taken(conv, conv', Len(sent[1]), 1, 2, r, f)
  BY <1>2, <1>3, <1>4, <1>5, <1>6, <1>7, FrameTaken
<1>9. Ordered(r, 2)
  BY <1>6 DEF Moves
<1>10. QED
  BY <1>2, <1>6, <1>8, <1>9 DEF f

LEMMA ReplayInv ==
    ASSUME IInv, ReplayFrame
    PROVE  IInv'
<1>1. /\ pc = "replay" /\ pc' = pc /\ frames # <<>> /\ frames' = Tail(frames)
      /\ enabled' = enabled /\ candidate' = candidate /\ attempt' = attempt
      /\ sent' = sent /\ count' = count /\ ended' = ended
  BY DEF ReplayFrame, upstream
<1>2. /\ TypeOK /\ Sending /\ Won /\ conv.text \in {{}, {1}, {2}} /\ Retried /\ NoMoreText
  BY <1>1 DEF IInv, WhileReplay
<1>3. frames \in Seq(AllFrames)
  BY <1>2 DEF TypeOK
<1> DEFINE f == Head(frames)
<1>4. f = frames[1] /\ 1 \in DOMAIN frames
  BY <1>1, <1>3
<1>5. PICK r : /\ Ordered(r, 2) /\ Trail(r, Tail(frames), sent[2])
               /\ Taken(conv, conv', Len(sent[1]), 1, 2, r, f)
  BY ReplayTakes
<1> HIDE DEF f
<1>6. Taken(conv, conv', Len(sent[1]), 1, 2, r, f)
  BY <1>5
<1>7. TypeOK'
  <2>1. frames' \in Seq(AllFrames)
    BY <1>1, <1>3
  <2>2. QED
    BY <1>1, <1>2, <2>1 DEF TypeOK
<1>8. Sending'
  BY <1>1, <1>2 DEF Sending
<1>9. /\ Ready(conv') /\ Settled(conv', Len(sent'[1]), 2)
       /\ Holding(conv', Len(sent'[1]), 1, r)
  BY <1>1, <1>6 DEF Taken
<1>10. Ordered(r, 2) /\ Trail(r, frames', sent'[2])
  BY <1>1, <1>5
<1>11. \/ conv'.text = conv.text /\ conv'.head = conv.head
       \/ 1 \notin conv.text /\ conv'.text \in {conv.text, conv.text \cup {2}}
  <2>1. TextFrame(f, 2) => 1 \notin conv.text
    BY <1>2, <1>4 DEF TextFrame, NoMoreText
  <2>2. QED
    BY <1>6, <2>1 DEF Taken, Utters
<1>12. conv'.text \in {{}, {1}, {2}} /\ (1 \in conv'.text <=> 1 \in conv.text)
  BY <1>2, <1>11
<1>13. Retried'
  <2>1. CASE attempt > 1
    <3>1. conv.head = "colon" /\ 1 \in conv.text
      BY <1>2, <2>1 DEF Retried
    <3>2. QED
      BY <1>11, <3>1 DEF Retried
  <2>2. CASE ~(attempt > 1)
    BY <1>1, <2>2 DEF Retried
  <2>3. QED
    BY <2>1, <2>2
<1>14. NoMoreText'
  <2>1. \A i \in DOMAIN frames' : i + 1 \in DOMAIN frames /\ frames'[i] = frames[i + 1]
    BY <1>1, <1>3
  <2>2. QED
    BY <1>2, <1>12, <2>1 DEF NoMoreText
<1>15. Won'
  BY <1>1, <1>2 DEF Won
<1>16. WhileReplay'
  BY <1>9, <1>10, <1>12, <1>13, <1>14, <1>15 DEF WhileReplay
<1>17. WhileFirst' /\ WhileSecond' /\ WhenDone'
  BY <1>1 DEF WhileFirst, WhileSecond, WhenDone
<1>18. QED
  BY <1>7, <1>8, <1>16, <1>17 DEF IInv

LEMMA RescuedInv ==
    ASSUME IInv, Rescued
    PROVE  IInv'
<1>1. /\ pc = "replay" /\ pc' = "done" /\ frames = <<>> /\ frames' = frames
      /\ conv' = Finalize(conv)
      /\ enabled' = enabled /\ candidate' = candidate /\ attempt' = attempt
      /\ sent' = sent /\ count' = count /\ ended' = ended
  BY DEF Rescued, Conclude, upstream
<1>2. /\ TypeOK /\ Sending /\ Won /\ Ready(conv) /\ Settled(conv, Len(sent[1]), 2)
      /\ conv.text \in {{}, {1}, {2}} /\ Retried
  BY <1>1 DEF IInv, WhileReplay
<1>3. PICK q : /\ Ordered(q, 2) /\ Holding(conv, Len(sent[1]), 1, q)
               /\ Trail(q, frames, sent[2])
  BY <1>1 DEF IInv, WhileReplay
<1>4. q = sent[2]
  <2>1. Trail(q, <<>>, sent[2])
    BY <1>1, <1>3
  <2>2. QED
    BY <2>1, TrailNone
<1>5. 1 \in Samples /\ 2 \in Samples /\ 1 \in Bases
  BY DEF Samples, Bases
<1>6. Len(sent[1]) \in Nat
  <2>1. sent[1] \in Seq(SentItems)
    BY <1>2, <1>5 DEF TypeOK
  <2>2. QED
    BY <2>1
<1>7. Accounted(conv, conv', 2, q)
  BY <1>1, <1>2, <1>3, <1>5, <1>6, ConcludesTold
<1>8. Source' = 2 /\ sent'[2] = q
  BY <1>1, <1>2, <1>4 DEF Source, Won
<1>9. conv.text \in {{}, {1}, {2}} /\ (attempt' > 1 => conv.head = "colon" /\ 1 \in conv.text)
  BY <1>1, <1>2 DEF Retried
<1>10. WhenDone'
  BY <1>7, <1>8, <1>9, DoneInv
<1>11. TypeOK' /\ Sending'
  BY <1>1, <1>2 DEF TypeOK, Sending
<1>12. WhileFirst' /\ WhileSecond' /\ WhileReplay'
  BY <1>1 DEF WhileFirst, WhileSecond, WhileReplay
<1>13. QED
  BY <1>10, <1>11, <1>12 DEF IInv

----------------------------------------------------------------------------
(* The theorems.                                                           *)

LEMMA StutterInv ==
    ASSUME IInv, UNCHANGED vars
    PROVE  IInv'
<1>1. /\ pc' = pc /\ enabled' = enabled /\ conv' = conv /\ candidate' = candidate
      /\ frames' = frames /\ attempt' = attempt
      /\ sent' = sent /\ count' = count /\ ended' = ended
  BY DEF vars, stream, upstream
<1>2. TypeOK' /\ Sending'
  BY <1>1 DEF IInv, TypeOK, Sending
<1>3. WhileFirst'
  BY <1>1 DEF IInv, WhileFirst, Held, Spoke, Retried
<1>4. WhileSecond'
  BY <1>1 DEF IInv, WhileSecond, Held, Spoke, Retried, NoMoreText
<1>5. WhileReplay'
  BY <1>1 DEF IInv, WhileReplay, Won, Retried, NoMoreText
<1>6. WhenDone'
  BY <1>1 DEF IInv, WhenDone, CallsExactlyOnce, OneSample, wire, Source, Won
<1>7. QED
  BY <1>2, <1>3, <1>4, <1>5, <1>6 DEF IInv

LEMMA NextInv == ResponsesAssumption /\ IInv /\ [Next]_vars => IInv'
<1> SUFFICES ASSUME ResponsesAssumption, IInv, [Next]_vars
             PROVE  IInv'
  OBVIOUS
<1>1. CASE RelayFrame
  BY <1>1, RelayInv
<1>2. CASE FirstBreaks
  BY <1>2, BreaksInv
<1>3. CASE FirstEnds
  BY <1>3, EndsInv
<1>4. CASE Resample
  BY <1>4, ResampleInv
<1>5. CASE Accept
  BY <1>5, AcceptInv
<1>6. CASE BufferFrame
  BY <1>6, BufferInv
<1>7. CASE SecondFails
  BY <1>7, UnrescuedInv DEF SecondFails
<1>8. CASE SecondEnds
  BY <1>8, SecondInv
<1>9. CASE ReplayFrame
  BY <1>9, ReplayInv
<1>10. CASE Rescued
  BY <1>10, RescuedInv
<1>11. CASE UNCHANGED vars
  BY <1>11, StutterInv
<1>12. QED
  BY <1>1, <1>2, <1>3, <1>4, <1>5, <1>6, <1>7, <1>8, <1>9, <1>10, <1>11 DEF Next

LEMMA SpecInv == Spec => []IInv
<1>1. Init => IInv
  BY ResponsesAssumption, InitInv
<1>2. IInv /\ [Next]_vars => IInv'
  BY ResponsesAssumption, NextInv
<1>3. QED
  BY <1>1, <1>2, PTL DEF Spec

\* At the end every item that the sample that counts has told evidence of is a
\* call on the wire or in the drop log, once, with the arguments that came for
\* it, whatever the number of items and frames and however they interleave
\* (pendingFor, flushTool, Finalize, the replay).
THEOREM CallsDelivered == Spec => []CallsExactlyOnce
<1>1. IInv => CallsExactlyOnce
  BY DEF IInv, WhenDone, CallsExactlyOnce
<1>2. QED
  BY <1>1, SpecInv, PTL

\* At no time does the message hold a call of a sample that does not count, or
\* the text of both; a third sample is asked for only behind text that announces
\* an action (relayAnthropicResponsesStream).
THEOREM OneSampleTold == Spec => []OneSample
<1>1. ASSUME IInv
      PROVE  OneSample
  <2>1. 1 \in Samples /\ 2 \in Samples /\ 0 \in Bases /\ 1 \in Bases /\ 0 \in Nat
    BY DEF Samples, Bases
  <2>2. TypeOK /\ Sending
    BY <1>1 DEF IInv
  <2>3. CASE pc \in {"first", "verdict", "second"}
    <3>1. Held(conv, 1) /\ Held(candidate, 2) /\ Spoke /\ Retried
      BY <1>1, <2>3 DEF IInv, WhileFirst, WhileSecond
    <3>2. Source = 1
      BY <3>1, NotOver DEF Held, Source, Won
    <3>3. Ordered(sent[1], 1)
      BY <2>1, <2>2 DEF Sending
    <3>4. Ready(conv) /\ Holding(conv, 0, 0, sent[1]) /\ Settled(conv, 0, 1)
      BY <3>1 DEF Held
    <3>5. CallsAre(conv, 1)
      BY <2>1, <3>3, <3>4, ReadyAre
    <3>6. conv.text \in {{}, {1}, {Source}}
      BY <3>1 DEF Spoke
    <3>7. QED
      BY <3>1, <3>2, <3>5, <3>6 DEF OneSample, CallsAre, Retried, wire
  <2>4. CASE pc = "replay"
    <3>1. /\ Won /\ Ready(conv) /\ Settled(conv, Len(sent[1]), 2)
          /\ conv.text \in {{}, {1}, {2}} /\ Retried
      BY <1>1, <2>4 DEF IInv, WhileReplay
    <3>2. PICK q : Ordered(q, 2) /\ Holding(conv, Len(sent[1]), 1, q)
      BY <1>1, <2>4 DEF IInv, WhileReplay
    <3>3. Source = 2
      BY <3>1 DEF Source
    <3>4. Len(sent[1]) \in Nat
      <4>1. sent[1] \in Seq(SentItems)
        BY <2>1, <2>2 DEF TypeOK
      <4>2. QED
        BY <4>1
    <3>5. CallsAre(conv, 2)
      BY <2>1, <3>1, <3>2, <3>4, ReadyAre
    <3>6. QED
      BY <3>1, <3>3, <3>5 DEF OneSample, CallsAre, Retried, wire
  <2>5. CASE pc = "done"
    BY <1>1, <2>5 DEF IInv, WhenDone
  <2>6. QED
    BY <2>2, <2>3, <2>4, <2>5 DEF TypeOK
<1>2. QED
  BY <1>1, SpecInv, PTL

----------------------------------------------------------------------------
(* The message contract.                                                   *)

\* A module that is instantiated has operators of its own, with the same
\* definitions.
LEMMA SameCalls ==
    ASSUME NEW m
    PROVE  MessageContract!Calls(m) = Calls(m)
BY DEF MessageContract!Calls, Calls, MessageContract!Picked, Picked

LEMMA ContractGoing ==
    ASSUME Ready(conv)
    PROVE  MessageContract!Going
<1>1. conv.wire \in Tellings
  BY DEF Ready, Streamers
<1>2. QED
  BY <1>1 DEF Tellings, wire, MessageContract!Going, MessageContract!Streaming

\* A message told on, up to more and with a block that is open.
Longer(message, more, open) == [message EXCEPT !.blocks = more, !.open = open]

LEMMA LongerIs ==
    ASSUME NEW m \in Tellings, NEW d \in Tellings
    PROVE  d = Longer(m, d.blocks, d.open)
<1>1. [m EXCEPT !.blocks = d.blocks] \in Tellings
  BY DEF Tellings
<1>2. d = [[m EXCEPT !.blocks = d.blocks] EXCEPT !.open = d.open]
  BY <1>1 DEF Tellings
<1>3. QED
  BY <1>2 DEF Longer

\* The blocks that a client is told next, when there is one.
Added(m, n) == SubSeq(n.blocks, Len(m.blocks) + 1, Len(n.blocks))

LEMMA AddedOne ==
    ASSUME NEW m \in Tellings, NEW b \in Blocks, NEW open \in BOOLEAN, NEW n,
           n = Saying(Append(m.blocks, b), open)
    PROVE  /\ Added(m, n) = <<b>> /\ Len(Added(m, n)) = 1 /\ Added(m, n)[1] = b
           /\ n = Longer(m, m.blocks \o Added(m, n), open)
<1> DEFINE bs == m.blocks
           more == Append(bs, b)
           part == SubSeq(more, Len(bs) + 1, Len(more))
<1>1. bs \in Seq(Blocks) /\ Len(bs) \in Nat
  BY DEF Tellings
<1>2. n \in Tellings /\ n.blocks = more /\ n.open = open
  <2>1. more \in Seq(Blocks) /\ n = Saying(more, open)
    BY <1>1
  <2> HIDE DEF more
  <2>2. QED
    BY <2>1, SayingType
<1>3. Added(m, n) = part
  BY <1>2 DEF Added
<1> HIDE DEF bs
<1>4. more = bs \o <<b>>
  BY <1>1, AppendIsConcat
<1>5. /\ more \in Seq(Blocks) /\ Len(more) = Len(bs) + 1 /\ more[Len(bs) + 1] = b
  BY <1>1, AppendProperties
<1> HIDE DEF more
<1>6. part \in Seq(Blocks) /\ Len(part) = 1 /\ part[1] = b
  <2>1. part = [i \in 1 .. 1 |-> more[Len(bs) + i]]
    BY <1>1, <1>5
  <2> HIDE DEF part
  <2>2. QED
    BY <1>1, <1>5, <2>1
<1>7. <<b>> \in Seq(Blocks) /\ Len(<<b>>) = 1 /\ <<b>>[1] = b
  OBVIOUS
<1> HIDE DEF part
<1>8. part = <<b>>
  BY <1>6, <1>7, SeqEqual
<1>9. n = Longer(m, bs \o <<b>>, open)
  BY <1>2, <1>4, LongerIs
<1>10. QED
  <2>1. Added(m, n) = <<b>>
    BY <1>3, <1>8
  <2>2. n = Longer(m, m.blocks \o Added(m, n), open)
    BY <1>9, <2>1 DEF bs
  <2>3. QED
    BY <1>3, <1>6, <2>1, <2>2

\* Text narrates, ends a block, or says nothing new.
LEMMA TextNarrates ==
    ASSUME Ready(conv), NEW s \in Samples, SaysText(conv.wire, conv'.wire, s)
    PROVE  MessageContract!Narrate \/ MessageContract!Pause \/ UNCHANGED wire
<1>1. conv.wire \in Tellings
  BY DEF Ready, Streamers
<1>2. CASE conv'.wire = conv.wire
  BY <1>2 DEF wire
<1>3. CASE conv'.wire = Saying(conv.wire.blocks, FALSE)
  <2>1. conv'.wire \in Tellings /\ conv'.wire.blocks = conv.wire.blocks
        /\ conv'.wire.open = FALSE
    <3>1. conv.wire.blocks \in Seq(Blocks)
      BY <1>1 DEF Tellings
    <3> DEFINE no == FALSE
               bs == conv.wire.blocks
    <3>2. no \in BOOLEAN /\ bs \in Seq(Blocks) /\ conv'.wire = Saying(bs, no)
      BY <1>3, <3>1
    <3> HIDE DEF no, bs
    <3>3. conv'.wire \in Tellings /\ conv'.wire.blocks = bs /\ conv'.wire.open = no
      BY <3>2, SayingType
    <3>4. QED
      BY <3>3 DEF no, bs
  <2>2. conv'.wire = Longer(conv.wire, conv.wire.blocks, FALSE)
    BY <1>1, <2>1, LongerIs
  <2>3. Longer(conv.wire, conv.wire.blocks, FALSE) = [conv.wire EXCEPT !.open = FALSE]
    BY <1>1 DEF Longer, Tellings
  <2>4. QED
    BY <2>2, <2>3, ContractGoing DEF MessageContract!Pause, wire
<1>4. CASE /\ ~conv.wire.open
           /\ \E open \in BOOLEAN :
                 conv'.wire = Saying(Append(conv.wire.blocks,
                                            [kind |-> "text", from |-> s]), open)
  <2> DEFINE b == [kind |-> "text", from |-> s]
  <2>1. PICK open \in BOOLEAN : conv'.wire = Saying(Append(conv.wire.blocks, b), open)
    BY <1>4
  <2>2. b \in Blocks /\ b.kind = "text"
    BY DEF Blocks, TextBlocks
  <2> HIDE DEF b
  <2>3. /\ Len(Added(wire, wire')) = 1 /\ Added(wire, wire')[1] = b
        /\ wire' = [wire EXCEPT !.blocks = @ \o Added(wire, wire'), !.open = open]
    <3> DEFINE m == conv.wire
               n == conv'.wire
    <3>1. m \in Tellings /\ n = Saying(Append(m.blocks, b), open)
      BY <1>1, <2>1
    <3> HIDE DEF m, n
    <3>2. /\ Len(Added(m, n)) = 1 /\ Added(m, n)[1] = b
          /\ n = Longer(m, m.blocks \o Added(m, n), open)
      BY <2>2, <3>1, AddedOne
    <3>3. m = wire /\ n = wire'
      BY DEF m, n, wire
    <3>4. QED
      BY <3>2, <3>3 DEF Longer
  <2>4. wire'.open = open /\ wire.open = FALSE
    <3>1. conv.wire.open \in BOOLEAN
      BY <1>1 DEF Tellings
    <3>2. QED
      BY <1>4, <2>1, <3>1 DEF Saying, wire
  <2>5. MessageContract!More = Added(wire, wire')
    BY DEF MessageContract!More, Added
  <2>6. QED
    BY <2>2, <2>3, <2>4, <2>5, ContractGoing DEF MessageContract!Narrate
<1>5. QED
  BY <1>2, <1>3, <1>4 DEF SaysText

\* A call is handed over, or nothing.
LEMMA ItemHandsOver ==
    ASSUME Ready(conv), Hands(conv.wire, conv'.wire),
           NEW pre, NEW s, Settled(conv', pre, s)
    PROVE  MessageContract!HandOver \/ UNCHANGED wire
<1>1. conv.wire \in Tellings
  BY DEF Ready, Streamers
<1>2. CASE conv'.wire = conv.wire
  BY <1>2 DEF wire
<1>3. CASE \E b \in ToolBlocks : conv'.wire = Saying(Append(conv.wire.blocks, b), FALSE)
  <2>1. PICK b \in ToolBlocks : conv'.wire = Saying(Append(conv.wire.blocks, b), FALSE)
    BY <1>3
  <2>2. b \in Blocks /\ b.kind = "tool_use"
    BY DEF Blocks, ToolBlocks
  <2>3. /\ Len(Added(wire, wire')) = 1 /\ Added(wire, wire')[1] = b
        /\ wire' = [wire EXCEPT !.blocks = @ \o Added(wire, wire'), !.open = FALSE]
    <3> DEFINE m == conv.wire
               n == conv'.wire
               no == FALSE
    <3>1. m \in Tellings /\ n = Saying(Append(m.blocks, b), no) /\ no \in BOOLEAN
      BY <1>1, <2>1
    <3> HIDE DEF m, n, no
    <3>2. /\ Len(Added(m, n)) = 1 /\ Added(m, n)[1] = b
          /\ n = Longer(m, m.blocks \o Added(m, n), no)
      BY <2>2, <3>1, AddedOne
    <3>3. m = wire /\ n = wire'
      BY DEF m, n, wire
    <3>4. QED
      BY <3>2, <3>3 DEF Longer, no
  <2>4. MessageContract!More = Added(wire, wire')
    BY DEF MessageContract!More, Added
  <2>5. MessageContract!Distinct(MessageContract!Calls(wire'))
    BY SameCalls DEF MessageContract!Distinct, Settled, wire
  <2>6. QED
    BY <2>2, <2>3, <2>4, <2>5, ContractGoing DEF MessageContract!HandOver
<1>4. QED
  BY <1>2, <1>3 DEF Hands

\* The end of the turn.
LEMMA ConcludesMessage ==
    ASSUME Ready(conv), NEW all \in Seq(Blocks), Extends(conv.wire.blocks, all),
           conv'.wire.blocks = all,
           conv'.wire.stop \in {"end_turn", "max_tokens", "tool_use"},
           conv'.wire.stop = "tool_use" <=> Calls(conv'.wire) # <<>>,
           conv'.wire.valid, conv'.wire.ended, ~conv'.wire.open,
           \A k, l \in DOMAIN Calls(conv'.wire) :
              Calls(conv'.wire)[k].id = Calls(conv'.wire)[l].id => k = l
    PROVE  MessageContract!Conclude
<1> DEFINE bs == conv.wire.blocks
           m == Len(bs)
           n == Len(all)
           added == SubSeq(all, m + 1, n)
<1>1. bs \in Seq(Blocks) /\ m \in Nat /\ n \in Nat
  <2>1. conv.wire \in Tellings
    BY DEF Ready, Streamers
  <2>2. bs \in Seq(Blocks)
    BY <2>1 DEF Tellings
  <2> HIDE DEF bs
  <2>3. QED
    BY <2>2
<1>2. /\ m <= n /\ \A k \in 1 .. m : all[k] = bs[k]
      /\ \A k \in 1 .. n : k > m => all[k] \in ToolBlocks
  BY DEF Extends
<1>3. wire.blocks = bs /\ wire'.blocks = all
  BY DEF wire
<1>4. MessageContract!IsPrefix(wire.blocks, wire'.blocks)
  <2>1. SubSeq(bs, 1, m) = SubSeq(all, 1, m)
    <3>1. \A q : SubSeq(q, 1, m) = [i \in 1 .. m |-> q[i]]
      <4> HIDE DEF m
      <4>1. QED
        BY <1>1
    <3>2. SubSeq(bs, 1, m) = [i \in 1 .. m |-> bs[i]]
          /\ SubSeq(all, 1, m) = [i \in 1 .. m |-> all[i]]
      BY <3>1
    <3> HIDE DEF m, bs
    <3>3. QED
      BY <1>2, <3>2
  <2>2. QED
    BY <1>2, <1>3, <2>1 DEF MessageContract!IsPrefix
<1>5. MessageContract!More = added
  BY <1>3 DEF MessageContract!More
<1>6. \A b \in MessageContract!ToSet(added) : b.kind = "tool_use"
  <2> HIDE DEF bs, m, n
  <2>1. added = [i \in 1 .. n - m |-> all[m + i]]
    BY <1>1, <1>2
  <2> HIDE DEF added
  <2>2. ASSUME NEW b \in MessageContract!ToSet(added)
        PROVE  b.kind = "tool_use"
    <3>1. PICK i \in 1 .. n - m : b = all[m + i]
      BY <2>1 DEF MessageContract!ToSet
    <3>2. m + i \in 1 .. n /\ m + i > m
      BY <1>1, <1>2
    <3>3. b \in ToolBlocks
      BY <1>2, <3>1, <3>2
    <3>4. QED
      BY <3>3 DEF ToolBlocks
  <2>3. QED
    BY <2>2
<1> HIDE DEF bs, m, n, added
<1>7. MessageContract!Calls(wire') = Calls(conv'.wire)
  BY SameCalls DEF wire
<1>8. MessageContract!Distinct(MessageContract!Calls(wire'))
  BY <1>7 DEF MessageContract!Distinct
<1>9. /\ wire'.stop \in {"end_turn", "max_tokens", "tool_use"}
      /\ wire'.stop = "tool_use" <=> MessageContract!Calls(wire') # <<>>
      /\ wire'.valid /\ wire'.ended /\ ~wire'.open
  BY <1>7 DEF wire
<1>10. QED
  BY <1>4, <1>5, <1>6, <1>8, <1>9, ContractGoing DEF MessageContract!Conclude

\* A streamer is finalized; an error may go with it.
LEMMA ConcludesOrBreaks ==
    ASSUME NEW pre \in Nat, NEW base \in Bases, NEW s \in Samples, NEW q,
           Ready(conv), Ordered(q, s), Holding(conv, pre, base, q), Settled(conv, pre, s),
           conv' \in {Finalize(conv), EmitError(Finalize(conv))}
    PROVE  MessageContract!Conclude \/ MessageContract!Break
<1> DEFINE d == Finalize(conv)
<1>1. conv.wire \in Tellings
  BY DEF Ready, Streamers
<1>2. CASE conv.failed
  <2>1. Broken(conv, d)
    BY <1>2, FailedIs
  <2>2. /\ d.wire = [conv.wire EXCEPT !.failed = TRUE] /\ d.wire.valid
        /\ Fields \subseteq DOMAIN d
    BY <1>1, <2>1 DEF Broken, Tellings
  <2> HIDE DEF d
  <2>3. conv'.wire = [conv.wire EXCEPT !.failed = TRUE]
    <3>1. CASE conv' = d
      BY <2>2, <3>1
    <3>2. CASE conv' = EmitError(d)
      <4>1. conv'.wire = [d.wire EXCEPT !.failed = TRUE]
        BY <2>2, <3>2, ErrorIs DEF Broken
      <4>2. QED
        BY <1>1, <2>2, <4>1 DEF Tellings
    <3>3. QED
      BY <3>1, <3>2 DEF d
  <2>4. QED
    BY <2>3, ContractGoing DEF MessageContract!Break, wire
<1>3. CASE ~conv.failed
  <2>1. OwnIds(conv, pre, s) /\ \A k \in 1 .. pre : Silent(conv.items[k])
    BY HeldIs DEF Holding, Bases
  <2>2. Finished(conv, d, pre, s)
    BY <1>3, <2>1, FinalIs
  <2> HIDE DEF d
  <2>3. PICK all \in Seq(Blocks), reason \in {"end_turn", "max_tokens", "tool_use"} :
          /\ d.wire = Closing(all, reason)
          /\ Extends(conv.wire.blocks, all)
          /\ reason = "tool_use" <=> Calls(d.wire) # <<>>
    BY <2>2 DEF Finished
  <2>4. /\ d.wire.blocks = all /\ d.wire.stop = reason /\ d.wire.valid
        /\ d.wire.ended /\ ~d.wire.open /\ "blocks" \in DOMAIN d.wire
    BY <2>3 DEF Closing
  <2>5. Fields \subseteq DOMAIN d /\ Settled(d, pre, s)
    BY <2>2 DEF Finished
  <2>6. \A k, l \in DOMAIN Calls(d.wire) : Calls(d.wire)[k].id = Calls(d.wire)[l].id => k = l
    BY <2>5 DEF Settled
  <2>7. CASE conv' = d
    BY <2>3, <2>4, <2>6, <2>7, ConcludesMessage
  <2>8. CASE conv' = EmitError(d)
    <3>1. Broken(d, conv')
      BY <2>4, <2>5, <2>8, ErrorIs
    <3>2. Calls(conv'.wire) = Calls(d.wire)
      BY <2>4, <3>1, BrokenStill
    <3>3. /\ conv'.wire.blocks = all /\ conv'.wire.stop = reason /\ conv'.wire.valid
          /\ conv'.wire.ended /\ ~conv'.wire.open
      <4>1. conv'.wire = [Closing(all, reason) EXCEPT !.failed = TRUE]
        BY <2>3, <3>1 DEF Broken
      <4>2. QED
        BY <4>1 DEF Closing
    <3>4. QED
      BY <2>3, <2>6, <3>2, <3>3, ConcludesMessage
  <2>9. QED
    BY <2>7, <2>8 DEF d
<1>4. QED
  BY <1>2, <1>3

\* The first sample's message is concluded.
LEMMA FirstConcludes ==
    ASSUME IInv, pc \in {"first", "verdict", "second"},
           conv' \in {Finalize(conv), EmitError(Finalize(conv))}
    PROVE  MessageContract!Conclude \/ MessageContract!Break
<1>1. 1 \in Samples /\ 0 \in Bases /\ 0 \in Nat
  BY DEF Samples, Bases
<1>2. Sending /\ Held(conv, 1)
  BY DEF IInv, WhileFirst, WhileSecond
<1>3. Ordered(sent[1], 1)
  BY <1>1, <1>2 DEF Sending
<1>4. Ready(conv) /\ Holding(conv, 0, 0, sent[1]) /\ Settled(conv, 0, 1)
  BY <1>2 DEF Held
<1>5. QED
  BY <1>1, <1>3, <1>4, ConcludesOrBreaks

\* A frame that is told narrates, hands a call over, or says nothing new.
LEMMA TakenTells ==
    ASSUME Ready(conv), NEW pre, NEW base, NEW s \in Samples, NEW r, NEW f,
           Taken(conv, conv', pre, base, s, r, f)
    PROVE  MessageContract!Next \/ UNCHANGED wire
<1>1. Settled(conv', pre, s)
  BY DEF Taken
<1>2. CASE SaysText(conv.wire, conv'.wire, s)
  BY <1>2, TextNarrates DEF MessageContract!Next
<1>3. CASE Hands(conv.wire, conv'.wire)
  BY <1>1, <1>3, ItemHandsOver DEF MessageContract!Next
<1>4. QED
  BY <1>2, <1>3 DEF Taken

\* The client's message takes no step but those of the contract.
LEMMA StepImplements ==
    ResponsesAssumption /\ IInv /\ [Next]_vars => [MessageContract!Next]_wire
<1> SUFFICES ASSUME ResponsesAssumption, IInv, [Next]_vars
             PROVE  MessageContract!Next \/ UNCHANGED wire
  OBVIOUS
<1>1. 1 \in Samples /\ 2 \in Samples /\ 1 \in Bases
  BY DEF Samples, Bases
<1>2. CASE RelayFrame
  <2>1. Ready(conv)
    BY <1>2, RelayTakes
  <2>2. PICK o \in Offers(1) : Taken(conv, conv', 0, 0, 1, o.items, o.frame)
    BY <1>2, RelayTakes
  <2>3. QED
    BY <1>1, <2>1, <2>2, TakenTells
<1>3. CASE FirstBreaks
  <2>1. pc = "first" /\ conv' = EmitError(Finalize(conv))
    BY <1>3 DEF FirstBreaks
  <2>2. QED
    BY <2>1, FirstConcludes DEF MessageContract!Next
<1>4. CASE FirstEnds
  BY <1>4 DEF FirstEnds, stream, wire
<1>5. CASE Resample
  BY <1>5 DEF Resample, stream, wire
<1>6. CASE Accept
  <2>1. pc = "verdict" /\ conv' = Finalize(conv)
    BY <1>6 DEF Accept, Conclude
  <2>2. QED
    BY <2>1, FirstConcludes DEF MessageContract!Next
<1>7. CASE BufferFrame
  BY <1>7 DEF BufferFrame, wire
<1>8. ASSUME Unrescued, pc = "second"
      PROVE  MessageContract!Next \/ UNCHANGED wire
  <2>1. CASE conv' = conv
    BY <2>1 DEF wire
  <2>2. CASE conv' = Finalize(conv)
    BY <1>8, <2>2, FirstConcludes DEF MessageContract!Next
  <2>3. QED
    BY <1>8, <2>1, <2>2 DEF Unrescued, Conclude
<1>9. CASE SecondFails
  BY <1>8, <1>9 DEF SecondFails
<1>10. CASE SecondEnds
  BY <1>8, <1>10 DEF SecondEnds, wire
<1>11. CASE ReplayFrame
  <2>1. Ready(conv)
    BY <1>11, ReplayTakes
  <2>2. PICK r : Taken(conv, conv', Len(sent[1]), 1, 2, r, Head(frames))
    BY <1>11, ReplayTakes
  <2>3. QED
    BY <1>1, <2>1, <2>2, TakenTells
<1>12. CASE Rescued
  <2>1. pc = "replay" /\ conv' = Finalize(conv)
    BY <1>12 DEF Rescued, Conclude
  <2>2. TypeOK /\ Ready(conv) /\ Settled(conv, Len(sent[1]), 2)
    BY <2>1 DEF IInv, WhileReplay
  <2>3. PICK q : Ordered(q, 2) /\ Holding(conv, Len(sent[1]), 1, q)
    BY <2>1 DEF IInv, WhileReplay
  <2>4. Len(sent[1]) \in Nat
    <3>1. sent[1] \in Seq(SentItems)
      BY <1>1, <2>2 DEF TypeOK
    <3>2. QED
      BY <3>1
  <2>5. QED
    BY <1>1, <2>1, <2>2, <2>3, <2>4, ConcludesOrBreaks DEF MessageContract!Next
<1>13. CASE UNCHANGED vars
  BY <1>13 DEF vars, stream, wire
<1>14. QED
  BY <1>2, <1>3, <1>4, <1>5, <1>6, <1>7, <1>9, <1>10, <1>11, <1>12, <1>13 DEF Next

\* The Responses stream, with its further samples or without, implements the
\* contract of a streamed message: text and calls grow in the order of their
\* frames and are never taken back, a call comes whole and under an id of its
\* own, the stop reason tells of calls exactly when there are some, and nothing
\* follows the end (HandleEvent, flushTool, Finalize and the replay).
THEOREM ResponsesImplementsMessage == Spec => ImplementsMessage
<1>1. Init => MessageContract!Init
  <2>1. NoMessage = MessageContract!NoMessage
    BY DEF NoMessage, MessageContract!NoMessage
  <2>2. ASSUME Init
        PROVE  wire = NoMessage
    <3>1. PICK names \in BOOLEAN : conv = NewResponsesToAnthropicStreamer(names)
      BY <2>2 DEF Init
    <3>2. conv.wire = NoMessage
      BY <3>1 DEF NewResponsesToAnthropicStreamer
    <3>3. QED
      BY <3>2 DEF wire
  <2>3. QED
    BY <2>1, <2>2 DEF MessageContract!Init
<1>2. IInv /\ [Next]_vars => [MessageContract!Next]_wire
  BY ResponsesAssumption, StepImplements
<1>3. QED
  BY <1>1, <1>2, SpecInv, PTL DEF Spec, ImplementsMessage, MessageContract!Spec

=============================================================================
