------------------------- MODULE RequestBodyProofs --------------------------
(***************************************************************************)
(* The safety properties of RequestBody, for bodies of any length, any     *)
(* buffer sizes and any sequence of calls.                                 *)
(***************************************************************************)
EXTENDS RequestBody, SequenceTheorems, TLAPS

\* The bytes a filter delivers next.
LEMMA BytesAreNext ==
  ASSUME TypeOK, NEW n \in Nat, r # Null, n <= Left, input.next <= r.body + 1
  PROVE  /\ Bytes(n) \in Seq(1..MaxBody)
         /\ Len(Bytes(n)) = n
         /\ \A i \in 1..n : Bytes(n)[i] = input.next + i - 1
<1>1. r.body \in 0..MaxBody /\ input.next \in 1..(MaxBody + 1) /\ MaxBody \in Nat
  BY RequestBodyAssumption DEF TypeOK, Inputs
<1>2. \A i \in 1..n : input.next + i - 1 \in 1..MaxBody
  BY <1>1 DEF Left
<1>. QED  BY <1>1, <1>2 DEF Bytes

\* What Pieces(len) can be.
LEMMA PiecesFit ==
  ASSUME TypeOK, r # Null, input.next <= r.body + 1,
         NEW len \in Nat \ {0}, NEW n \in Pieces(len)
  PROVE  n \in Nat /\ n <= len /\ n <= Left /\ (n = 0 <=> Left = 0)
<1>1. Left \in Nat
  BY RequestBodyAssumption DEF TypeOK, Left, Inputs
<1>. QED  BY <1>1 DEF Pieces

\* Appending the next bytes keeps a sequence in order.
LEMMA AppendInOrder ==
  ASSUME TypeOK, NEW n \in Nat, r # Null, n <= Left, input.next <= r.body + 1,
         NEW s \in Seq(1..MaxBody), Len(s) = input.next - 1,
         \A i \in 1..Len(s) : s[i] = i
  PROVE  /\ s \o Bytes(n) \in Seq(1..MaxBody)
         /\ Len(s \o Bytes(n)) = Len(s) + n
         /\ \A i \in 1..Len(s \o Bytes(n)) : (s \o Bytes(n))[i] = i
<1>1. /\ Bytes(n) \in Seq(1..MaxBody)
      /\ Len(Bytes(n)) = n
      /\ \A i \in 1..n : Bytes(n)[i] = input.next + i - 1
  BY BytesAreNext
<1>2. /\ s \o Bytes(n) \in Seq(1..MaxBody) /\ Len(s \o Bytes(n)) = Len(s) + n
      /\ \A i \in 1..(Len(s) + n) : (s \o Bytes(n))[i] =
           IF i <= Len(s) THEN s[i] ELSE Bytes(n)[i - Len(s)]
  <2>1. /\ s \o Bytes(n) \in Seq(1..MaxBody)
        /\ Len(s \o Bytes(n)) = Len(s) + Len(Bytes(n))
        /\ \A i \in 1..(Len(s) + Len(Bytes(n))) : (s \o Bytes(n))[i] =
             IF i <= Len(s) THEN s[i] ELSE Bytes(n)[i - Len(s)]
    BY <1>1, ConcatProperties
  <2>2. Len(Bytes(n)) = n
    BY <1>1
  <2>. QED  BY <2>1, <2>2, Zenon
<1>3. input.next \in Nat /\ Len(s) \in Nat
  BY RequestBodyAssumption DEF TypeOK, Inputs
<1>4. ASSUME NEW i \in 1..(Len(s) + n) PROVE (s \o Bytes(n))[i] = i
  <2>1. CASE i <= Len(s)
    BY <2>1, <1>2, <1>3
  <2>2. CASE ~(i <= Len(s))
    <3>1. (s \o Bytes(n))[i] = Bytes(n)[i - Len(s)]
      BY <2>2, <1>2
    <3>2. i - Len(s) \in 1..n
      <4>1. PICK l \in Nat : l = Len(s)
        BY <1>3
      <4>2. i \in 1..(l + n) /\ ~(i <= l) => i - l \in 1..n
        OBVIOUS
      <4>. QED  BY <2>2, <4>1, <4>2
    <3>. QED  BY <3>1, <3>2, <1>1, <1>3
  <2>. QED  BY <2>1, <2>2
<1>. QED  BY <1>2, <1>4

-----------------------------------------------------------------------------
(* The invariant.                                                          *)

\* The values a step assigns have their types.
LEMMA Types ==
  /\ NoFrame \in Frames /\ Nil \in Lists
  /\ Fresh \in Inputs /\ Fresh.next = 1 /\ <<>> \in Seq(1..MaxBody)
  /\ Forced(Nil) \in Promises
  /\ Delayed \in Promises /\ \A v \in Lists : Forced(v) \in Promises
  BY RequestBodyAssumption
     DEF NoFrame, Frame, Frames, Ops, Nil, List, Lists, Delayed, Forced, Promises, Fresh, Inputs

\* The invariant holds when the child starts.
LEMMA InitInv == Init => BodyInv
<1>. SUFFICES ASSUME Init PROVE BodyInv  OBVIOUS
<1>. USE RequestBodyAssumption, Types DEF Init
<1>1. TypeOK  BY DEF TypeOK
<1>2. FlagInv  BY DEF FlagInv
<1>3. OrderInv  BY DEF OrderInv
<1>4. FrameInv  BY DEF FrameInv
<1>5. PostInv  BY DEF PostInv
<1>. QED  BY <1>1, <1>2, <1>3, <1>4, <1>5 DEF BodyInv

\* A call of ReadRequestBody with a buffer that is set up as FrameInv asks.
LEMMA CallReadInv ==
  ASSUME BodyInv, NEW fr \in Frames, fr.bpos = 0,
         fr.op \in {"all", "some"} => fr.want = fr.size - fr.blen,
         fr.op = "all" => fr.size >= 2 /\ fr.want > 0 /\ Len(read) - fr.start = fr.blen,
         pc \in {"R", "returned"}, CallRead(fr)
  PROVE  BodyInv'
<1>. USE RequestBodyAssumption, Types DEF BodyInv
<1>1. CASE r = Null /\ Crash
  <2>. USE <1>1 DEF Crash, parsing, promises
  <2>1. TypeOK'
    BY DEF TypeOK
  <2>2. FlagInv'
    BY DEF TypeOK, FlagInv
  <2>3. OrderInv'
    BY DEF TypeOK, FlagInv, OrderInv, Inputs
  <2>4. FrameInv'
    BY DEF TypeOK, FlagInv, OrderInv, FrameInv, Left, Frames, Inputs
  <2>5. PostInv'
    BY DEF TypeOK, FlagInv, OrderInv, PostInv, Left, Lists, Inputs
  <2>. QED  BY <2>1, <2>2, <2>3, <2>4, <2>5
<1>2. CASE /\ r # Null /\ postParsed
           /\ frame' = fr /\ pc' = "returned"
           /\ UNCHANGED <<rest, input, parsing, readStarted, promises, read, fed>>
  <2>. USE <1>2 DEF rest, parsing, promises
  <2>1. TypeOK'
    BY DEF TypeOK
  <2>2. FlagInv'
    BY DEF TypeOK, FlagInv
  <2>3. OrderInv'
    BY DEF TypeOK, FlagInv, OrderInv, Inputs
  <2>4. FrameInv'
    BY DEF TypeOK, FlagInv, OrderInv, FrameInv, Left, Frames, Inputs
  <2>5. PostInv'
    BY DEF TypeOK, FlagInv, OrderInv, PostInv, Left, Lists, Inputs
  <2>. QED  BY <2>1, <2>2, <2>3, <2>4, <2>5
<1>3. CASE /\ r # Null /\ ~postParsed /\ StartsReading
           /\ frame' = fr /\ pc' = "reading"
           /\ UNCHANGED <<rest, input, parsing, promises, read, fed>>
  <2>. USE <1>3 DEF StartsReading, rest, parsing, promises
  <2>1. TypeOK'
    BY DEF TypeOK
  <2>2. FlagInv'
    BY DEF TypeOK, FlagInv
  <2>3. OrderInv'
    BY DEF TypeOK, FlagInv, OrderInv, Inputs
  <2>4. FrameInv'
    BY DEF TypeOK, FlagInv, OrderInv, FrameInv, Left, Frames, Inputs
  <2>5. PostInv'
    BY DEF TypeOK, FlagInv, OrderInv, PostInv, Left, Lists, Inputs
  <2>. QED  BY <2>1, <2>2, <2>3, <2>4, <2>5
<1>. QED  BY <1>1, <1>2, <1>3 DEF CallRead

\* n bytes more, for one reader or the other.
LEMMA ReadMore ==
  ASSUME NEW a \in Nat, NEW b \in Nat, NEW c \in Nat, NEW d \in Nat, NEW n \in Nat, a - b = c + d
  PROVE  a + n - b = c + (d + n)
OBVIOUS
LEMMA Advance ==
  ASSUME NEW a \in Nat, NEW x \in Nat, NEW n \in Nat, a = x - 1
  PROVE  (a + n) + 0 = (x + n) - 1 /\ 0 + (a + n) = (x + n) - 1
OBVIOUS
LEMMA StaysWithin ==
  ASSUME NEW x \in Nat, NEW b \in Nat, NEW n \in Nat, n <= b - x + 1
  PROVE  x + n <= b + 1
OBVIOUS

\* A buffer of two bytes or more grows.
LEMMA Grows ==
  ASSUME NEW size \in Nat, size >= 2
  PROVE  (size * 3) \div 2 \in Nat /\ (size * 3) \div 2 > size
OBVIOUS

\* Every step keeps the invariant.
LEMMA NextInv == BodyInv /\ [Next]_vars => BodyInv'
<1>. SUFFICES ASSUME BodyInv, [Next]_vars PROVE BodyInv'  OBVIOUS
<1>. USE RequestBodyAssumption, Types DEF BodyInv
<1>1. CASE SetUpRequest
  <2>. USE <1>1 DEF SetUpRequest, parsing
  <2>1. TypeOK'
    BY DEF TypeOK
  <2>2. FlagInv'
    BY DEF TypeOK, FlagInv
  <2>3. OrderInv'
    BY DEF TypeOK, FlagInv, OrderInv, Inputs
  <2>4. FrameInv'
    BY DEF TypeOK, FlagInv, OrderInv, FrameInv, Left, Frames, Inputs
  <2>5. PostInv'
    BY DEF TypeOK, FlagInv, OrderInv, PostInv, Left, Lists, Inputs
  <2>. QED  BY <2>1, <2>2, <2>3, <2>4, <2>5
<1>2. CASE TearDownRequest
  <2>. USE <1>2 DEF TearDownRequest, Cleared, promises
  <2>1. TypeOK'
    BY DEF TypeOK
  <2>2. FlagInv'
    BY DEF TypeOK, FlagInv
  <2>3. OrderInv'
    BY DEF TypeOK, FlagInv, OrderInv, Inputs
  <2>4. FrameInv'
    BY DEF TypeOK, FlagInv, OrderInv, FrameInv, Left, Frames, Inputs
  <2>5. PostInv'
    BY DEF TypeOK, FlagInv, OrderInv, PostInv, Left, Lists, Inputs
  <2>. QED  BY <2>1, <2>2, <2>3, <2>4, <2>5
<1>3. CASE StartupCode
  <2>. USE <1>3 DEF StartupCode, rest, parsing, promises
  <2>1. TypeOK'
    BY DEF TypeOK
  <2>2. FlagInv'
    BY DEF TypeOK, FlagInv
  <2>3. OrderInv'
    BY DEF TypeOK, FlagInv, OrderInv, Inputs
  <2>4. FrameInv'
    BY DEF TypeOK, FlagInv, OrderInv, FrameInv, Left, Frames, Inputs
  <2>5. PostInv'
    BY DEF TypeOK, FlagInv, OrderInv, PostInv, Left, Lists, Inputs
  <2>. QED  BY <2>1, <2>2, <2>3, <2>4, <2>5
<1>4. CASE RApacheInfoFails
  <2>. USE <1>4 DEF RApacheInfoFails, Cleared, promises
  <2>1. TypeOK'
    BY DEF TypeOK
  <2>2. FlagInv'
    BY DEF TypeOK, FlagInv
  <2>3. OrderInv'
    BY DEF TypeOK, FlagInv, OrderInv, Inputs
  <2>4. FrameInv'
    BY DEF TypeOK, FlagInv, OrderInv, FrameInv, Left, Frames, Inputs
  <2>5. PostInv'
    BY DEF TypeOK, FlagInv, OrderInv, PostInv, Left, Lists, Inputs
  <2>. QED  BY <2>1, <2>2, <2>3, <2>4, <2>5
<1>5. CASE CodeEnds
  <2>. USE <1>5 DEF CodeEnds, rest, parsing, promises
  <2>1. TypeOK'
    BY DEF TypeOK
  <2>2. FlagInv'
    BY DEF TypeOK, FlagInv
  <2>3. OrderInv'
    BY DEF TypeOK, FlagInv, OrderInv, Inputs
  <2>4. FrameInv'
    BY DEF TypeOK, FlagInv, OrderInv, FrameInv, Left, Frames, Inputs
  <2>5. PostInv'
    BY DEF TypeOK, FlagInv, OrderInv, PostInv, Left, Lists, Inputs
  <2>. QED  BY <2>1, <2>2, <2>3, <2>4, <2>5
<1>6. CASE Respawn
  <2>. USE <1>6 DEF Respawn, Cleared
  <2>1. TypeOK'
    BY DEF TypeOK
  <2>2. FlagInv'
    BY DEF TypeOK, FlagInv
  <2>3. OrderInv'
    BY DEF TypeOK, FlagInv, OrderInv, Inputs
  <2>4. FrameInv'
    BY DEF TypeOK, FlagInv, OrderInv, FrameInv, Left, Frames, Inputs
  <2>5. PostInv'
    BY DEF TypeOK, FlagInv, OrderInv, PostInv, Left, Lists, Inputs
  <2>. QED  BY <2>1, <2>2, <2>3, <2>4, <2>5
<1>7. CASE ReadFails
  <2>. USE <1>7 DEF ReadFails, Failing, rest, parsing, promises
  <2>1. TypeOK'
    BY DEF TypeOK, Inputs
  <2>2. FlagInv'
    BY DEF TypeOK, FlagInv
  <2>3. OrderInv'
    BY DEF TypeOK, FlagInv, OrderInv, Inputs
  <2>4. FrameInv'
    BY DEF TypeOK, FlagInv, OrderInv, FrameInv, Left, Frames, Inputs
  <2>5. PostInv'
    BY DEF TypeOK, FlagInv, OrderInv, PostInv, Left, Lists, Inputs
  <2>. QED  BY <2>1, <2>2, <2>3, <2>4, <2>5
<1>8. CASE ParseReadFails
  <2>. USE <1>8 DEF ParseReadFails, Failing, rest, parsing, promises
  <2>1. TypeOK'
    BY DEF TypeOK, Inputs
  <2>2. FlagInv'
    BY DEF TypeOK, FlagInv
  <2>3. OrderInv'
    BY DEF TypeOK, FlagInv, OrderInv, Inputs
  <2>4. FrameInv'
    BY DEF TypeOK, FlagInv, OrderInv, FrameInv, Left, Frames, Inputs
  <2>5. PostInv'
    BY DEF TypeOK, FlagInv, OrderInv, PostInv, Left, Lists, Inputs
  <2>. QED  BY <2>1, <2>2, <2>3, <2>4, <2>5
<1>9. CASE ReadReturns
  <2>. USE <1>9 DEF ReadReturns, rest, parsing, promises
  <2>1. TypeOK'
    BY DEF TypeOK
  <2>2. FlagInv'
    BY DEF TypeOK, FlagInv
  <2>3. OrderInv'
    BY DEF TypeOK, FlagInv, OrderInv, Inputs
  <2>4. FrameInv'
    BY DEF TypeOK, FlagInv, OrderInv, FrameInv, Left, Frames, Inputs
  <2>5. PostInv'
    BY DEF TypeOK, FlagInv, OrderInv, PostInv, Left, Lists, Inputs
  <2>. QED  BY <2>1, <2>2, <2>3, <2>4, <2>5
<1>10. CASE ReceiveNothing
  <2>. USE <1>10 DEF ReceiveNothing, Crash, parsing, promises
  <2>1. TypeOK'
    BY DEF TypeOK
  <2>2. FlagInv'
    BY DEF TypeOK, FlagInv
  <2>3. OrderInv'
    BY DEF TypeOK, FlagInv, OrderInv, Inputs
  <2>4. FrameInv'
    BY DEF TypeOK, FlagInv, OrderInv, FrameInv, Left, Frames, Inputs
  <2>5. PostInv'
    BY DEF TypeOK, FlagInv, OrderInv, PostInv, Left, Lists, Inputs
  <2>. QED  BY <2>1, <2>2, <2>3, <2>4, <2>5
<1>11. CASE ReadConsole
  <2>. PICK m \in Lengths : m > 0 /\ CallRead(Frame("console", 0, 0, m, Len(read)))
    BY <1>11 DEF ReadConsole
  <2>1. pc = "R" /\ Len(read) \in Nat /\ m \in Nat
    BY <1>11 DEF ReadConsole, TypeOK
  <2>. DEFINE fr == Frame("console", 0, 0, m, Len(read))
  <2>2. fr \in Frames /\ fr.bpos = 0 /\ fr.op = "console"
    BY <2>1 DEF Frame, Frames, Ops
  <2>3. CallRead(fr)
    OBVIOUS
  <2>. HIDE DEF fr
  <2>. QED  BY <2>1, <2>2, <2>3, CallReadInv
<1>12. CASE RApache_receiveBin
  <2>. PICK m \in Lengths :
         \/ m > 0 /\ CallRead(Frame("some", m, 0, m, Len(read)))
         \/ m < 0 /\ CallRead(Frame("all", FirstSize, 0, FirstSize, Len(read)))
    BY <1>12 DEF RApache_receiveBin
  <2>0. pc = "R" /\ Len(read) \in Nat /\ m \in Int
    BY <1>12 DEF RApache_receiveBin, TypeOK
  <2>1. CASE m > 0 /\ CallRead(Frame("some", m, 0, m, Len(read)))
    <3>. DEFINE fr == Frame("some", m, 0, m, Len(read))
    <3>1. fr \in Frames /\ fr.bpos = 0 /\ fr.op = "some" /\ fr.want = fr.size - fr.blen
      BY <2>0, <2>1 DEF Frame, Frames, Ops
    <3>2. CallRead(fr)
      BY <2>1
    <3>. HIDE DEF fr
    <3>. QED  BY <2>0, <3>1, <3>2, CallReadInv
  <2>2. CASE m < 0 /\ CallRead(Frame("all", FirstSize, 0, FirstSize, Len(read)))
    <3>. DEFINE fr == Frame("all", FirstSize, 0, FirstSize, Len(read))
    <3>1. /\ fr \in Frames /\ fr.bpos = 0 /\ fr.want = fr.size - fr.blen
          /\ fr.size >= 2 /\ fr.want > 0 /\ Len(read) - fr.start = fr.blen
      BY <2>0, <2>2 DEF Frame, Frames, Ops
    <3>2. CallRead(fr)
      BY <2>2
    <3>. HIDE DEF fr
    <3>. QED  BY <2>0, <3>1, <3>2, CallReadInv
  <2>. QED  BY <2>1, <2>2
<1>13. CASE ReceiveMore
  <2>. DEFINE blen == frame.blen + frame.bpos
              size == Grown(frame)
              fr == Frame("all", size, blen, Room(size, blen), frame.start)
  <2>1. /\ pc = "returned" /\ frame.op = "all" /\ frame.size >= 2
        /\ blen <= frame.size
        /\ Len(read) - frame.start = blen
        /\ frame \in Frames
    <3>1. frame \in Frames
      BY DEF TypeOK
    <3>. QED  BY <1>13, <3>1 DEF ReceiveMore, FrameInv, Frames
  <2>2. size \in Nat /\ size > frame.size
    <3>1. frame.size \in Nat /\ frame.size >= 2
      BY <2>1 DEF Frames
    <3>. QED  BY <3>1, Grows, Zenon DEF Grown
  <2>3. CallRead(fr)
    BY <1>13 DEF ReceiveMore
  <2>4. blen \in Nat /\ frame.start \in Nat /\ frame.size \in Nat
    BY <2>1 DEF Frames
  <2>. HIDE DEF size, blen
  <2>5. /\ fr \in Frames /\ fr.bpos = 0 /\ fr.want = fr.size - fr.blen
        /\ fr.size >= 2 /\ fr.want > 0 /\ Len(read) - fr.start = fr.blen
    BY <2>1, <2>2, <2>4 DEF Frame, Room, Frames, Ops
  <2>. HIDE DEF fr
  <2>. QED  BY <2>1, <2>3, <2>5, CallReadInv
<1>14. CASE ReadRequestBody
  <2>. DEFINE left == frame.want - frame.bpos
              len == IF left > Huge THEN Huge ELSE left
  <2>1. /\ pc = "reading" /\ r # Null /\ readStarted /\ ~postParsed
        /\ fed = <<>> /\ Len(read) = input.next - 1 /\ input.next <= r.body + 1
        /\ left \in Nat /\ read \in Seq(1..MaxBody)
    <3>1. frame \in Frames /\ read \in Seq(1..MaxBody)
      BY DEF TypeOK
    <3>2. pc = "reading" /\ r # Null /\ frame.bpos <= frame.want
      BY <1>14 DEF ReadRequestBody, FrameInv
    <3>3. readStarted /\ ~postParsed /\ fed = <<>>
      BY <3>2 DEF FlagInv
    <3>4. Len(read) = input.next - 1 /\ input.next <= r.body + 1
      BY <3>1, <3>2, <3>3 DEF OrderInv, TypeOK, Inputs
    <3>. QED  BY <3>1, <3>2, <3>3, <3>4 DEF Frames
  <2>2. CASE /\ left > 0 /\ ~input.failed
             /\ \E n \in Pieces(len) :
                  /\ input' = Delivered(n, FALSE)
                  /\ read' = Taken(n)
                  /\ frame' = [frame EXCEPT !.bpos = @ + n]
                  /\ pc' = IF EndOfBody(n) THEN "returned" ELSE "reading"
    <3>1. len \in Nat \ {0} /\ len <= left
      BY <2>1, <2>2
    <3>. HIDE DEF len
    <3>2. PICK n \in Pieces(len) :
                  /\ input' = Delivered(n, FALSE)
                  /\ read' = Taken(n)
                  /\ frame' = [frame EXCEPT !.bpos = @ + n]
                  /\ pc' = IF n = 0 THEN "returned" ELSE "reading"
      BY <2>2 DEF EndOfBody
    <3>3. n \in Nat /\ n <= len /\ n <= Left /\ (n = 0 <=> Left = 0)
      BY <2>1, <3>1, PiecesFit
    <3>4. /\ read' \in Seq(1..MaxBody) /\ Len(read') = Len(read) + n
          /\ \A i \in 1..Len(read') : read'[i] = i
      BY <2>1, <3>2, <3>3, AppendInOrder DEF Taken, OrderInv
    <3>5. UNCHANGED <<served, r, child, postParsed, postTable, filesVar, readStarted,
                      POST, FILES, fed>>
      BY <1>14 DEF ReadRequestBody, rest, parsing, promises
    <3>6. /\ input' \in Inputs /\ input'.next = input.next + n
          /\ input'.failed = input.failed
      <4>1. input' = Delivered(n, FALSE) /\ input \in Inputs /\ r.body \in 0..MaxBody
        BY <2>1, <3>2 DEF TypeOK
      <4>. QED  BY <2>1, <3>3, <4>1 DEF Delivered, Inputs, Left
    <3>7. /\ frame' \in Frames /\ frame'.bpos = frame.bpos + n
          /\ frame'.want = frame.want /\ frame'.size = frame.size
          /\ frame'.blen = frame.blen /\ frame'.op = frame.op
          /\ frame'.start = frame.start /\ frame.bpos + n <= frame.want
      <4>1. frame' = [frame EXCEPT !.bpos = frame.bpos + n] /\ frame \in Frames
        BY <3>2 DEF TypeOK
      <4>2. n <= frame.want - frame.bpos /\ n \in Nat
        BY <2>1, <3>1, <3>3
      <4>. QED  BY <4>1, <4>2 DEF Frames
    <3>8. pc' = IF n = 0 THEN "returned" ELSE "reading"
      BY <3>2
    <3>9. Len(read) \in Nat /\ Len(fed) = 0 /\ input.next \in Nat /\ frame \in Frames
          /\ r.body \in Nat
      BY <2>1 DEF TypeOK, Inputs
    <3>10. Len(read) - frame.start = frame.blen + frame.bpos =>
             Len(read') - frame'.start = frame'.blen + frame'.bpos
      <4>1. /\ frame.start \in Nat /\ frame.blen \in Nat /\ frame.bpos \in Nat
            /\ Len(read) \in Nat /\ n \in Nat
        BY <3>3, <3>9 DEF Frames
      <4>2. Len(read) - frame.start = frame.blen + frame.bpos =>
              Len(read) + n - frame.start = frame.blen + (frame.bpos + n)
        <5>1. PICK a \in Nat, b \in Nat, c \in Nat, d \in Nat :
                a = Len(read) /\ b = frame.start /\ c = frame.blen /\ d = frame.bpos
          BY <4>1
        <5>2. a - b = c + d => a + n - b = c + (d + n)
          BY <4>1, ReadMore
        <5>. QED  BY <5>1, <5>2
      <4>3. /\ Len(read') = Len(read) + n /\ frame'.start = frame.start
            /\ frame'.blen = frame.blen /\ frame'.bpos = frame.bpos + n
        BY <3>4, <3>7
      <4>. QED  BY <4>1, <4>2, <4>3
    <3>. USE <2>1, <3>3, <3>4, <3>5, <3>6, <3>7, <3>8, <3>9
    <3>11. TypeOK'
      BY DEF TypeOK
    <3>12. FlagInv'
      BY DEF TypeOK, FlagInv
    <3>13. OrderInv'
      <4>1. Len(read') + Len(fed') = input'.next - 1
        <5>1. PICK a \in Nat, x \in Nat : a = Len(read) /\ x = input.next /\ a = x - 1
          OBVIOUS
        <5>2. Len(read') = a + n /\ Len(fed') = 0 /\ input'.next = x + n
          BY <5>1
        <5>3. (a + n) + 0 = (x + n) - 1
          BY <5>1, Advance
        <5>. QED  BY <5>2, <5>3, Zenon
      <4>2. input'.next <= r'.body + 1
        <5>1. n <= r.body - input.next + 1
          BY Zenon DEF Left
        <5>2. input.next + n <= r.body + 1
          BY <5>1, StaysWithin, Zenon
        <5>. QED  BY <5>2, Zenon
      <4>3. \A i \in 1..Len(fed') : fed'[i] = i
        OBVIOUS
      <4>. QED  BY <4>1, <4>2, <4>3 DEF OrderInv
    <3>14. FrameInv'
      <4>1. frame.op \in {"all", "some"} => frame.want = frame.size - frame.blen
        BY DEF FrameInv
      <4>2. frame.op = "all" => /\ frame.size >= 2 /\ frame.want > 0
                                /\ Len(read) - frame.start = frame.blen + frame.bpos
        BY DEF FrameInv
      <4>3. frame'.op = "all" => Len(read') - frame'.start = frame'.blen + frame'.bpos
        BY <3>10, <4>2
      <4>4. pc' = "returned" => Left' = 0
        <5>1. Left' = r.body - input'.next + 1
          BY DEF Left
        <5>. QED  BY <5>1 DEF Left
      <4>5. /\ frame'.op \in {"all", "some"} => frame'.want = frame'.size - frame'.blen
            /\ frame'.op = "all" => frame'.size >= 2 /\ frame'.want > 0
        BY <4>1, <4>2
      <4>6. frame'.bpos <= frame'.want /\ r' # Null
        OBVIOUS
      <4>. QED  BY <4>3, <4>4, <4>5, <4>6, Zenon DEF FrameInv
    <3>15. PostInv'
      BY DEF TypeOK, FlagInv, OrderInv, PostInv, Left, Lists, Inputs
    <3>. QED  BY <3>11, <3>12, <3>13, <3>14, <3>15
  <2>3. CASE /\ left <= 0 \/ input.failed
             /\ pc' = "returned"
             /\ UNCHANGED <<input, read, frame>>
    <3>6. UNCHANGED <<served, r, child, postParsed, postTable, filesVar, readStarted,
                      POST, FILES, fed>>
      BY <1>14 DEF ReadRequestBody, rest, parsing, promises
    <3>7. /\ frame \in Frames
          /\ frame.bpos \in Nat /\ frame.want \in Nat /\ frame.bpos <= frame.want
      BY <2>1 DEF TypeOK, Frames, FrameInv
    <3>. USE <2>1, <2>3, <3>6, <3>7
    <3>1. TypeOK'
      BY DEF TypeOK
    <3>2. FlagInv'
      BY DEF TypeOK, FlagInv
    <3>3. OrderInv'
      BY DEF TypeOK, FlagInv, OrderInv, Inputs
    <3>4. FrameInv'
      <4>1. /\ frame.op \in {"all", "some"} => frame.want = frame.size - frame.blen
            /\ frame.op = "all" => /\ frame.size >= 2 /\ frame.want > 0
                                   /\ Len(read) - frame.start = frame.blen + frame.bpos
        BY DEF FrameInv
      <4>2. frame.op = "all" /\ frame.bpos = 0 => input.failed
        BY <4>1
      <4>. QED  BY <4>1, <4>2 DEF FrameInv
    <3>5. PostInv'
      BY DEF TypeOK, FlagInv, OrderInv, PostInv, Left, Lists, Inputs
    <3>. QED  BY <3>1, <3>2, <3>3, <3>4, <3>5
  <2>. QED  BY <1>14, <2>2, <2>3 DEF ReadRequestBody
<1>15. CASE ParseBrigade
  <2>1. /\ pc = "parsing" /\ r # Null /\ ~readStarted /\ postParsed
        /\ read = <<>> /\ Len(fed) = input.next - 1 /\ input.next <= r.body + 1
        /\ fed \in Seq(1..MaxBody)
    BY <1>15 DEF ParseBrigade, TypeOK, FlagInv, OrderInv
  <2>2. PICK n \in Pieces(Huge), eos \in BOOLEAN, back \in BOOLEAN :
       /\ eos => Left = n
       /\ n = 0 => eos
       /\ GivesBack(eos, back)
       /\ input' = Delivered(n, eos)
       /\ fed' = Run(n)
       /\ postTable' = List(Len(Run(n)))
       /\ pc' = IF back THEN "parsed" ELSE "parsing"
    BY <1>15 DEF ParseBrigade
  <2>3. n \in Nat /\ n <= Left
    BY <2>1, PiecesFit
  <2>4. /\ fed' \in Seq(1..MaxBody) /\ Len(fed') = Len(fed) + n
        /\ \A i \in 1..Len(fed') : fed'[i] = i
    BY <2>1, <2>2, <2>3, AppendInOrder DEF Run, OrderInv
  <2>5. UNCHANGED <<served, r, child, postParsed, filesVar, readStarted, POST, FILES,
                    read, frame>>
    BY <1>15 DEF ParseBrigade, rest, promises
  <2>6. postTable' = List(Len(fed'))
    BY <2>2
  <2>7. /\ input' \in Inputs /\ input'.next = input.next + n
        /\ input'.failed = input.failed
    <3>1. input' = Delivered(n, eos) /\ input \in Inputs /\ r.body \in 0..MaxBody
      BY <2>1, <2>2 DEF TypeOK
    <3>. QED  BY <2>1, <2>3, <3>1 DEF Delivered, Inputs, Left
  <2>8. postTable' \in Lists /\ postTable'.bytes = Len(fed')
    <3>1. Len(fed') \in 0..MaxBody
      BY <2>1, <2>3, <2>4, <2>7 DEF Inputs, TypeOK
    <3>. QED  BY <2>6, <3>1 DEF List, Lists
  <2>9. /\ pc' = (IF back THEN "parsed" ELSE "parsing")
        /\ (eos => Left = n) /\ (back => eos)
    BY <2>2 DEF GivesBack
  <2>10. Len(fed) \in Nat /\ Len(read) = 0 /\ input.next \in Nat /\ r.body \in Nat
    BY <2>1 DEF TypeOK, Inputs
  <2>16. Left = n => Left' = 0
    <3>1. Left = r.body - input.next + 1 /\ Left' = r.body - (input.next + n) + 1
      BY <2>5, <2>7 DEF Left
    <3>. QED  BY <2>3, <2>10, <3>1
  <2>17. pc' = "parsed" => Left' = 0
    <3>1. pc' = "parsed" => eos
      BY <2>9
    <3>. QED  BY <2>9, <2>16, <3>1, Zenon
  <2>. USE <2>1, <2>3, <2>4, <2>5, <2>7, <2>8, <2>9, <2>10
  <2>11. TypeOK'
    BY DEF TypeOK
  <2>12. FlagInv'
    BY DEF TypeOK, FlagInv
  <2>13. OrderInv'
    <3>1. Len(read') + Len(fed') = input'.next - 1
      <4>1. PICK a \in Nat, x \in Nat : a = Len(fed) /\ x = input.next /\ a = x - 1
        OBVIOUS
      <4>2. Len(fed') = a + n /\ Len(read') = 0 /\ input'.next = x + n
        BY <4>1
      <4>3. 0 + (a + n) = (x + n) - 1
        BY <4>1, Advance
      <4>. QED  BY <4>2, <4>3, Zenon
    <3>2. input'.next <= r'.body + 1
      <4>1. n <= r.body - input.next + 1
        BY Zenon DEF Left
      <4>2. input.next + n <= r.body + 1
        BY <4>1, StaysWithin, Zenon
      <4>. QED  BY <4>2, Zenon
    <3>3. \A i \in 1..Len(read') : read'[i] = i
      OBVIOUS
    <3>. QED  BY <3>1, <3>2, <3>3 DEF OrderInv
  <2>14. FrameInv'
    BY DEF TypeOK, FlagInv, OrderInv, FrameInv, Left, Frames, Inputs
  <2>15. PostInv'
    <3>1. frame'.op \in {"POST", "FILES"}
      BY DEF PostInv
    <3>2. pc' = "parsed" => Left' = 0
      BY <2>17
    <3>. QED  BY <3>1, <3>2 DEF PostInv
  <2>. QED  BY <2>11, <2>12, <2>13, <2>14, <2>15
<1>16. ASSUME NEW p \in {"POST", "FILES"}, parsePost(p) PROVE BodyInv'
  <2>1. ASSUME NEW v \in Lists, SetPromise(p, v) PROVE POST' \in Promises /\ FILES' \in Promises
    BY <2>1 DEF SetPromise, TypeOK
  <2>2. /\ pc = "R"
        /\ UNCHANGED <<served, r, child, input, readStarted, read, fed>>
    BY <1>16 DEF parsePost, rest
  <2>3. CASE /\ r = Null \/ readStarted
             /\ SetPromise(p, Nil)
             /\ UNCHANGED <<parsing, pc, frame>>
    <3>0. POST' \in Promises /\ FILES' \in Promises
      BY <2>1, <2>3
    <3>. USE <2>2, <2>3, <3>0 DEF parsing
    <3>1. TypeOK'
      BY DEF TypeOK
    <3>2. FlagInv'
      BY DEF TypeOK, FlagInv
    <3>3. OrderInv'
      BY DEF TypeOK, FlagInv, OrderInv, Inputs
    <3>4. FrameInv'
      BY DEF TypeOK, FlagInv, OrderInv, FrameInv, Left, Frames, Inputs
    <3>5. PostInv'
      BY DEF TypeOK, FlagInv, OrderInv, PostInv, Left, Lists, Inputs
    <3>. QED  BY <3>1, <3>2, <3>3, <3>4, <3>5
  <2>4. CASE /\ r # Null /\ ~readStarted /\ postParsed
             /\ SetPromise(p, Value(p, postTable, filesVar))
             /\ UNCHANGED <<parsing, pc, frame>>
    <3>6. Value(p, postTable, filesVar) \in Lists
      BY <2>2, <2>4 DEF Value, PostInv
    <3>0. POST' \in Promises /\ FILES' \in Promises
      BY <2>1, <2>4, <3>6
    <3>. USE <2>2, <2>4, <3>0 DEF parsing
    <3>1. TypeOK'
      BY DEF TypeOK
    <3>2. FlagInv'
      BY DEF TypeOK, FlagInv
    <3>3. OrderInv'
      BY DEF TypeOK, FlagInv, OrderInv, Inputs
    <3>4. FrameInv'
      BY DEF TypeOK, FlagInv, OrderInv, FrameInv, Left, Frames, Inputs
    <3>5. PostInv'
      BY DEF TypeOK, FlagInv, OrderInv, PostInv, Left, Lists, Inputs
    <3>. QED  BY <3>1, <3>2, <3>3, <3>4, <3>5
  <2>5. CASE /\ r # Null /\ ~readStarted /\ ~postParsed
             /\ postTable' = Null /\ filesVar' = Nil
             /\ SetPromise(p, Nil)
             /\ UNCHANGED <<postParsed, pc, frame>>
    <3>0. POST' \in Promises /\ FILES' \in Promises
      BY <2>1, <2>5
    <3>. USE <2>2, <2>5, <3>0
    <3>1. TypeOK'
      BY DEF TypeOK
    <3>2. FlagInv'
      BY DEF TypeOK, FlagInv
    <3>3. OrderInv'
      BY DEF TypeOK, FlagInv, OrderInv, Inputs
    <3>4. FrameInv'
      BY DEF TypeOK, FlagInv, OrderInv, FrameInv, Left, Frames, Inputs
    <3>5. PostInv'
      BY DEF TypeOK, FlagInv, OrderInv, PostInv, Left, Lists, Inputs
    <3>. QED  BY <3>1, <3>2, <3>3, <3>4, <3>5
  <2>6. CASE /\ r # Null /\ ~readStarted /\ ~postParsed
             /\ postParsed' = TRUE /\ postTable' = Nil
             /\ pc' = "parsing" /\ frame' = Frame(p, 0, 0, 0, 0)
             /\ UNCHANGED <<filesVar, promises>>
    <3>6. frame' \in Frames /\ frame'.op = p
      BY <2>6 DEF Frame, Frames, Ops
    <3>7. /\ fed = <<>> /\ Len(fed) = 0
          /\ postTable' \in Lists /\ postTable'.bytes = 0
      BY <2>6 DEF FlagInv, Nil, List, Lists
    <3>8. /\ r # Null /\ ~readStarted' /\ postParsed' = TRUE /\ pc' = "parsing"
          /\ UNCHANGED <<filesVar, POST, FILES>>
      BY <2>2, <2>6 DEF promises
    <3>. USE <2>2, <3>6, <3>7, <3>8
    <3>1. TypeOK'
      BY DEF TypeOK
    <3>2. FlagInv'
      BY DEF TypeOK, FlagInv
    <3>3. OrderInv'
      BY DEF TypeOK, FlagInv, OrderInv, Inputs
    <3>4. FrameInv'
      BY DEF TypeOK, FlagInv, OrderInv, FrameInv, Left, Frames, Inputs
    <3>5. PostInv'
      BY DEF TypeOK, FlagInv, OrderInv, PostInv, Left, Lists, Inputs
    <3>. QED  BY <3>1, <3>2, <3>3, <3>4, <3>5
  <2>. QED  BY <1>16, <2>3, <2>4, <2>5, <2>6 DEF parsePost
<1>17. CASE ParseEnds
  <2>1. PICK v \in {List(Len(fed)), Nil} :
          filesVar' = v /\ SetPromise(frame.op, Value(frame.op, postTable, v))
    BY <1>17 DEF ParseEnds
  <2>2. /\ pc = "parsed" /\ pc' = "R" /\ frame' = NoFrame
        /\ UNCHANGED <<served, r, child, input, postParsed, postTable, readStarted,
                       read, fed>>
    BY <1>17 DEF ParseEnds, rest
  <2>3. /\ r # Null /\ postTable \in Lists /\ postTable.bytes = Len(fed)
        /\ read = <<>>
        /\ input.failed \/ Left = 0
    BY <2>2 DEF PostInv, FlagInv
  <2>4. /\ Len(fed) = input.next - 1 /\ Len(fed) \in 0..MaxBody
        /\ r.body \in 0..MaxBody
    <3>1. /\ input.next \in 1..(MaxBody + 1) /\ r.body \in 0..MaxBody
          /\ Len(read) = 0 /\ Len(fed) \in Nat
      BY <2>3 DEF TypeOK, Inputs
    <3>2. Len(read) + Len(fed) = input.next - 1
      BY <2>3 DEF OrderInv
    <3>. QED  BY <3>1, <3>2
  <2>5. filesVar' \in Lists /\ v \in Lists
    <3>1. v = List(Len(fed)) \/ v = Nil
      OBVIOUS
    <3>2. List(Len(fed)) \in Lists
      BY <2>4 DEF List, Lists
    <3>. QED  BY <2>1, <3>1, <3>2
  <2>6. Value(frame.op, postTable, v) \in Lists
    BY <2>3, <2>5 DEF Value
  <2>7. POST' \in Promises /\ FILES' \in Promises
    BY <2>1, <2>6 DEF SetPromise, TypeOK
  <2>8. input.failed \/ postTable.bytes = r.body
    BY <2>3, <2>4 DEF Left, TypeOK, Inputs
  <2>. USE <2>2, <2>3, <2>5, <2>7, <2>8
  <2>11. TypeOK'
    BY DEF TypeOK
  <2>12. FlagInv'
    BY DEF TypeOK, FlagInv
  <2>13. OrderInv'
    BY DEF TypeOK, FlagInv, OrderInv, Inputs
  <2>14. FrameInv'
    BY DEF TypeOK, FlagInv, OrderInv, FrameInv, Left, Frames, Inputs
  <2>15. PostInv'
    BY DEF PostInv, FlagInv, Left
  <2>. QED  BY <2>11, <2>12, <2>13, <2>14, <2>15
<1>18. CASE UNCHANGED vars
  <2>. USE <1>18 DEF vars
  <2>1. TypeOK'
    BY DEF TypeOK
  <2>2. FlagInv'
    BY DEF TypeOK, FlagInv
  <2>3. OrderInv'
    BY DEF TypeOK, FlagInv, OrderInv, Inputs
  <2>4. FrameInv'
    BY DEF TypeOK, FlagInv, OrderInv, FrameInv, Left, Frames, Inputs
  <2>5. PostInv'
    BY DEF TypeOK, FlagInv, OrderInv, PostInv, Left, Lists, Inputs
  <2>. QED  BY <2>1, <2>2, <2>3, <2>4, <2>5
<1>. QED
  BY <1>1, <1>2, <1>3, <1>4, <1>5, <1>6, <1>7, <1>8, <1>9, <1>10,
     <1>11, <1>12, <1>13, <1>14, <1>15, <1>16, <1>17, <1>18 DEF Next, RCode, InCall

\* The invariant holds in every state.
LEMMA BodyInvariant == Spec => []BodyInv
  BY InitInv, NextInv, PTL DEF Spec

-----------------------------------------------------------------------------
(* What it is for.                                                         *)

\* The type of every variable, for bodies of any length.
THEOREM TypeOKCorrect == Spec => []TypeOK
<1>1. BodyInv => TypeOK
  BY DEF BodyInv
<1>. QED  BY <1>1, BodyInvariant, PTL

\* R's reads and the libapreq2 parser never share a body: readStarted and
\* postParsed, checked by ReadRequestBody and parsePost, exclude each other.
THEOREM OneReaderCorrect == Spec => []OneReader
<1>1. BodyInv => OneReader
  BY DEF BodyInv, FlagInv, OneReader
<1>. QED  BY <1>1, BodyInvariant, PTL

\* Neither loop, of ReadRequestBody or of parsePost, loses, duplicates or reorders
\* a byte of the body, however the filters cut it up.
THEOREM InOrderCorrect == Spec => []InOrder
<1>1. ASSUME BodyInv PROVE InOrder
  <2>. SUFFICES ASSUME r # Null
                PROVE  read \o fed = [i \in 1..(input.next - 1) |-> i]
    BY DEF InOrder
  <2>1. /\ read \in Seq(1..MaxBody) /\ fed \in Seq(1..MaxBody)
        /\ input.next \in Nat /\ input.next >= 1
    BY <1>1, RequestBodyAssumption DEF BodyInv, TypeOK, Inputs
  <2>2. /\ \A i \in 1..Len(read) : read[i] = i
        /\ \A i \in 1..Len(fed) : fed[i] = i
        /\ Len(read) + Len(fed) = input.next - 1
    BY <1>1 DEF BodyInv, OrderInv
  <2>. DEFINE t == [i \in 1..(input.next - 1) |-> i]
  <2>3. t \in Seq(Nat) /\ Len(t) = input.next - 1
    BY <2>1
  <2>4. CASE read = <<>>
    <3>1. read \o fed = fed
      BY <2>1, <2>4, ConcatEmptySeq
    <3>2. Len(fed) = input.next - 1 /\ fed \in Seq(Nat)
      BY <2>1, <2>2, <2>4
    <3>3. fed = t
      BY <2>1, <2>2, <2>3, <3>2
    <3>. QED  BY <3>1, <3>3
  <2>5. CASE fed = <<>>
    <3>1. read \o fed = read
      BY <2>1, <2>5, ConcatEmptySeq
    <3>2. Len(read) = input.next - 1 /\ read \in Seq(Nat)
      BY <2>1, <2>2, <2>5
    <3>3. read = t
      BY <2>1, <2>2, <2>3, <3>2
    <3>. QED  BY <3>1, <3>3
  <2>. QED  BY <1>1, <2>4, <2>5 DEF BodyInv, FlagInv
<1>. QED  BY <1>1, BodyInvariant, PTL

\* No read writes past the buffer that receiveBin gave it, although the buffer
\* grows between two reads and is filled behind what it already holds.
THEOREM InBufferCorrect == Spec => []InBuffer
<1>1. ASSUME BodyInv PROVE InBuffer
  <2>1. frame \in Frames
    BY <1>1 DEF BodyInv, TypeOK
  <2>. QED  BY <1>1, <2>1 DEF BodyInv, FrameInv, InBuffer, Frames
<1>. QED  BY <1>1, BodyInvariant, PTL

\* receiveBin() returns the whole rest of the body, unless a read failed or the
\* body went to the parser: its buffer always grows, so that a read which returns
\* nothing met the end of the body.
THEOREM ReceivesAllCorrect == Spec => []ReceivesAll
<1>1. ASSUME BodyInv PROVE ReceivesAll
  <2>1. frame \in Frames
    BY <1>1 DEF BodyInv, TypeOK
  <2>. QED  BY <1>1, <2>1 DEF BodyInv, FrameInv, ReceivesAll, Frames
<1>. QED  BY <1>1, BodyInvariant, PTL

\* POST and FILES are built from the whole body, unless a read failed: no order of
\* calls leaves R with the table of a parse that stopped early.
THEOREM PostCompleteCorrect == Spec => []PostComplete
<1>1. BodyInv => PostComplete
  BY DEF BodyInv, PostInv, PostComplete
<1>. QED  BY <1>1, BodyInvariant, PTL
=============================================================================
