------------------------ MODULE StreamingBodyProofs ------------------------
(***************************************************************************)
(* Theorems about StreamingBody: its safety properties hold for every      *)
(* length, leftover, maximum and chunk size, whatever the client sends and *)
(* whichever calls the handler makes, drops or sees fail.  They are proved *)
(* as one inductive invariant.                                             *)
(***************************************************************************)
EXTENDS StreamingBody, TLAPS

\* Every byte taken was handed out, or lost with a call, or is held by the call.
Accounted ==
    /\ consumed = passed + dropped + call.buf
    /\ call.fn # "bytes" => call.buf = 0 /\ call.max = None

\* The leftover goes first, and at once.
LeftoverFirst ==
    \/ leftover = head.left /\ consumed = 0
    \/ leftover = 0 /\ consumed >= head.left

\* A Body whose client has not ended the stream is without one only if it was
\* made with everything in memory.
StreamKept == line = "open" /\ ~stream => head.cl = head.left

BodyInv ==
    /\ TypeOK /\ Accounted /\ LeftoverFirst /\ StreamKept
    /\ StaysInBody /\ CapHonoured /\ EndedWhenWhole

LEMMA WithinDifference ==
    ASSUME NEW a \in Nat, NEW b \in Nat, NEW c \in Nat, a + b <= c
    PROVE  a \in 0..(c - b)
<1>1. a <= c - b
    OBVIOUS
<1>2. QED
    BY <1>1

\* What TypeOK says of the numbers.
LEMMA Numbers ==
    ASSUME BodyAssumption, TypeOK
    PROVE  /\ head.cl \in Nat \cup {None} /\ head.left \in Nat
           /\ sent \in Nat /\ leftover \in Nat /\ consumed \in Nat
           /\ consumed + leftover <= sent
           /\ passed \in Nat /\ dropped \in Nat
           /\ call.buf \in Nat /\ call.max \in Nat \cup {None}
           /\ result.n \in Nat /\ result.max \in Nat \cup {None}
<1>1. head \in [cl: Lengths, left: 0..MaxLeftover, cap: BodyCaps]
    BY DEF TypeOK
<1>2. Lengths \subseteq Nat \cup {None} /\ Caps \subseteq Nat \cup {None}
      /\ MaxLeftover \in Nat /\ MaxSend \in Nat
    BY DEF BodyAssumption
<1>3. head.cl \in Nat \cup {None} /\ head.left \in Nat
    BY <1>1, <1>2
<1>4. sent \in Nat /\ leftover \in Nat
    BY <1>2, <1>3 DEF TypeOK
<1>5. consumed \in Nat /\ consumed + leftover <= sent
    BY <1>4 DEF TypeOK
<1>6. passed \in Nat /\ dropped \in Nat
    BY <1>5 DEF TypeOK
<1>7. call.buf \in Nat /\ call.max \in Nat \cup {None}
    BY <1>2, <1>5 DEF TypeOK
<1>8. result.n \in Nat /\ result.max \in Nat \cup {None}
    BY <1>2, <1>5 DEF TypeOK
<1>9. QED
    BY <1>3, <1>4, <1>5, <1>6, <1>7, <1>8

LEMMA InitInv == BodyAssumption /\ Init => BodyInv
<1> SUFFICES ASSUME BodyAssumption, Init PROVE BodyInv
    OBVIOUS
<1>1. /\ MaxLeftover \in Nat /\ MaxSend \in Nat /\ MaxLeftover <= MaxSend
      /\ None \notin Nat
    BY DEF BodyAssumption
<1>2. head.left \in 0..MaxLeftover /\ head.left \in Nat /\ sent = head.left
      /\ leftover = head.left /\ consumed = 0
    BY <1>1 DEF Init
<1>3. TypeOK
  <2>1. sent \in 0..MaxSend /\ 0 \in 0..(sent - leftover) /\ 0 \in 0..consumed
      BY <1>1, <1>2
  <2>2. call \in [fn: {"none", "read_chunk", "bytes"}, max: Caps \cup {None}, buf: 0..consumed]
      BY <2>1 DEF Init, NoCall
  <2>3. result \in [fn: {"none", "read_chunk", "bytes"}, max: Caps \cup {None},
                    how: {"none", "some", "ok", "err"}, n: 0..consumed]
      BY <2>1 DEF Init
  <2>4. QED
      BY <1>2, <2>1, <2>2, <2>3 DEF Init, TypeOK
<1>4. Accounted /\ LeftoverFirst /\ StreamKept
    BY <1>2 DEF Init, Accounted, LeftoverFirst, StreamKept, NoCall
<1>5. StaysInBody /\ CapHonoured /\ EndedWhenWhole
    BY <1>1, <1>2 DEF Init, StaysInBody, CapHonoured, EndedWhenWhole, NoCall, Over
<1>6. QED
    BY <1>3, <1>4, <1>5 DEF BodyInv
-----------------------------------------------------------------------------
\* What a step does that takes n bytes and hands them to Chunk.
Takes(n) ==
    /\ n \in Nat /\ Chunk(n)
    /\ consumed' = consumed + n
    /\ leftover' \in {0, head.left} /\ consumed' + leftover' <= sent
    /\ UNCHANGED <<head, sent, line, stream>>

\* Chunk accounts for the bytes, and keeps to the maximum of the call.
LEMMA TakesKeeps ==
    ASSUME BodyAssumption, BodyInv, NEW n, Takes(n)
    PROVE  TypeOK' /\ Accounted' /\ StreamKept' /\ CapHonoured' /\ EndedWhenWhole'
<1> USE DEF Takes
<1>0. /\ TypeOK /\ Accounted /\ StreamKept /\ CapHonoured /\ EndedWhenWhole
      /\ None \notin Nat
    BY DEF BodyInv, BodyAssumption
<1>1. /\ sent \in Nat /\ consumed \in Nat /\ passed \in Nat /\ dropped \in Nat
      /\ call.buf \in Nat /\ result.n \in Nat /\ head.left \in Nat
      /\ result.n <= consumed /\ consumed' \in Nat
      /\ call.max \in Nat \cup {None} /\ head.cl \in Nat \cup {None}
      /\ leftover' \in Nat /\ consumed' \in 0..(sent - leftover')
    <2>1. /\ sent \in Nat /\ consumed \in Nat /\ passed \in Nat /\ dropped \in Nat
          /\ call.buf \in Nat /\ result.n \in Nat /\ head.left \in Nat
          /\ call.max \in Nat \cup {None} /\ head.cl \in Nat \cup {None}
        BY <1>0, Numbers
    <2>2. result.n <= consumed
        BY <1>0, <2>1 DEF TypeOK
    <2>3. /\ n \in Nat /\ consumed' = consumed + n
          /\ leftover' \in {0, head.left} /\ consumed' + leftover' <= sent
        OBVIOUS
    <2> HIDE DEF Takes
    <2>4. leftover' \in Nat /\ consumed' \in Nat
        BY <2>1, <2>3
    <2>5. consumed' \in 0..(sent - leftover')
        BY <2>1, <2>3, <2>4, WithinDifference
    <2>6. QED
        BY <2>1, <2>2, <2>4, <2>5
<1>2. /\ call.fn \in {"none", "read_chunk", "bytes"} /\ call.max \in Caps \cup {None}
      /\ result \in [fn: {"none", "read_chunk", "bytes"}, max: Caps \cup {None},
                     how: {"none", "some", "ok", "err"}, n: 0..consumed]
      /\ call = [fn |-> call.fn, max |-> call.max, buf |-> call.buf]
    BY <1>0 DEF TypeOK
<1>3. CASE /\ call.fn = "read_chunk" /\ Return("some", n)
           /\ passed' = passed + n /\ UNCHANGED dropped
  <2>1. /\ call' = NoCall /\ call.buf = 0 /\ call'.buf = 0
        /\ call'.max = None /\ call'.fn = "none"
        /\ result' = [fn |-> "read_chunk", max |-> call.max, how |-> "some", n |-> n]
      BY <1>0, <1>3 DEF Return, NoCall, Accounted
  <2>2. consumed' = passed' + dropped' + call'.buf /\ passed' \in Nat
      BY <1>0, <1>1, <1>3, <2>1 DEF Accounted
  <2>3. passed' \in 0..consumed' /\ dropped' \in 0..consumed' /\ n \in 0..consumed'
      BY <1>1, <1>3, <2>1, <2>2
  <2>4. TypeOK'
    <3>1. call' \in [fn: {"none", "read_chunk", "bytes"}, max: Caps \cup {None}, buf: 0..consumed']
        BY <1>1, <2>1 DEF NoCall
    <3>2. result' \in [fn: {"none", "read_chunk", "bytes"}, max: Caps \cup {None},
                       how: {"none", "some", "ok", "err"}, n: 0..consumed']
        BY <1>2, <2>1, <2>3
    <3>3. QED
        BY <1>0, <1>1, <2>3, <3>1, <3>2 DEF TypeOK
  <2>5. Accounted' /\ StreamKept'
      BY <1>0, <2>1, <2>2 DEF Accounted, StreamKept
  <2>6. CapHonoured' /\ EndedWhenWhole'
      BY <2>1 DEF CapHonoured, EndedWhenWhole, Over
  <2>7. QED
      BY <2>4, <2>5, <2>6
<1>4. CASE /\ call.fn = "bytes" /\ Return("err", 0)
           /\ dropped' = dropped + call.buf + n /\ UNCHANGED passed
  <2>1. /\ call' = NoCall /\ call'.buf = 0 /\ call'.max = None /\ call'.fn = "none"
        /\ result' = [fn |-> "bytes", max |-> call.max, how |-> "err", n |-> 0]
      BY <1>4 DEF Return, NoCall
  <2>2. consumed' = passed' + dropped' + call'.buf /\ dropped' \in Nat
      BY <1>0, <1>1, <1>4, <2>1 DEF Accounted
  <2>3. passed' \in 0..consumed' /\ dropped' \in 0..consumed' /\ 0 \in 0..consumed'
      BY <1>1, <1>4, <2>1, <2>2
  <2>4. TypeOK'
    <3>1. call' \in [fn: {"none", "read_chunk", "bytes"}, max: Caps \cup {None}, buf: 0..consumed']
        BY <1>1, <2>1 DEF NoCall
    <3>2. result' \in [fn: {"none", "read_chunk", "bytes"}, max: Caps \cup {None},
                       how: {"none", "some", "ok", "err"}, n: 0..consumed']
        BY <1>2, <2>1, <2>3
    <3>3. QED
        BY <1>0, <1>1, <2>3, <3>1, <3>2 DEF TypeOK
  <2>5. Accounted' /\ StreamKept'
      BY <1>0, <2>1, <2>2 DEF Accounted, StreamKept
  <2>6. CapHonoured' /\ EndedWhenWhole'
      BY <2>1 DEF CapHonoured, EndedWhenWhole, Over
  <2>7. QED
      BY <2>4, <2>5, <2>6
<1>5. CASE /\ call.fn = "bytes" /\ ~Exceeds(call.buf, n)
           /\ call' = [call EXCEPT !.buf = call.buf + n]
           /\ UNCHANGED <<passed, dropped, result>>
  <2>1. /\ call' = [fn |-> "bytes", max |-> call.max, buf |-> call.buf + n]
        /\ call'.buf = call.buf + n /\ call'.max = call.max /\ call'.fn = "bytes"
      BY <1>2, <1>5
  <2>2. consumed' = passed' + dropped' + call'.buf /\ call'.buf \in Nat
      BY <1>0, <1>1, <1>5, <2>1 DEF Accounted
  <2>3. /\ passed' \in 0..consumed' /\ dropped' \in 0..consumed'
        /\ call'.buf \in 0..consumed' /\ 0..consumed \subseteq 0..consumed'
      BY <1>1, <1>5, <2>2
  <2>4. TypeOK'
      BY <1>0, <1>1, <1>2, <1>5, <2>1, <2>3 DEF TypeOK
  <2>5. Accounted' /\ StreamKept'
      BY <1>0, <2>1, <2>2 DEF Accounted, StreamKept
  <2>6. CapHonoured'
      BY <1>0, <1>5, <2>1 DEF CapHonoured, Exceeds, Over
  <2>7. EndedWhenWhole'
      BY <1>0, <1>5 DEF EndedWhenWhole
  <2>8. QED
      BY <2>4, <2>5, <2>6, <2>7
<1>6. QED
    BY <1>3, <1>4, <1>5 DEF Chunk, Taken

\* A call that ends without an error hands out what it has collected, and that is
\* all there is when the Body is complete and no earlier call lost any.
LEMMA EndKeeps ==
    ASSUME BodyAssumption, BodyInv, End,
           line = "open" => Complete \/ head.cl = None,
           UNCHANGED <<head, sent, line, leftover, consumed>>,
           stream' \in BOOLEAN, StreamKept'
    PROVE  BodyInv'
<1>0. /\ TypeOK /\ Accounted /\ LeftoverFirst /\ StaysInBody /\ CapHonoured
      /\ None \notin Nat
    BY DEF BodyInv, BodyAssumption
<1>1. /\ consumed \in Nat /\ passed \in Nat /\ dropped \in Nat /\ call.buf \in Nat
      /\ head.cl \in Nat \cup {None}
    BY <1>0, Numbers
<1>2. /\ call.fn \in {"none", "read_chunk", "bytes"} /\ call.max \in Caps \cup {None}
      /\ call.buf \in 0..consumed
    BY <1>0 DEF TypeOK
<1>3. /\ call' = NoCall /\ call'.buf = 0 /\ call'.max = None /\ call'.fn = "none"
      /\ passed' = passed + call.buf /\ dropped' = dropped
      /\ result' = [fn |-> call.fn, max |-> call.max,
                    how |-> IF call.fn = "bytes" THEN "ok" ELSE "none", n |-> call.buf]
    BY DEF End, Return, NoCall
<1>4. consumed' = passed' + dropped' + call'.buf /\ passed' \in Nat
    BY <1>0, <1>1, <1>3 DEF Accounted
<1>5. passed' \in 0..consumed' /\ dropped' \in 0..consumed' /\ 0 \in 0..consumed'
    BY <1>1, <1>3, <1>4
<1>6. TypeOK'
  <2>1. call' \in [fn: {"none", "read_chunk", "bytes"}, max: Caps \cup {None}, buf: 0..consumed']
      BY <1>3, <1>5 DEF NoCall
  <2>2. result' \in [fn: {"none", "read_chunk", "bytes"}, max: Caps \cup {None},
                     how: {"none", "some", "ok", "err"}, n: 0..consumed']
      BY <1>2, <1>3
  <2>3. QED
      BY <1>0, <1>5, <2>1, <2>2 DEF TypeOK
<1>7. Accounted' /\ LeftoverFirst' /\ StaysInBody'
    BY <1>0, <1>3, <1>4 DEF Accounted, LeftoverFirst, StaysInBody
<1>8. CapHonoured'
    BY <1>0, <1>3 DEF CapHonoured, Over
<1>9. EndedWhenWhole'
  <2>1. line = "open" /\ head.cl # None /\ dropped' = 0 => passed' >= head.cl
      BY <1>1, <1>3, <1>4 DEF Complete
  <2>2. QED
      BY <2>1 DEF EndedWhenWhole
<1>10. QED
    BY <1>6, <1>7, <1>8, <1>9 DEF BodyInv

\* A call that fails, or that the handler drops, takes along what it has collected.
LEMMA LossKeeps ==
    ASSUME BodyAssumption, BodyInv,
           call' = NoCall, dropped' = dropped + call.buf,
           \/ Return("err", 0)
           \/ UNCHANGED result,
           line' \in {"open", "eof", "reset"}, line' = "open" => line = "open",
           UNCHANGED <<head, sent, leftover, consumed, stream, passed>>
    PROVE  BodyInv'
<1>0. /\ TypeOK /\ Accounted /\ LeftoverFirst /\ StreamKept
      /\ StaysInBody /\ CapHonoured /\ EndedWhenWhole
      /\ None \notin Nat
    BY DEF BodyInv, BodyAssumption
<1>1. /\ consumed \in Nat /\ passed \in Nat /\ dropped \in Nat /\ call.buf \in Nat
    BY <1>0, Numbers
<1>2. /\ call.fn \in {"none", "read_chunk", "bytes"} /\ call.max \in Caps \cup {None}
    BY <1>0 DEF TypeOK
<1>3. call'.buf = 0 /\ call'.max = None /\ call'.fn = "none"
    BY DEF NoCall
<1>4. consumed' = passed' + dropped' + call'.buf /\ dropped' \in Nat
    BY <1>0, <1>1, <1>3 DEF Accounted
<1>5. passed' \in 0..consumed' /\ dropped' \in 0..consumed' /\ 0 \in 0..consumed'
    BY <1>1, <1>3, <1>4
<1>6. \/ result' = result
      \/ result' = [fn |-> call.fn, max |-> call.max, how |-> "err", n |-> 0]
    BY DEF Return
<1>7. TypeOK'
  <2>1. call' \in [fn: {"none", "read_chunk", "bytes"}, max: Caps \cup {None}, buf: 0..consumed']
      BY <1>5 DEF NoCall
  <2>2. result' \in [fn: {"none", "read_chunk", "bytes"}, max: Caps \cup {None},
                     how: {"none", "some", "ok", "err"}, n: 0..consumed']
      BY <1>0, <1>2, <1>5, <1>6 DEF TypeOK
  <2>3. QED
      BY <1>0, <1>5, <2>1, <2>2 DEF TypeOK
<1>8. Accounted' /\ LeftoverFirst' /\ StreamKept' /\ StaysInBody'
    BY <1>0, <1>3, <1>4 DEF Accounted, LeftoverFirst, StreamKept, StaysInBody
<1>9. CapHonoured'
    BY <1>0, <1>3, <1>6 DEF CapHonoured, Over
<1>10. EndedWhenWhole'
  <2>1. dropped' = 0 => dropped = 0
      BY <1>1
  <2>2. CASE result' = result
      BY <1>0, <2>1, <2>2 DEF EndedWhenWhole
  <2>3. CASE result' = [fn |-> call.fn, max |-> call.max, how |-> "err", n |-> 0]
      BY <2>3 DEF EndedWhenWhole
  <2>4. QED
      BY <1>6, <2>2, <2>3
<1>11. QED
    BY <1>7, <1>8, <1>9, <1>10 DEF BodyInv
-----------------------------------------------------------------------------
LEMMA StepInv ==
    ASSUME BodyAssumption, BodyInv, [Next]_vars
    PROVE  BodyInv'
<1>0. /\ TypeOK /\ Accounted /\ LeftoverFirst /\ StreamKept
      /\ StaysInBody /\ CapHonoured /\ EndedWhenWhole
      /\ None \notin Nat /\ MaxSend \in Nat /\ ChunkSize \in Nat \ {0}
    BY DEF BodyInv, BodyAssumption
<1>1. /\ consumed \in Nat /\ leftover \in Nat /\ sent \in Nat /\ head.left \in Nat
      /\ consumed + leftover <= sent
      /\ head.cl \in Nat \cup {None} /\ call.buf \in Nat
    BY <1>0, Numbers
<1>2. CASE UNCHANGED vars
    BY <1>0, <1>2 DEF vars, BodyInv, TypeOK, Accounted, LeftoverFirst, StreamKept,
           StaysInBody, CapHonoured, EndedWhenWhole
<1>3. CASE ClientSend
  <2>1. sent' \in 0..MaxSend /\ consumed \in 0..(sent' - leftover)
    <3>1. sent' \in Nat /\ sent' <= MaxSend /\ consumed + leftover <= sent'
        BY <1>0, <1>1, <1>3 DEF ClientSend, TypeOK
    <3>2. consumed \in 0..(sent' - leftover)
        BY <1>1, <3>1, WithinDifference
    <3>3. QED
        BY <1>0, <3>1, <3>2
  <2>2. TypeOK'
      BY <1>0, <1>3, <2>1 DEF ClientSend, TypeOK
  <2>3. QED
      BY <1>0, <1>3, <2>2 DEF ClientSend, BodyInv, Accounted, LeftoverFirst, StreamKept,
             StaysInBody, CapHonoured, EndedWhenWhole
<1>4. CASE ClientEnd
    BY <1>0, <1>4 DEF ClientEnd, BodyInv, TypeOK, Accounted, LeftoverFirst, StreamKept,
           StaysInBody, CapHonoured, EndedWhenWhole
<1>5. CASE CallReadChunk
  <2>1. /\ call' = [fn |-> "read_chunk", max |-> None, buf |-> 0] /\ call.buf = 0
        /\ 0 \in 0..consumed
      BY <1>1, <1>5 DEF CallReadChunk, NoCall
  <2>2. TypeOK'
      BY <1>0, <1>5, <2>1 DEF CallReadChunk, TypeOK
  <2>3. Accounted' /\ CapHonoured'
      BY <1>0, <1>5, <2>1 DEF CallReadChunk, Accounted, CapHonoured, Over
  <2>4. QED
      BY <1>0, <1>5, <2>2, <2>3 DEF CallReadChunk, BodyInv, LeftoverFirst, StreamKept,
             StaysInBody, EndedWhenWhole
<1>6. ASSUME NEW max \in Caps, CallBytes(max) PROVE BodyInv'
  <2>0. call = NoCall /\ call.buf = 0 /\ 0 \in 0..consumed /\ max \in Nat \cup {None}
      BY <1>1, <1>6 DEF CallBytes, NoCall, BodyAssumption
  <2>1. CASE /\ result' = [fn |-> "bytes", max |-> max, how |-> "err", n |-> 0]
             /\ UNCHANGED call
    <3>1. TypeOK'
        BY <1>0, <1>6, <2>0, <2>1 DEF CallBytes, TypeOK
    <3>2. CapHonoured' /\ EndedWhenWhole'
        BY <1>0, <2>1 DEF CapHonoured, EndedWhenWhole, Over
    <3>3. QED
        BY <1>0, <1>6, <2>1, <3>1, <3>2 DEF CallBytes, BodyInv, Accounted, LeftoverFirst,
               StreamKept, StaysInBody
  <2>2. CASE /\ call' = [fn |-> "bytes", max |-> max, buf |-> 0]
             /\ UNCHANGED result
    <3>1. TypeOK'
        BY <1>0, <1>6, <2>0, <2>2 DEF CallBytes, TypeOK
    <3>2. Accounted' /\ EndedWhenWhole'
        BY <1>0, <1>6, <2>0, <2>2 DEF CallBytes, Accounted, EndedWhenWhole
    <3>3. CapHonoured'
        BY <1>0, <2>0, <2>2 DEF CapHonoured, Over
    <3>4. QED
        BY <1>0, <1>6, <3>1, <3>2, <3>3 DEF CallBytes, BodyInv, LeftoverFirst,
               StreamKept, StaysInBody
  <2>3. QED
      BY <1>6, <2>1, <2>2 DEF CallBytes
<1>7. CASE Cancel
  <2>1. line' = line /\ line \in {"open", "eof", "reset"}
      BY <1>0, <1>7 DEF Cancel, TypeOK
  <2>2. QED
      BY <1>7, <2>1, LossKeeps DEF Cancel
<1>8. CASE ReadError
  <2>1. call' = NoCall /\ Return("err", 0) /\ dropped' = dropped + call.buf
        /\ passed' = passed
      BY <1>8 DEF ReadError, Error, Return
  <2>2. QED
      BY <1>8, <2>1, LossKeeps DEF ReadError, Reads
<1>9. CASE TakeLeftover
  <2>1. leftover = head.left /\ consumed = 0 /\ leftover' = 0
      BY <1>0, <1>1, <1>9 DEF TakeLeftover, LeftoverFirst, Taken
  <2>2. consumed' = consumed + leftover /\ consumed' + leftover' <= sent
      BY <1>1, <1>9, <2>1 DEF TakeLeftover
  <2>3. Takes(leftover)
      BY <1>1, <1>9, <2>1, <2>2 DEF TakeLeftover, Takes
  <2>4. LeftoverFirst' /\ StaysInBody'
      BY <1>0, <1>1, <1>9, <2>1, <2>2 DEF TakeLeftover, LeftoverFirst, StaysInBody
  <2>5. QED
      BY <2>3, <2>4, TakesKeeps DEF BodyInv
<1>10. CASE ReadSome
  <2> DEFINE n == Least(Avail, Remaining)
  <2>1. Avail \in Nat /\ Avail > 0 /\ leftover = 0 /\ Avail = sent - consumed
      BY <1>1, <1>10 DEF ReadSome, Reads, Avail
  <2>2. /\ Remaining \in Nat /\ Remaining > 0
        /\ head.cl # None => Remaining <= head.cl - consumed
      BY <1>0, <1>1, <1>10 DEF ReadSome, Reads, Remaining, Complete, Least
  <2>3. /\ n \in Nat /\ n <= Avail
        /\ head.cl # None => consumed + n <= head.cl
      BY <1>1, <2>1, <2>2 DEF Least
  <2> HIDE DEF n
  <2>4. /\ consumed' = consumed + n /\ Chunk(n)
        /\ UNCHANGED <<head, sent, line, leftover, stream>>
      BY <1>10 DEF ReadSome, n
  <2>5. Takes(n)
      BY <1>1, <2>1, <2>3, <2>4 DEF Takes
  <2>6. LeftoverFirst' /\ StaysInBody'
      BY <1>0, <1>1, <2>1, <2>3, <2>4 DEF LeftoverFirst, StaysInBody
  <2>7. QED
      BY <2>5, <2>6, TakesKeeps DEF BodyInv
<1>11. CASE AtEnd
  <2>1. line = "open" => Complete \/ head.cl = None
      BY <1>0, <1>1, <1>11 DEF AtEnd, Complete, StreamKept, LeftoverFirst
  <2>2. StreamKept' /\ stream' \in BOOLEAN
      BY <1>0, <1>11 DEF AtEnd, StreamKept, TypeOK
  <2>3. QED
      BY <1>11, <2>1, <2>2, EndKeeps DEF AtEnd
<1>12. CASE ReadEof
  <2>1. StreamKept' /\ stream' \in BOOLEAN /\ line # "open"
      BY <1>12 DEF ReadEof, StreamKept
  <2>2. QED
      BY <1>12, <2>1, EndKeeps DEF ReadEof
<1>13. QED
    BY <1>2, <1>3, <1>4, <1>5, <1>6, <1>7, <1>8, <1>9, <1>10, <1>11, <1>12 DEF Next, Reader

LEMMA InvHolds == BodyAssumption /\ Spec => []BodyInv
<1> SUFFICES ASSUME BodyAssumption PROVE Spec => []BodyInv
    OBVIOUS
<1>1. Init => BodyInv
    BY InitInv
<1>2. BodyInv /\ [Next]_vars => BodyInv'
    BY StepInv
<1>3. QED
    BY <1>1, <1>2, PTL DEF Spec

\* The variables keep their types: in particular, what a Body hands out or loses was
\* sent by the client.
THEOREM TypeCorrect == Spec => []TypeOK
<1>1. BodyInv => TypeOK
    BY DEF BodyInv
<1>2. QED
    BY <1>1, InvHolds, BodyAssumption, PTL

\* read_chunk does not read beyond the announced body, whatever was read before.
THEOREM ReadsStayInBody == Spec => []StaysInBody
<1>1. BodyInv => StaysInBody
    BY DEF BodyInv
<1>2. QED
    BY <1>1, InvHolds, BodyAssumption, PTL

\* bytes(max) holds and returns max bytes at most.
THEOREM CapKept == Spec => []CapHonoured
<1>1. BodyInv => CapHonoured
    BY DEF BodyInv
<1>2. QED
    BY <1>1, InvHolds, BodyAssumption, PTL

\* The end of a body is reported when all of it was handed out, unless the client
\* ended the stream or a call of bytes took some along.
THEOREM EndMeansWhole == Spec => []EndedWhenWhole
<1>1. BodyInv => EndedWhenWhole
    BY DEF BodyInv
<1>2. QED
    BY <1>1, InvHolds, BodyAssumption, PTL
=============================================================================
