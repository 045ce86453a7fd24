------------------------- MODULE RequestReaderProofs -------------------------
(***************************************************************************)
(* Theorems about RequestReader: the safety properties TLC checks on small *)
(* instances hold for every value of the constants.  They are proved       *)
(* together, as one inductive invariant: each needs what the others say of *)
(* the state in which a loop is entered.                                   *)
(***************************************************************************)
EXTENDS RequestReader, TLAPS

\* While the header is read: its end has not come, neither limit is reached, every
\* retry was a silence, and the time beyond the deadline is that of the present read.
InHeader ==
    phase = "header" =>
        /\ found = 0 /\ got = 0
        /\ len < MaxHeader /\ len < conn.hdr /\ retry < MaxRetry /\ retry <= quiet
        /\ elapsed <= Deadline + wait

\* While the body is read: the header was found, bytes are missing, the total is
\* what was announced, and every retry was a silence.
InBody ==
    phase = "body" =>
        /\ found # 0 /\ len < total /\ retry < MaxRetry
        /\ conn.cap # None => total <= got + conn.cap
        /\ (conn.cl # None /\ found + conn.cl < Word) => total = found + conn.cl
        /\ (line = "open" /\ conn.mode # "buffered") => retry <= quiet

ReaderInv ==
    /\ TypeOK /\ InHeader /\ InBody
    /\ HeaderEndFound /\ TakesOnlyItsBody /\ MemoryBounded /\ GivesUpLate

LEMMA ModBound ==
    ASSUME NEW n \in Nat, NEW w \in Nat \ {0}
    PROVE  n % w \in Nat /\ n % w <= n /\ (n < w => n % w = n)
<1>1. n % w \in Nat /\ n % w < w
    OBVIOUS
<1>2. CASE n < w
    BY <1>2
<1>3. CASE n >= w
    BY <1>1, <1>3
<1>4. QED
    BY <1>1, <1>2, <1>3

LEMMA ConnType ==
    ASSUME ReaderAssumption, TypeOK
    PROVE  /\ conn.mode \in Mode /\ conn.hdr \in Nat \ {0}
           /\ conn.hdr >= MarkerLen
           /\ conn.cl \in Nat \cup {None} /\ conn.cap \in Nat \cup {None}
<1>1. conn \in [mode: Mode, hdr: HeaderSizes, cl: BodySizes, cap: Caps, ws: BOOLEAN]
    BY DEF TypeOK
<1>2. conn.hdr \in HeaderSizes /\ conn.cl \in BodySizes /\ conn.cap \in Caps
      /\ conn.mode \in Mode
    BY <1>1
<1>3. MarkerLen \in Nat \ {0} /\ \A h \in HeaderSizes : h \in Nat /\ h >= MarkerLen
    BY DEF ReaderAssumption
<1>4. BodySizes \subseteq Nat \cup {None} /\ Caps \subseteq Nat \cup {None}
    BY DEF ReaderAssumption
<1>5. conn.hdr \in Nat /\ conn.hdr >= MarkerLen
    BY <1>2, <1>3
<1>6. conn.hdr \in Nat \ {0}
    BY <1>3, <1>5
<1>7. conn.cl \in Nat \cup {None} /\ conn.cap \in Nat \cup {None}
    BY <1>2, <1>4
<1>8. QED
    BY <1>2, <1>5, <1>6, <1>7

\* The total is at most what was announced, and exactly that when the sum fits
\* in a word; without a header's end or a length nothing is missing.
LEMMA ExpectedBound ==
    ASSUME ReaderAssumption, TypeOK, NEW l \in Nat, NEW f \in 0..l
    PROVE  /\ Expected(l, f) \in Nat
           /\ f = 0 \/ conn.cl = None => Expected(l, f) <= l
           /\ f # 0 /\ conn.cl # None => Expected(l, f) <= f + conn.cl
           /\ f # 0 /\ conn.cl # None /\ f + conn.cl < Word
                 => Expected(l, f) = f + conn.cl
<1> DEFINE end  == IF f = 0 THEN l ELSE f
           body == IF f = 0 \/ conn.cl = None THEN 0 ELSE conn.cl
<1>1. end \in Nat /\ body \in Nat /\ end <= l
    BY ConnType
<1>2. (end + body) % Word \in Nat /\ (end + body) % Word <= end + body
      /\ (end + body < Word => (end + body) % Word = end + body)
  <2> HIDE DEF end, body
  <2>1. end + body \in Nat /\ Word \in Nat \ {0}
      BY <1>1 DEF ReaderAssumption
  <2>2. QED
      BY <2>1, ModBound
<1>3. Expected(l, f) = IF HeadersOnly THEN end + body ELSE (end + body) % Word
    BY DEF Expected
<1>4. Expected(l, f) \in Nat /\ Expected(l, f) <= end + body
      /\ (end + body < Word => Expected(l, f) = end + body)
  <2> HIDE DEF end, body
  <2>1. QED
      BY <1>1, <1>2, <1>3
<1>5. QED
    BY <1>1, <1>4
-----------------------------------------------------------------------------
\* The bytes a read of the header can leave in the buffer.
Taken(l) ==
    IF conn.mode = "arena"
    THEN \E n \in 0..(MaxHeader - 1) : l <= n + NextRead[n]
    ELSE l <= MaxHeader

\* What a step does that leaves the loop for the header with l bytes, the
\* header's end at f and r retries.
LeavesHeader(l, f, r) ==
    /\ phase = "header"
    /\ l \in 0..sent /\ r \in 0..MaxRetry
    /\ f = IF conn.hdr <= l THEN conn.hdr ELSE 0
    /\ f # 0 => r < MaxRetry
    /\ Taken(l)
    /\ len' = l /\ found' = f /\ wait' = 0
    /\ quiet' \in Nat /\ (f = 0 => r <= quiet')
    /\ UNCHANGED <<conn, sent, line, elapsed>>

\* Why the loop for the header ends.
Ends(l, f, r) == f # 0 \/ l >= MaxHeader \/ r >= MaxRetry \/ line = "eof"

LEMMA HeaderDoneKeeps ==
    ASSUME ReaderAssumption, ReaderInv,
           NEW l, NEW f, NEW r, LeavesHeader(l, f, r), Ends(l, f, r),
           HeaderDone(l, f, r)
    PROVE  ReaderInv'
<1> USE DEF LeavesHeader
<1>0. TypeOK /\ sent \in Nat /\ MaxRetry \in Nat \ {0}
    BY DEF ReaderInv, TypeOK, ReaderAssumption
<1>1. l \in Nat /\ f \in 0..l /\ r \in Nat
    BY <1>0, ConnType
<1> DEFINE t == Expected(l, f)
           left == IF conn.mode = "buffered" THEN r ELSE 0
<1>2. /\ t \in Nat
      /\ f = 0 \/ conn.cl = None => t <= l
      /\ f # 0 /\ conn.cl # None => t <= f + conn.cl
      /\ f # 0 /\ conn.cl # None /\ f + conn.cl < Word => t = f + conn.cl
    BY <1>0, <1>1, ExpectedBound
<1>3. /\ got' = l /\ total' = t /\ retry' = left
      /\ left \in 0..MaxRetry /\ (f # 0 => left < MaxRetry)
    BY <1>0, <1>1 DEF HeaderDone
<1>4. /\ phase' \in {"body", "done", "upgraded", "stream", "rejected"}
      /\ phase' = "body" => l < t /\ left < MaxRetry /\ ~TooLarge(f)
      /\ phase' = "done" => l >= t \/ left >= MaxRetry
      /\ phase' \in {"body", "done", "upgraded"} => ~TooLarge(f)
  <2> HIDE DEF t, left
  <2>1. \/ phase' = "rejected"
        \/ phase' = "stream"
        \/ ~Refuses(l, f) /\ phase' = "upgraded"
        \/ ~Refuses(l, f) /\ BodyLoop(l, t, left)
      BY DEF HeaderDone, UpgradesFirst, Parsed, t, left
  <2>2. QED
      BY <1>2, <1>3, <2>1 DEF BodyLoop, Parsed, Refuses
<1>5. /\ conn.mode \in Mode /\ conn.hdr \in Nat \ {0}
      /\ conn.cl \in Nat \cup {None} /\ conn.cap \in Nat \cup {None}
    BY <1>0, ConnType
<1> HIDE DEF t, left
<1>6. TypeOK'
    BY <1>0, <1>1, <1>2, <1>3, <1>4 DEF TypeOK
<1>7. InHeader' /\ HeaderEndFound'
    BY <1>1, <1>4 DEF InHeader, HeaderEndFound
<1>8. ASSUME phase' = "body" PROVE InBody'
  <2>1. f # 0 /\ l < t /\ conn.cl # None
      BY <1>1, <1>2, <1>4, <1>8
  <2>2. conn.cap # None => t <= l + conn.cap
    <3> SUFFICES ASSUME conn.cap # None PROVE t <= l + conn.cap
        OBVIOUS
    <3>1. conn.cl \in Nat /\ conn.cap \in Nat
        BY <1>5, <2>1
    <3>2. ~(conn.cl > conn.cap)
        BY <1>4, <1>8, <2>1 DEF TooLarge
    <3>3. f \in Nat /\ f <= l /\ t <= f + conn.cl
        BY <1>1, <1>2, <2>1
    <3>4. conn.cl <= conn.cap /\ t \in Nat /\ l \in Nat
        BY <1>1, <1>2, <3>1, <3>2
    <3> HIDE DEF LeavesHeader
    <3>5. QED
        BY <3>1, <3>3, <3>4
  <2>3. conn.mode # "buffered" => left = 0
      BY DEF left
  <2>4. QED
      BY <1>2, <1>3, <1>4, <1>8, <2>1, <2>2, <2>3 DEF InBody
<1>9. InBody'
    BY <1>8 DEF InBody
<1>10. TakesOnlyItsBody'
    BY <1>1, <1>3 DEF TakesOnlyItsBody
<1>11. MemoryBounded'
    BY <1>1, <1>3, <1>5 DEF MemoryBounded, Taken
<1>12. GivesUpLate'
  <2>1. phase' = "done" => ~Short'
      BY <1>1, <1>2, <1>3, <1>4, <1>5 DEF Short
  <2>2. line' = "open" /\ found' = 0 => len' >= MaxHeader \/ quiet' >= MaxRetry
      BY <1>0, <1>1 DEF Ends
  <2>3. QED
      BY <2>1, <2>2 DEF GivesUpLate
<1>13. QED
    BY <1>6, <1>7, <1>9, <1>10, <1>11, <1>12 DEF ReaderInv

LEMMA HeaderLoopKeeps ==
    ASSUME ReaderAssumption, ReaderInv,
           NEW l, NEW f, NEW r, LeavesHeader(l, f, r), HeaderLoop(l, f, r)
    PROVE  ReaderInv'
<1>1. CASE /\ ~(f = 0 /\ l < MaxHeader /\ r < MaxRetry)
           /\ HeaderDone(l, f, r)
  <2>1. /\ sent \in Nat /\ l \in 0..sent /\ r \in 0..MaxRetry
        /\ MaxHeader \in Nat /\ MaxRetry \in Nat
      BY DEF ReaderInv, TypeOK, ReaderAssumption, LeavesHeader
  <2>2. l \in Nat /\ r \in Nat
      BY <2>1
  <2>3. Ends(l, f, r)
      BY <1>1, <2>1, <2>2 DEF Ends
  <2>4. QED
      BY <1>1, <2>3, HeaderDoneKeeps
<1>2. CASE /\ f = 0 /\ l < MaxHeader /\ r < MaxRetry /\ retry' = r
           /\ (phase' = "header" /\ ~Overdue) \/ phase' = "rejected"
           /\ UNCHANGED <<got, total>>
  <2> USE DEF LeavesHeader
  <2>1. /\ TypeOK /\ got = 0
        /\ sent \in Nat /\ l \in Nat /\ elapsed \in Nat
      BY DEF ReaderInv, InHeader, TypeOK
  <2>2. conn.hdr \in Nat \ {0} /\ conn.cap \in Nat \cup {None}
      BY <2>1, ConnType
  <2>3. l < conn.hdr
      BY <1>2, <2>1, <2>2
  <2>4. TypeOK'
      BY <1>2, <2>1 DEF TypeOK, ReaderAssumption
  <2>5. InHeader'
      BY <1>2, <2>1, <2>3 DEF InHeader, Overdue, ReaderAssumption
  <2>6. HeaderEndFound' /\ InBody' /\ TakesOnlyItsBody' /\ GivesUpLate'
      BY <1>2, <2>1, <2>2, <2>3
         DEF HeaderEndFound, InBody, TakesOnlyItsBody, GivesUpLate
  <2>7. MemoryBounded'
      BY <1>2, <2>1 DEF MemoryBounded, ReaderAssumption
  <2>8. QED
      BY <2>4, <2>5, <2>6, <2>7 DEF ReaderInv
<1>3. QED
    BY <1>1, <1>2 DEF HeaderLoop
-----------------------------------------------------------------------------
LEMMA InitKeeps ==
    ASSUME ReaderAssumption, Init
    PROVE  ReaderInv
<1> USE DEF Init
<1>1. TypeOK
    BY DEF TypeOK, ReaderAssumption
<1>2. conn.hdr \in Nat \ {0}
    BY <1>1, ConnType
<1>3. InHeader /\ InBody /\ HeaderEndFound /\ TakesOnlyItsBody /\ GivesUpLate
    BY <1>2 DEF InHeader, InBody, HeaderEndFound, TakesOnlyItsBody, GivesUpLate,
                ReaderAssumption
<1>4. MemoryBounded
    BY DEF MemoryBounded, ReaderAssumption
<1>5. QED
    BY <1>1, <1>3, <1>4 DEF ReaderInv

\* The steps of the client and of time take no bytes and end no loop.
LEMMA OthersKeep ==
    ASSUME ReaderAssumption, ReaderInv, ClientSend \/ ClientEnd \/ Tick
    PROVE  ReaderInv'
<1>0. TypeOK /\ InHeader /\ InBody /\ MaxSend \in Nat /\ ReadTimeout \in Nat
      /\ MaxRetry \in Nat
    BY DEF ReaderInv, ReaderAssumption
<1>1. TypeOK'
  <2>1. CASE ClientSend
      BY <1>0, <2>1 DEF TypeOK, ClientSend
  <2>2. CASE ClientEnd
      BY <1>0, <2>2 DEF TypeOK, ClientEnd
  <2>3. CASE Tick
    <3>1. elapsed' \in Nat /\ wait' \in 0..ReadTimeout
        BY <1>0, <2>3 DEF TypeOK, Tick
    <3>2. QED
        BY <1>0, <2>3, <3>1 DEF TypeOK, Tick
  <2>4. QED
      BY <2>1, <2>2, <2>3
<1>2. InHeader'
  <2>1. CASE ClientSend
      BY <1>0, <2>1 DEF InHeader, ClientSend
  <2>2. CASE ClientEnd
      BY <1>0, <2>2 DEF InHeader, ClientEnd
  <2>3. CASE Tick
    <3>1. elapsed \in Nat /\ wait \in Nat /\ Deadline \in Nat
        BY <1>0 DEF TypeOK, ReaderAssumption
    <3>2. QED
        BY <1>0, <2>3, <3>1 DEF InHeader, Tick
  <2>4. QED
      BY <2>1, <2>2, <2>3
<1>3. InBody'
  <2>1. CASE ClientSend
      BY <1>0, <2>1 DEF InBody, ClientSend
  <2>2. CASE ClientEnd
      BY <1>0, <2>2 DEF InBody, ClientEnd
  <2>3. CASE Tick
      BY <1>0, <2>3 DEF InBody, Tick
  <2>4. QED
      BY <2>1, <2>2, <2>3
<1>4. HeaderEndFound' /\ TakesOnlyItsBody' /\ MemoryBounded'
    BY DEF ReaderInv, HeaderEndFound, TakesOnlyItsBody, MemoryBounded,
           ClientSend, ClientEnd, Tick
<1>5. GivesUpLate'
    BY DEF ReaderInv, GivesUpLate, Short, Reading, ClientSend, ClientEnd, Tick
<1>6. QED
    BY <1>1, <1>2, <1>3, <1>4, <1>5 DEF ReaderInv

LEMMA HeaderStepsKeep ==
    ASSUME ReaderAssumption, ReaderInv,
           HeaderRead \/ HeaderEof \/ HeaderError \/ HeaderTimeout
    PROVE  ReaderInv'
<1>0. /\ TypeOK /\ len \in Nat /\ sent \in Nat /\ len <= sent /\ found = 0
      /\ len < MaxHeader /\ len < conn.hdr /\ retry < MaxRetry /\ retry \in Nat
      /\ quiet \in Nat /\ retry <= quiet /\ MaxRetry \in Nat /\ MaxHeader \in Nat
      /\ phase = "header"
    BY DEF ReaderInv, InHeader, TypeOK, ReaderAssumption, HeaderRead, HeaderEof,
           HeaderError, HeaderTimeout
<1>1. conn.hdr \in Nat \ {0} /\ conn.hdr >= MarkerLen /\ MarkerLen \in Nat
    BY <1>0, ConnType DEF ReaderAssumption
<1>2. Taken(len)
  <2>1. len \in 0..(MaxHeader - 1) /\ NextRead[len] \in Nat
      BY <1>0 DEF ReaderAssumption
  <2>2. QED
      BY <1>0, <2>1 DEF Taken
<1>3. CASE HeaderRead
  <2> DEFINE room == Room
             new  == len + Least(Avail, room)
  <2>1. /\ room \in Nat
        /\ IF conn.mode = "arena" THEN room = NextRead[len]
                                  ELSE room <= MaxHeader - len
      BY <1>0 DEF Room, Least, ReaderAssumption
  <2>2. new \in 0..sent /\ new <= len + room
      BY <1>0, <2>1 DEF Least, Avail
  <2>3. Taken(new)
    <3>1. CASE conn.mode = "arena"
      <4>1. len \in 0..(MaxHeader - 1) /\ new <= len + NextRead[len]
          BY <1>0, <2>1, <2>2, <3>1
      <4>2. QED
          BY <3>1, <4>1 DEF Taken
    <3>2. CASE conn.mode # "arena"
      <4>1. new <= MaxHeader
          BY <1>0, <2>1, <2>2, <3>2
      <4>2. QED
          BY <3>2, <4>1 DEF Taken
    <3>3. QED
        BY <3>1, <3>2
  <2>4. Hits(len, new) <=> conn.hdr <= new
      BY <1>0, <1>1, <2>2 DEF Hits
  <2>5. CASE Hits(len, new)
    <3>1. HeaderLoop(new, conn.hdr, retry)
        BY <1>3, <2>5 DEF HeaderRead
    <3>2. LeavesHeader(new, conn.hdr, retry)
      <4>1. len' = new /\ found' = conn.hdr /\ wait' = 0
          BY <3>1 DEF HeaderLoop
      <4>2. quiet' = 0 /\ UNCHANGED <<conn, sent, line, elapsed>>
          BY <1>3 DEF HeaderRead
      <4>3. QED
          BY <1>0, <2>2, <2>3, <2>4, <2>5, <4>1, <4>2 DEF LeavesHeader
    <3>3. QED
        BY <3>1, <3>2, HeaderLoopKeeps
  <2>6. CASE ~Hits(len, new)
    <3>1. HeaderLoop(new, 0, 0)
        BY <1>3, <2>6 DEF HeaderRead
    <3>2. LeavesHeader(new, 0, 0)
      <4>1. len' = new /\ found' = 0 /\ wait' = 0
          BY <3>1 DEF HeaderLoop
      <4>2. quiet' = 0 /\ UNCHANGED <<conn, sent, line, elapsed>>
          BY <1>3 DEF HeaderRead
      <4>3. QED
          BY <1>0, <2>2, <2>3, <2>4, <2>6, <4>1, <4>2 DEF LeavesHeader
    <3>3. QED
        BY <3>1, <3>2, HeaderLoopKeeps
  <2>7. QED
      BY <2>5, <2>6
<1>4. CASE HeaderEof
  <2>1. LeavesHeader(len, 0, retry) /\ Ends(len, 0, retry)
      BY <1>0, <1>1, <1>2, <1>4 DEF HeaderEof, LeavesHeader, Ends
  <2>2. QED
      BY <1>4, <2>1, HeaderDoneKeeps DEF HeaderEof
<1>5. CASE HeaderError
  <2>1. TypeOK'
      BY <1>5 DEF HeaderError, ReaderInv, TypeOK, ReaderAssumption
  <2>2. /\ InHeader' /\ InBody' /\ HeaderEndFound' /\ TakesOnlyItsBody'
        /\ GivesUpLate'
      BY <1>5 DEF HeaderError, ReaderInv, InHeader, InBody, HeaderEndFound,
                  TakesOnlyItsBody, GivesUpLate
  <2>3. MemoryBounded'
      BY <1>5 DEF HeaderError, ReaderInv, MemoryBounded
  <2>4. QED
      BY <2>1, <2>2, <2>3 DEF ReaderInv
<1>6. CASE HeaderTimeout
  <2>1. HeaderLoop(len, 0, retry + 1)
      BY <1>6 DEF HeaderTimeout
  <2>2. len' = len /\ found' = 0 /\ wait' = 0
      BY <2>1 DEF HeaderLoop
  <2>3. LeavesHeader(len, 0, retry + 1)
      BY <1>0, <1>1, <1>2, <1>6, <2>2 DEF HeaderTimeout, LeavesHeader
  <2>4. QED
      BY <2>1, <2>3, HeaderLoopKeeps
<1>7. QED
    BY <1>3, <1>4, <1>5, <1>6

\* A step of the loop for the body that leaves n bytes and r retries.
LEMMA BodyStepKeeps ==
    ASSUME ReaderAssumption, ReaderInv, phase = "body",
           NEW n \in len..sent, n = len \/ n <= total,
           NEW r \in 0..MaxRetry,
           len' = n, retry' = r, wait' = 0, quiet' \in Nat,
           line' \in {"open", "eof", "reset"},
           (line' = "open" /\ conn.mode # "buffered") => r <= quiet',
           (line' = "open" /\ r = MaxRetry) => quiet' >= 1,
           UNCHANGED <<conn, sent, got, found, total, elapsed>>,
           BodyLoop(n, total, r)
    PROVE  ReaderInv'
<1>0. /\ TypeOK /\ InBody /\ HeaderEndFound /\ TakesOnlyItsBody /\ MemoryBounded
      /\ len \in Nat /\ sent \in Nat /\ got \in Nat /\ found \in Nat /\ total \in Nat
      /\ MaxRetry \in Nat \ {0}
    BY DEF ReaderInv, TypeOK, ReaderAssumption
<1>1. /\ conn.hdr \in Nat \ {0}
      /\ conn.cl \in Nat \cup {None} /\ conn.cap \in Nat \cup {None}
    BY <1>0, ConnType
<1>2. \/ phase' = "body" /\ n < total /\ r < MaxRetry
      \/ phase' \in {"done", "upgraded", "rejected"} /\ (n >= total \/ r = MaxRetry)
    BY <1>0 DEF BodyLoop, Parsed
<1>3. n <= total
    BY <1>0 DEF InBody
<1>4. TypeOK'
    BY <1>0, <1>2 DEF TypeOK, ReaderAssumption
<1>5. InHeader' /\ InBody'
    BY <1>0, <1>2 DEF InHeader, InBody
<1>6. found = conn.hdr /\ found <= got /\ got <= len
    BY <1>0, <1>1 DEF InBody, HeaderEndFound, TakesOnlyItsBody
<1>7. HeaderEndFound' /\ TakesOnlyItsBody'
    BY <1>0, <1>1, <1>3, <1>6 DEF HeaderEndFound, TakesOnlyItsBody
<1>8. MemoryBounded'
  <2>1. conn.cap # None => n <= got + conn.cap
      BY <1>0, <1>1, <1>3 DEF InBody
  <2>2. QED
      BY <1>0, <2>1 DEF MemoryBounded
<1>9. GivesUpLate'
  <2>1. (phase' = "done" /\ Short') => r = MaxRetry
      BY <1>0, <1>1, <1>2, <1>3 DEF InBody, Short
  <2>2. found # 0 /\ found' = found
      BY <1>0, <1>1, <1>6
  <2>3. QED
      BY <1>0, <1>1, <2>1, <2>2 DEF GivesUpLate
<1>10. QED
    BY <1>4, <1>5, <1>7, <1>8, <1>9 DEF ReaderInv

LEMMA BodyStepsKeep ==
    ASSUME ReaderAssumption, ReaderInv,
           BodyRead \/ BodyEof \/ BodyError \/ BodyTimeout
    PROVE  ReaderInv'
<1>0. /\ TypeOK /\ InBody /\ TakesOnlyItsBody /\ MemoryBounded /\ HeaderEndFound
      /\ phase = "body" /\ len < total /\ retry < MaxRetry
      /\ len \in Nat /\ sent \in Nat /\ len <= sent /\ total \in Nat
      /\ retry \in Nat /\ quiet \in Nat /\ MaxRetry \in Nat \ {0}
      /\ line = "open" /\ conn.mode # "buffered" => retry <= quiet
    BY DEF ReaderInv, InBody, TypeOK, ReaderAssumption, BodyRead, BodyEof,
           BodyError, BodyTimeout
<1>1. CASE BodyRead
  <2> DEFINE new == len + Least(Avail, BodyRoom)
  <2>1. new \in len..sent /\ new <= total
      BY <1>0, <1>1 DEF BodyRead, Least, Avail, BodyRoom, ReaderAssumption
  <2>2. /\ len' = new /\ retry' = 0 /\ wait' = 0 /\ quiet' = 0
        /\ BodyLoop(new, total, 0)
        /\ UNCHANGED <<conn, sent, line, got, found, total, elapsed>>
      BY <1>1 DEF BodyRead
  <2>3. line' \in {"open", "eof", "reset"}
      BY <1>0, <2>2 DEF TypeOK
  <2>4. 0 \in 0..MaxRetry /\ 0 # MaxRetry /\ quiet' \in Nat /\ 0 <= quiet'
      BY <1>0, <2>2
  <2> HIDE DEF new
  <2>5. QED
      BY <1>0, <2>1, <2>2, <2>3, <2>4, BodyStepKeeps
<1>2. CASE BodyEof
  <2>1. /\ phase' \in {"done", "upgraded", "rejected"} /\ wait' = 0 /\ line = "eof"
        /\ UNCHANGED <<conn, sent, line, len, got, found, total, retry, elapsed, quiet>>
      BY <1>2 DEF BodyEof, Parsed
  <2>2. TypeOK'
      BY <1>0, <2>1 DEF TypeOK, ReaderAssumption
  <2>3. InHeader' /\ InBody' /\ HeaderEndFound' /\ TakesOnlyItsBody' /\ GivesUpLate'
      BY <1>0, <2>1 DEF InHeader, InBody, HeaderEndFound, TakesOnlyItsBody, GivesUpLate
  <2>4. MemoryBounded'
    <3>1. got \in Nat /\ conn.cap \in Nat \cup {None}
        BY <1>0, ConnType DEF TypeOK
    <3>2. conn.cap # None => len <= got + conn.cap
        BY <1>0, <3>1 DEF InBody
    <3>3. QED
        BY <1>0, <2>1, <3>2 DEF MemoryBounded
  <2>5. QED
      BY <2>2, <2>3, <2>4 DEF ReaderInv
<1>3. CASE BodyError \/ BodyTimeout
  <2>1. /\ retry' = retry + 1 /\ wait' = 0 /\ len' = len
        /\ BodyLoop(len, total, retry + 1)
        /\ UNCHANGED <<conn, sent, got, found, total, elapsed>>
      BY <1>3 DEF BodyError, BodyTimeout
  <2>2. \/ line' \in {"reset", "eof"} /\ quiet' = quiet
        \/ line = "open" /\ line' = "open" /\ quiet' = quiet + 1
      BY <1>3 DEF BodyError, BodyTimeout
  <2>3. retry + 1 \in 0..MaxRetry /\ len \in len..sent
      BY <1>0
  <2>4. QED
      BY <1>0, <2>1, <2>2, <2>3, BodyStepKeeps
<1>4. QED
    BY <1>1, <1>2, <1>3
-----------------------------------------------------------------------------
LEMMA ReaderInvariant == Spec => []ReaderInv
<1>1. Init => ReaderInv
    BY ReaderAssumption, InitKeeps
<1>2. ReaderInv /\ [Next]_vars => ReaderInv'
  <2> SUFFICES ASSUME ReaderInv, [Next]_vars PROVE ReaderInv'
      OBVIOUS
  <2>1. CASE ClientSend \/ ClientEnd \/ Tick
      BY <2>1, ReaderAssumption, OthersKeep
  <2>2. CASE HeaderRead \/ HeaderEof \/ HeaderError \/ HeaderTimeout
      BY <2>2, ReaderAssumption, HeaderStepsKeep
  <2>3. CASE BodyRead \/ BodyEof \/ BodyError \/ BodyTimeout
      BY <2>3, ReaderAssumption, BodyStepsKeep
  <2>4. CASE UNCHANGED vars
      BY <2>4 DEF vars, ReaderInv, TypeOK, InHeader, InBody, HeaderEndFound,
                  TakesOnlyItsBody, MemoryBounded, GivesUpLate, Short
  <2>5. QED
      BY <2>1, <2>2, <2>3, <2>4 DEF Next, Reader
<1>3. QED
    BY <1>1, <1>2, PTL DEF Spec

\* The types of the reader's state; in particular retry_count stays within
\* read_max_retry and no more is taken than was sent.
THEOREM TypeCorrect == Spec => []TypeOK
BY ReaderInvariant, PTL DEF ReaderInv

\* However slowly the client sends, reading the header ends at most one read
\* timeout after the deadline.
THEOREM HeaderTimeBounded == Spec => []HeaderBounded
<1>1. ReaderInv => HeaderBounded
    BY ReaderAssumption DEF ReaderInv, TypeOK, InHeader, HeaderBounded, ReaderAssumption
<1>2. QED
    BY <1>1, ReaderInvariant, PTL

\* However the bytes are split into reads, the header's end is found exactly when
\* it is there: the search starts far enough back.
THEOREM HeaderEndAlwaysFound == Spec => []HeaderEndFound
BY ReaderInvariant, PTL DEF ReaderInv

\* The loop for the body takes no byte beyond the request, and the buffer covers
\* the header, although the sum of their lengths may wrap.
THEOREM TakesWhatIsDue == Spec => []TakesOnlyItsBody
BY ReaderInvariant, PTL DEF ReaderInv

\* What a client can make the reader hold is bounded by the limits.
THEOREM MemorySafe == Spec => []MemoryBounded
BY ReaderInvariant, PTL DEF ReaderInv

\* A body is cut short, while the client keeps its end open, only after the
\* silences that read_max_retry allows (after one in the buffered reader).
THEOREM ShortOnlyWhenSilent == Spec => []GivesUpLate
BY ReaderInvariant, PTL DEF ReaderInv
=============================================================================
