---------------------------- MODULE StreamingBody ----------------------------
(***************************************************************************)
(* Body: what a handler reads of a request whose header alone was parsed.  *)
(* Bytes are counted.  Those the reader of the header took beyond it are   *)
(* the leftover (RequestReader's got - found in phase "stream"); the rest  *)
(* is in the socket.  read_chunk, and into_stream by it, returns a piece   *)
(* at a time; bytes(max) collects the pieces.  A handler may drop either   *)
(* call while it waits for the client, and there is no timeout.            *)
(***************************************************************************)
EXTENDS Integers

CONSTANTS
    Lengths,        \* announced by clients; None without Content-Length
    MaxLeftover,    \* bound: bytes taken with the header
    MaxSend,        \* bound: bytes a client sends beyond the header
    Caps,           \* arguments of bytes
    BodyCaps,       \* values of max_body_size
    None,           \* Option::None
    ChunkSize       \* 64 KiB in the code

ASSUME BodyAssumption ==
    /\ None \notin Nat
    /\ {MaxLeftover, MaxSend} \subseteq Nat /\ MaxLeftover <= MaxSend
    /\ UNION {Lengths, Caps, BodyCaps} \subseteq Nat \cup {None}
    /\ ChunkSize \in Nat \ {0}

VARIABLES
    head,       \* what the header's reader left: content_length, leftover, max_body_size
    sent,       \* bytes the client has sent beyond the header
    line,       \* "open", "eof" or "reset"
    leftover, consumed,
    stream,     \* whether the Body has its stream
    call,       \* the handler's call, its maximum and what bytes has collected
    passed,     \* history: bytes handed to the handler
    dropped,    \* history: bytes that went with a failed or dropped call of bytes
    result      \* what the last call returned

vars == <<head, sent, line, leftover, consumed, stream, call, passed, dropped, result>>

NoCall == [fn |-> "none", max |-> None, buf |-> 0]

\* new_streaming, and from_bytes with everything in memory.
Init ==
    /\ head \in [cl: Lengths, left: 0..MaxLeftover, cap: BodyCaps]
    /\ sent = head.left /\ line = "open"
    /\ leftover = head.left /\ consumed = 0
    /\ \/ stream = TRUE
       \/ stream = FALSE /\ head.cl = head.left /\ head.cap = None
    /\ call = NoCall /\ passed = 0 /\ dropped = 0
    /\ result = [fn |-> "none", max |-> None, how |-> "none", n |-> 0]

Avail       == sent - consumed - leftover
Least(m, n) == IF m <= n THEN m ELSE n
Over(n, c)  == c # None /\ n > c

\* Mutants: one byte is missing at the end; a read is not limited to the body;
\* what is collected is compared without the new piece; the leftover is copied.
NearlyComplete   == head.cl # None /\ consumed + 1 >= head.cl
WholeChunk       == ChunkSize
OverBefore(m, n) == Over(m, call.max)
Copied           == leftover

Complete      == head.cl # None /\ consumed >= head.cl
Remaining     == IF head.cl = None THEN ChunkSize ELSE Least(head.cl - consumed, ChunkSize)
Exceeds(m, n) == Over(m + n, call.max)
Taken         == 0

Return(how, n) ==
    /\ result' = [fn |-> call.fn, max |-> call.max, how |-> how, n |-> n]
    /\ call' = NoCall

\* read_chunk has n bytes: they go to the handler, or to the buffer of bytes,
\* unless that is beyond its maximum and all it has collected is lost.
Chunk(n) ==
    LET m == call.buf IN
    \/ /\ call.fn = "read_chunk"
       /\ Return("some", n)
       /\ passed' = passed + n /\ UNCHANGED dropped
    \/ /\ call.fn = "bytes" /\ Exceeds(m, n)
       /\ Return("err", 0)
       /\ dropped' = dropped + m + n /\ UNCHANGED passed
    \/ /\ call.fn = "bytes" /\ ~Exceeds(m, n)
       /\ call' = [call EXCEPT !.buf = m + n]
       /\ UNCHANGED <<passed, dropped, result>>

\* read_chunk has None, and bytes is complete; or it has an error.
End ==
    /\ Return(IF call.fn = "bytes" THEN "ok" ELSE "none", call.buf)
    /\ passed' = passed + call.buf /\ UNCHANGED dropped

Error ==
    /\ Return("err", 0)
    /\ dropped' = dropped + call.buf /\ UNCHANGED passed
-----------------------------------------------------------------------------
ClientSend ==
    /\ line = "open" /\ sent < MaxSend
    /\ sent' = sent + 1
    /\ UNCHANGED <<head, line, leftover, consumed, stream, call, passed, dropped, result>>

ClientEnd ==
    /\ line = "open"
    /\ line' \in {"eof", "reset"}
    /\ UNCHANGED <<head, sent, leftover, consumed, stream, call, passed, dropped, result>>

CallReadChunk ==
    /\ call = NoCall
    /\ call' = [fn |-> "read_chunk", max |-> None, buf |-> 0]
    /\ UNCHANGED <<head, sent, line, leftover, consumed, stream, passed, dropped, result>>

\* bytes(max) refuses at once what is announced to be larger.
CallBytes(max) ==
    /\ call = NoCall
    /\ IF head.cl # None /\ Over(head.cl, max)
       THEN /\ result' = [fn |-> "bytes", max |-> max, how |-> "err", n |-> 0]
            /\ UNCHANGED call
       ELSE /\ call' = [fn |-> "bytes", max |-> max, buf |-> 0]
            /\ UNCHANGED result
    /\ UNCHANGED <<head, sent, line, leftover, consumed, stream, passed, dropped>>

\* The handler drops the call while it waits for the client.
Cancel ==
    /\ call # NoCall /\ leftover = 0 /\ ~Complete /\ stream
    /\ call' = NoCall /\ dropped' = dropped + call.buf
    /\ UNCHANGED <<head, sent, line, leftover, consumed, stream, passed, result>>

TakeLeftover ==
    /\ call # NoCall /\ leftover > 0
    /\ leftover' = Taken /\ consumed' = consumed + leftover
    /\ Chunk(leftover)
    /\ UNCHANGED <<head, sent, line, stream>>

AtEnd ==
    /\ call # NoCall /\ leftover = 0
    /\ Complete \/ ~stream
    /\ End
    /\ UNCHANGED <<head, sent, line, leftover, consumed, stream>>

Reads == call # NoCall /\ leftover = 0 /\ ~Complete /\ stream

ReadSome ==
    LET n == Least(Avail, Remaining) IN
    /\ Reads /\ Avail > 0
    /\ consumed' = consumed + n
    /\ Chunk(n)
    /\ UNCHANGED <<head, sent, line, leftover, stream>>

\* Mutant: a read of no bytes is tried again.
ReadEofAgain == Reads /\ Avail = 0 /\ line = "eof" /\ UNCHANGED vars

ReadEof ==
    /\ Reads /\ Avail = 0 /\ line = "eof"
    /\ stream' = FALSE
    /\ End
    /\ UNCHANGED <<head, sent, line, leftover, consumed>>

\* The error is returned and the stream kept: the next read finds its end, or an
\* error again.
ReadError ==
    /\ Reads /\ line = "reset"
    /\ line' \in {"reset", "eof"}
    /\ Error
    /\ UNCHANGED <<head, sent, leftover, consumed, stream>>

Reader == TakeLeftover \/ AtEnd \/ ReadSome \/ ReadEof \/ ReadError

Next ==
    \/ ClientSend \/ ClientEnd \/ Reader \/ Cancel \/ CallReadChunk
    \/ \E max \in Caps : CallBytes(max)

Spec == Init /\ [][Next]_vars

\* A handler whose read has an outcome is polled.
FairSpec == Spec /\ WF_vars(Reader)
-----------------------------------------------------------------------------
\* The types of the variables; what a Body has taken was sent.
TypeOK ==
    /\ head \in [cl: Lengths, left: 0..MaxLeftover, cap: BodyCaps]
    /\ sent \in 0..MaxSend /\ line \in {"open", "eof", "reset"}
    /\ leftover \in {0, head.left} /\ consumed \in 0..(sent - leftover)
    /\ stream \in BOOLEAN
    /\ call \in [fn: {"none", "read_chunk", "bytes"}, max: Caps \cup {None}, buf: 0..consumed]
    /\ passed \in 0..consumed /\ dropped \in 0..consumed
    /\ result \in [fn: {"none", "read_chunk", "bytes"}, max: Caps \cup {None},
                   how: {"none", "some", "ok", "err"}, n: 0..consumed]

\* However calls of read_chunk and bytes follow each other, are dropped or fail,
\* the socket is read up to the end of the body only: a leftover may go beyond
\* the announced length, a read never does.
StaysInBody == head.cl # None => consumed <= head.cl \/ consumed <= head.left

\* bytes(max) never holds or returns more than max, whatever the client sends.
CapHonoured ==
    /\ ~Over(call.buf, call.max)
    /\ result.how = "ok" => ~Over(result.n, result.max)

\* When the handler is told that the body has ended, it has had all of it, unless
\* the client ended the stream or a call of bytes failed or was dropped: the
\* bytes such a call had collected are gone, and a later one succeeds without.
EndedWhenWhole ==
    (/\ result.how = "ok" \/ (result.fn = "read_chunk" /\ result.how = "none")
     /\ head.cl # None /\ line = "open" /\ dropped = 0)
        => passed >= head.cl

\* A call returns when the client has sent the body, or no longer sends anything.
CallsReturn ==
    (call # NoCall /\ (line # "open" \/ (head.cl # None /\ sent >= head.cl)))
        ~> (call = NoCall)
=============================================================================
