---------------------------- MODULE RequestReader ----------------------------
(***************************************************************************)
(* How a request is read from its connection: get_bytes_from_reader,       *)
(* get_bytes_arena_direct, and read_headers_only with the two that follow  *)
(* it, parse_request_streaming and parse_request_auto with                 *)
(* read_remaining_body; and the stream_parse methods, which read alike and *)
(* may turn the connection into a WebSocket.  Bytes are counted: the       *)
(* header ends with its marker at byte conn.hdr, and announces conn.cl     *)
(* bytes of body.  A read ends when bytes, the end of the stream or an     *)
(* error are there, or read_timeout_milliseconds later; between two reads  *)
(* no time passes.                                                         *)
(***************************************************************************)
EXTENDS Integers

CONSTANTS
    HeaderSizes, BodySizes,     \* what clients may send
    MaxSend,                    \* bound: bytes a client sends
    Caps,                       \* values of max_body_size
    None,                       \* Option::None
    MarkerLen,                  \* length of HEADER_END_MARKER
    MaxHeader,                  \* MAX_HEADER_SIZE
    InitialRead, NextRead,      \* first read, and determine_next_read_size
    BodyChunk,                  \* BODY_READ_CHUNK
    MaxRetry, ReadTimeout, Deadline,
    ArenaCap,                   \* of parse_request_auto_with_cap
    Word                        \* usize is 0..(Word - 1)

ASSUME ReaderAssumption ==
    /\ MarkerLen \in Nat \ {0} /\ MaxHeader \in Nat \ {0}
    /\ HeaderSizes \subseteq {h \in Nat : h >= MarkerLen}
    /\ None \notin Nat
    /\ BodySizes \subseteq Nat \cup {None} /\ Caps \subseteq Nat \cup {None}
    /\ InitialRead \in Nat \ {0} /\ BodyChunk \in Nat \ {0}
    /\ NextRead \in [0..(MaxHeader - 1) -> Nat \ {0}]
    /\ {MaxSend, ReadTimeout, Deadline, ArenaCap} \subseteq Nat
    /\ MaxRetry \in Nat \ {0}     \* with 0 nothing is ever read
    /\ Word \in Nat \ {0}

Mode == {"buffered", "arena", "auto", "streaming"}

VARIABLES
    conn,       \* the entry point it is read by, its header, body and cap, and
                \* whether it asks for an upgrade of an entry that has it
    sent,       \* bytes the client has sent
    line,       \* "open", "eof" or "reset": what the client does of its end
    phase,      \* which loop the reader is in, or how it ended
    len,        \* bytes taken
    got,        \* bytes taken when the loop for the header ended
    found,      \* where the header was found to end, 0 before it is
    total,      \* bytes the loop for the body is to have taken
    retry,      \* retry_count
    elapsed,    \* time since the first read, in the loop for the header
    wait,       \* time since the present read began
    quiet       \* history: reads that timed out since one had bytes

vars == <<conn, sent, line, phase, len, got, found, total, retry, elapsed, wait, quiet>>

Init ==
    /\ conn \in [mode: Mode, hdr: HeaderSizes, cl: BodySizes, cap: Caps, ws: BOOLEAN]
    /\ conn.mode = "streaming" => ~conn.ws
    /\ sent = 0 /\ line = "open"
    /\ phase = "header"
    /\ len = 0 /\ got = 0 /\ found = 0 /\ total = 0
    /\ retry = 0 /\ elapsed = 0 /\ wait = 0 /\ quiet = 0

Reading == phase \in {"header", "body"}
Avail   == sent - len
Least(m, n) == IF m <= n THEN m ELSE n

HeadersOnly == conn.mode \in {"auto", "streaming"}

\* The bytes the buffer has room for in the next read of the header.
Room ==
    IF conn.mode = "arena" THEN NextRead[len]
    ELSE Least(IF len = 0 THEN InitialRead ELSE NextRead[len], MaxHeader - len)

\* Mutant: only the bytes of the last read are searched.
HitsInRead(old, new) == conn.hdr <= new /\ conn.hdr - MarkerLen >= old

\* The marker is searched from where it may have begun in the bytes before.
Hits(old, new) ==
    conn.hdr <= new /\ conn.hdr - MarkerLen >= old - (MarkerLen - 1)

\* The body stays in the socket, behind a streaming Body.
Streams ==
    \/ conn.mode = "streaming"
    \/ conn.mode = "auto" /\ conn.cl \notin 0..ArenaCap

\* Mutant: the announced length is not compared with max_body_size.
NotTooLarge(f) == FALSE

TooLarge(f) == f # 0 /\ conn.cl # None /\ conn.cap # None /\ conn.cl > conn.cap

\* What the reader refuses when it has l bytes, with the header's end at f.
Refuses(l, f) ==
    \/ l = 0 /\ conn.mode # "arena"
    \/ f = 0 /\ HeadersOnly
    \/ TooLarge(f)

\* The size of the request, the sum being usize where a total is computed.
Expected(l, f) ==
    LET end  == IF f = 0 THEN l ELSE f
        body == IF f = 0 \/ conn.cl = None THEN 0 ELSE conn.cl
    IN  IF HeadersOnly THEN end + body ELSE (end + body) % Word

\* try_upgrade looks for what an upgrade needs once the whole request is read; it
\* may find none, and the handshake may fail.
Upgradeable == conn.ws /\ ~HeadersOnly

\* httparse is given the header, and may refuse it.
Parsed(how) == phase' \in {how, "rejected"} \cup IF Upgradeable THEN {"upgraded"} ELSE {}

\* Mutants: <= for <, one retry more or less than read_max_retry.
BodyLoopMore(l, t, r) ==
    IF l < t /\ r <= MaxRetry THEN phase' = "body" ELSE Parsed("done")
BodyLoopLess(l, t, r) ==
    IF l < t /\ r + 1 < MaxRetry THEN phase' = "body" ELSE Parsed("done")

\* The loop for the body, or what follows it.
BodyLoop(l, t, r) ==
    IF l < t /\ r < MaxRetry THEN phase' = "body" ELSE Parsed("done")

\* try_upgrade_auto decides after the header, and drops the bytes behind it.
UpgradesFirst == HeadersOnly /\ conn.ws /\ phase' \in {"upgraded", "rejected"}

\* What follows the loop for the header.
HeaderDone(l, f, r) ==
    LET left == IF conn.mode = "buffered" THEN r ELSE 0 IN
    /\ got' = l /\ total' = Expected(l, f) /\ retry' = left
    /\ \/ Refuses(l, f) /\ phase' = "rejected"
       \/ ~Refuses(l, f) /\ UpgradesFirst
       \/ ~Refuses(l, f) /\ Streams /\ Parsed("stream")
       \/ ~Refuses(l, f) /\ ~Streams /\ BodyLoop(l, Expected(l, f), left)

\* Mutant: no deadline.
NeverOverdue == FALSE

Overdue == elapsed > Deadline

\* The loop for the header, after an iteration that leaves l bytes, the
\* header's end at f and r retries.
HeaderLoop(l, f, r) ==
    LET on == f = 0 /\ l < MaxHeader /\ r < MaxRetry IN
    /\ len' = l /\ found' = f /\ wait' = 0
    /\ \/ on /\ ~Overdue /\ phase' = "header" /\ retry' = r /\ UNCHANGED <<got, total>>
       \/ on /\ Overdue /\ phase' = "rejected" /\ retry' = r /\ UNCHANGED <<got, total>>
       \/ ~on /\ HeaderDone(l, f, r)
-----------------------------------------------------------------------------
ClientSend ==
    /\ Reading /\ line = "open" /\ sent < MaxSend
    /\ sent' = sent + 1
    /\ UNCHANGED <<conn, line, phase, len, got, found, total, retry, elapsed, wait, quiet>>

\* The client shuts its end down, or resets the connection.
ClientEnd ==
    /\ Reading /\ line = "open"
    /\ line' \in {"eof", "reset"}
    /\ UNCHANGED <<conn, sent, phase, len, got, found, total, retry, elapsed, wait, quiet>>

HeaderRead ==
    LET new == len + Least(Avail, Room) IN
    /\ phase = "header" /\ Avail > 0
    /\ IF Hits(len, new) THEN HeaderLoop(new, conn.hdr, retry)
                         ELSE HeaderLoop(new, 0, 0)
    /\ quiet' = 0
    /\ UNCHANGED <<conn, sent, line, elapsed>>

HeaderEof ==
    /\ phase = "header" /\ Avail = 0 /\ line = "eof"
    /\ wait' = 0 /\ HeaderDone(len, 0, retry)
    /\ UNCHANGED <<conn, sent, line, len, found, elapsed, quiet>>

HeaderError ==
    /\ phase = "header" /\ line = "reset"
    /\ phase' = "rejected" /\ wait' = 0
    /\ UNCHANGED <<conn, sent, line, len, got, found, total, retry, elapsed, quiet>>

HeaderTimeout ==
    /\ phase = "header" /\ Avail = 0 /\ line = "open" /\ wait = ReadTimeout
    /\ HeaderLoop(len, 0, retry + 1)
    /\ quiet' = quiet + 1
    /\ UNCHANGED <<conn, sent, line, elapsed>>

\* Mutant: the slice is not limited to the bytes that remain.
WholeChunk == BodyChunk

BodyRoom == Least(total - len, BodyChunk)

BodyRead ==
    LET new == len + Least(Avail, BodyRoom) IN
    /\ phase = "body" /\ Avail > 0
    /\ len' = new /\ retry' = 0 /\ wait' = 0 /\ quiet' = 0
    /\ BodyLoop(new, total, 0)
    /\ UNCHANGED <<conn, sent, line, got, found, total, elapsed>>

\* Mutant: a read of no bytes does not leave the loop.
BodyEofSpins == phase = "body" /\ Avail = 0 /\ line = "eof" /\ UNCHANGED vars

\* The stream has ended: what there is of the body is the body.
BodyEof ==
    /\ phase = "body" /\ Avail = 0 /\ line = "eof"
    /\ wait' = 0 /\ Parsed("done")
    /\ UNCHANGED <<conn, sent, line, len, got, found, total, retry, elapsed, quiet>>

\* Errors are retried like timeouts; the socket reports one, then its end.
BodyError ==
    /\ phase = "body" /\ line = "reset"
    /\ line' \in {"reset", "eof"}
    /\ retry' = retry + 1 /\ wait' = 0
    /\ BodyLoop(len, total, retry + 1)
    /\ UNCHANGED <<conn, sent, len, got, found, total, elapsed, quiet>>

BodyTimeout ==
    /\ phase = "body" /\ Avail = 0 /\ line = "open" /\ wait = ReadTimeout
    /\ retry' = retry + 1 /\ wait' = 0 /\ quiet' = quiet + 1
    /\ BodyLoop(len, total, retry + 1)
    /\ UNCHANGED <<conn, sent, line, len, got, found, total, elapsed>>

\* Time passes while a read has nothing to return.
Tick ==
    /\ Reading /\ Avail = 0 /\ line = "open" /\ wait < ReadTimeout
    /\ wait' = wait + 1
    /\ elapsed' = IF phase = "header" THEN elapsed + 1 ELSE elapsed
    /\ UNCHANGED <<conn, sent, line, phase, len, got, found, total, retry, quiet>>

Reader ==
    \/ HeaderRead \/ HeaderEof \/ HeaderError \/ HeaderTimeout
    \/ BodyRead \/ BodyEof \/ BodyError \/ BodyTimeout

Next == ClientSend \/ ClientEnd \/ Reader \/ Tick

Spec == Init /\ [][Next]_vars

\* The runtime polls a reader whose read has an outcome, and time passes.
FairSpec == Spec /\ WF_vars(Reader) /\ WF_vars(Tick)
-----------------------------------------------------------------------------
\* The types of the variables, counts being bounded by what clients send.
TypeOK ==
    /\ conn \in [mode: Mode, hdr: HeaderSizes, cl: BodySizes, cap: Caps, ws: BOOLEAN]
    /\ sent \in 0..MaxSend
    /\ line \in {"open", "eof", "reset"}
    /\ phase \in {"header", "body", "done", "upgraded", "stream", "rejected"}
    /\ len \in 0..sent /\ got \in 0..len /\ found \in 0..len
    /\ total \in Nat /\ retry \in 0..MaxRetry /\ quiet \in Nat
    /\ elapsed \in Nat /\ wait \in 0..ReadTimeout

\* However slowly the client sends its header, the reader is done with it one
\* read timeout after the deadline at the latest: the deadline is looked at
\* between reads only, and each byte resets retry_count.
HeaderBounded == phase = "header" => elapsed <= Deadline + ReadTimeout

\* However the bytes are split into reads, the end of the header is found in the
\* read that completes it, and nowhere else.
HeaderEndFound == found = IF conn.hdr <= len THEN conn.hdr ELSE 0

\* Only the reads of the header may take bytes beyond the request, or the frames
\* after an upgrade: those for the body stop at its end, and the buffer always
\* covers the header, which ArenaBody's unsafe slices rely on.
TakesOnlyItsBody ==
    phase \in {"body", "done", "upgraded"} =>
        /\ len <= got \/ len <= total
        /\ found <= got /\ got <= len

\* What a client can make the reader hold is bounded by the header's limit and
\* max_body_size, whatever Content-Length says.
MemoryBounded ==
    /\ IF conn.mode = "arena"
       THEN got = 0 \/ \E n \in 0..(MaxHeader - 1) : got <= n + NextRead[n]
       ELSE got <= MaxHeader
    /\ phase \in {"done", "upgraded"} /\ conn.cap # None => len <= got + conn.cap

Short == /\ found # 0 /\ conn.cl # None
         /\ found + conn.cl < Word
         /\ len < found + conn.cl

\* While the client keeps its end open, a header is taken to be complete without
\* its end only at the limit, or when the client was silent for read_max_retry
\* reads in a row; and a body is delivered short only after that, except that the
\* buffered reader counts the silences before the header's last bytes too, and
\* may give up after one.
GivesUpLate ==
    line = "open" =>
        /\ phase \in {"done", "upgraded"} /\ found = 0 => len >= MaxHeader \/ quiet >= MaxRetry
        /\ phase = "done" /\ Short =>
              quiet >= IF conn.mode = "buffered" THEN 1 ELSE MaxRetry

\* Whatever the client does, and if it does nothing, the reader comes to an end.
Terminates == <>(~Reading)

\* "Rejected if not completed within this time, even when the client trickles
\* the header": a client that keeps its end open is served only when its header
\* is complete.
ServesOnlyCompleteHeaders == (phase = "done" /\ line = "open") => found # 0
=============================================================================
