---------------------------- MODULE ResponseWriter ----------------------------
(***************************************************************************)
(* Writer and ArenaWriter: what a handler sets, and how responser sends it *)
(* to a peer that takes bytes in pieces, stalls or goes away, while the    *)
(* file it sends is changed.  A byte is what it belongs to and its         *)
(* position there.  The header is HeadSize bytes, whatever it says.        *)
(***************************************************************************)
EXTENDS Integers, SequencesExt

CONSTANTS
    HeadSize,
    TextSizes,          \* of what handlers set
    FileSizes,
    Gone,               \* "size" of a file that is not there
    MaxSets,            \* bound: calls of the setters
    Threshold,          \* files up to this size are sent from the cache, or from
    CacheSize,          \* a mapping when they are larger than this
    ReadSize            \* FILE_STREAM_BUF_SIZE

ASSUME WriterAssumption ==
    /\ {HeadSize, ReadSize} \subseteq Nat \ {0} /\ Gone \notin Nat
    /\ TextSizes \cup FileSizes \subseteq Nat
    /\ {MaxSets, Threshold, CacheSize} \subseteq Nat

VARIABLES
    writer,     \* arena, vectored_io; body or response_data, bytes, use_file; which
                \* header has a value that is not visible ASCII
    disk,       \* size of the file, or Gone
    pc,         \* where responser is, or how it ended
    todo,       \* the sends to come: each a sequence of slices
    written,    \* bytes of the first of them that are out
    file,       \* the open or mapped file: its size, how much is read, whether
                \* the name still leads to it
    announced,  \* content-length of the header, or None
    wire,       \* the bytes the socket has taken
    peer,       \* "reads", "stalls" or "gone"
    past        \* history: number of setters, what the body was last set to,
                \* whether response_file succeeded, the open file changed or failed

vars == <<writer, disk, pc, todo, written, file, announced, wire, peer, past>>

None == -1

Bytes(of, from, to) == [i \in 1..(to - from) |-> <<of, from + i>>]
Header == Bytes("head", 0, HeadSize)

\* Writers as parse_request makes them.
Init ==
    /\ writer \in [arena: BOOLEAN, vectored: BOOLEAN, body: {"text"}, len: {0},
                   bytes: {0}, use_file: {FALSE}, odd: {"none"}]
    /\ disk \in FileSizes \cup {Gone}
    /\ pc = "handler" /\ todo = <<>> /\ written = 0
    /\ file = [size |-> Gone, read |-> 0, linked |-> FALSE, mapped |-> FALSE]
    /\ announced = None /\ wire = <<>> /\ peer = "reads"
    /\ past = [sets |-> 0, last |-> "text", filed |-> FALSE, changed |-> FALSE]

\* Mutants: use_file is set before the path is checked; bytes come before files; a
\* slice is sent again from its start; the end of the file is not noticed; a send
\* ends a byte early.
FileEarly(ok)    == [writer EXCEPT !.body = IF ok THEN "path" ELSE @, !.use_file = TRUE]
BytesFirst       == ~writer.arena /\ writer.bytes > 0
RestOfAll(c, w)  ==
    LET k == Cardinality({j \in 1..Len(c) : Len(FlattenSeq(SubSeq(c, 1, j))) <= w})
    IN  FlattenSeq(SubSeq(c, k + 1, Len(c)))
NeverAtEnd(n)    == FALSE
WrittenAtMost(c) == written + 1 >= Len(FlattenSeq(c))

FileSet(ok) == IF ok
               THEN [writer EXCEPT !.use_file = TRUE,
                       !.body = IF disk # Gone /\ disk <= Threshold THEN "marker" ELSE "path"]
               ELSE writer
SendsBytes  == ~writer.arena /\ ~writer.use_file /\ writer.bytes > 0
AtEnd(n)    == n = 0

\* send_vectored_generic: the slices that are wholly written are skipped, the next
\* one is cut where it was left.
Rest(c, w) ==
    LET Upto(j) == Len(FlattenSeq(SubSeq(c, 1, j)))
        k == Cardinality({j \in 1..Len(c) : Upto(j) <= w})
    IN  IF k = Len(c) THEN <<>>
        ELSE SubSeq(c[k + 1], w - Upto(k) + 1, Len(c[k + 1]))
                \o FlattenSeq(SubSeq(c, k + 2, Len(c)))

Sent(c) == written >= Len(FlattenSeq(c))

\* The file is read while it is sent.
Streams == file.size # Gone /\ ~file.mapped

\* Header and content in one vectored write, or one after the other.
Both(data) == IF writer.vectored THEN <<<<Header, data>>>> ELSE <<<<Header>>, <<data>>>>

Set(what) ==
    past' = [past EXCEPT !.sets = @ + 1, !.last = what, !.filed = @ \/ what = "file"]

Handler == pc = "handler" /\ past.sets < MaxSets
-----------------------------------------------------------------------------
\* body of a Writer, set_arena_response of an ArenaWriter; use_file stays.
SetText(n) ==
    /\ Handler
    /\ writer' = [writer EXCEPT !.body = "text", !.len = n]
    /\ Set("text")
    /\ UNCHANGED <<disk, pc, todo, written, file, announced, wire, peer>>

SetBytes(n) ==
    /\ Handler /\ ~writer.arena
    /\ writer' = [writer EXCEPT !.bytes = n]
    /\ Set(past.last)
    /\ UNCHANGED <<disk, pc, todo, written, file, announced, wire, peer>>

\* A header of any bytes is set, or replaced.
SetHeader ==
    /\ pc = "handler"
    /\ \E h \in {"none", "content-type", "other"} : writer' = [writer EXCEPT !.odd = h]
    /\ UNCHANGED <<disk, pc, todo, written, file, announced, wire, peer, past>>

\* response_file: a path out of the root is refused; the size of the file decides
\* whether it is sent from the cache.
ResponseFile ==
    /\ Handler
    /\ \E ok \in BOOLEAN :
          /\ writer' = FileSet(ok)
          /\ Set(IF ok THEN "file" ELSE past.last)
    /\ UNCHANGED <<disk, pc, todo, written, file, announced, wire, peer>>

\* responser has nothing but its header to send yet, or an error before it.
Start(calls, length) ==
    /\ pc' = "send" /\ todo' = calls /\ announced' = length
    /\ UNCHANGED <<writer, disk, written, wire, peer, past>>

Refuse ==
    /\ pc' = "err"
    /\ UNCHANGED <<writer, disk, todo, written, file, announced, wire, peer, past>>

\* send_zero_copy_file: load_file returns a copy, or a mapping of the file.  The
\* content type of the handler is removed; value.to_str()? refuses the others.
RespondCached ==
    /\ pc = "handler" /\ writer.use_file /\ writer.body = "marker" /\ ~SendsBytes
    /\ \/ (disk = Gone \/ writer.odd = "other") /\ Refuse
       \/ /\ disk # Gone /\ writer.odd # "other"
          /\ Start(Both(Bytes("file", 0, disk)), disk)
          /\ IF disk > CacheSize
             THEN file' = [size |-> disk, read |-> 0, linked |-> TRUE, mapped |-> TRUE]
             ELSE UNCHANGED file

\* A larger file is opened, and announced with its size of now.
RespondFile ==
    /\ pc = "handler" /\ writer.use_file /\ writer.body = "path" /\ ~SendsBytes
    /\ \/ (disk = Gone \/ writer.odd = "other") /\ Refuse
       \/ /\ disk # Gone /\ writer.odd # "other"
          /\ Start(<<<<Header>>>>, disk)
          /\ file' = [size |-> disk, read |-> 0, linked |-> TRUE, mapped |-> FALSE]

\* A text that was set after a file is taken for a path, of which there is no
\* file; responser_arena sends nothing when that text is empty.
RespondStale ==
    /\ pc = "handler" /\ writer.use_file /\ writer.body = "text" /\ ~SendsBytes
    /\ \/ (writer.len > 0 \/ ~writer.arena) /\ Refuse
       \/ /\ writer.len = 0 /\ writer.arena
          /\ Start(<<>>, None) /\ UNCHANGED file

\* The bytes go without a content-length, unless the handler has set one.
RespondBytes ==
    /\ pc = "handler" /\ SendsBytes
    /\ \/ writer.odd # "none" /\ Refuse
       \/ /\ writer.odd = "none"
          /\ Start(Both(Bytes("bytes", 0, writer.bytes)), None)
          /\ UNCHANGED file

RespondText ==
    /\ pc = "handler" /\ ~writer.use_file /\ ~SendsBytes
    /\ \/ writer.odd # "none" /\ Refuse
       \/ LET text == Bytes("text", 0, writer.len) IN
          /\ writer.odd = "none"
          /\ Start(IF writer.arena /\ writer.len > 0 THEN Both(text) ELSE <<<<Header \o text>>>>,
                   writer.len)
          /\ UNCHANGED file

\* The socket takes some of the bytes, perhaps after the peer has gone.
Write ==
    /\ pc = "send" /\ todo # <<>> /\ ~Sent(todo[1]) /\ peer # "stalls"
    /\ LET rest == Rest(todo[1], written) IN
       \E n \in 1..Len(rest) :
          /\ wire' = wire \o SubSeq(rest, 1, n)
          /\ written' = written + n
    /\ UNCHANGED <<writer, disk, pc, todo, file, announced, peer, past>>

\* The bytes to come are of a mapping whose file is shorter by now.  What is there
\* can still be the end of a page; the system call fails where there is none.
Faults == file.mapped /\ Len(wire) >= HeadSize + file.size

\* The write fails, or takes no bytes.
WriteError ==
    /\ pc = "send" /\ todo # <<>> /\ ~Sent(todo[1])
    /\ peer = "gone" \/ (peer = "reads" /\ Faults)
    /\ pc' = "err"
    /\ UNCHANGED <<writer, disk, todo, written, file, announced, wire, peer, past>>

NextSend ==
    /\ pc = "send" /\ todo # <<>> /\ Sent(todo[1])
    /\ todo' = Tail(todo) /\ written' = 0
    /\ UNCHANGED <<writer, disk, pc, file, announced, wire, peer, past>>

\* All is sent; or a piece of the open file is read, the end of which, like any
\* error, ends the response.
Finish ==
    /\ pc = "send" /\ todo = <<>> /\ ~Streams
    /\ pc' = "ok"
    /\ UNCHANGED <<writer, disk, todo, written, file, announced, wire, peer, past>>

ReadFile ==
    LET left == IF file.size > file.read THEN file.size - file.read ELSE 0
        n    == IF left < ReadSize THEN left ELSE ReadSize IN
    /\ pc = "send" /\ todo = <<>> /\ Streams
    /\ IF AtEnd(n)
       THEN pc' = "ok" /\ UNCHANGED <<todo, file>>
       ELSE /\ todo' = <<<<Bytes("file", file.read, file.read + n)>>>>
            /\ file' = [file EXCEPT !.read = @ + n]
            /\ UNCHANGED pc
    /\ UNCHANGED <<writer, disk, written, announced, wire, peer, past>>

ReadError ==
    /\ pc = "send" /\ todo = <<>> /\ Streams
    /\ pc' = "ok"
    /\ past' = [past EXCEPT !.changed = TRUE]
    /\ UNCHANGED <<writer, disk, todo, written, file, announced, wire, peer>>

\* The handler drops the response at an await.
Cancel ==
    /\ pc = "send"
    /\ pc' = "dropped"
    /\ UNCHANGED <<writer, disk, todo, written, file, announced, wire, peer, past>>

PeerChange ==
    /\ peer # "gone"
    /\ peer' \in {"reads", "stalls", "gone"} \ {peer}
    /\ UNCHANGED <<writer, disk, pc, todo, written, file, announced, wire, past>>

\* Somebody writes to the file, removes or makes it.  One that is open keeps its
\* content when it is removed.
Change ==
    /\ disk' \in FileSizes \cup {Gone}
    /\ LET inplace == file.linked /\ disk' # Gone IN
       /\ file' = [file EXCEPT !.size = IF inplace THEN disk' ELSE @,
                               !.linked = inplace]
       /\ past' = [past EXCEPT !.changed = @ \/ inplace]
    /\ UNCHANGED <<writer, pc, todo, written, announced, wire, peer>>

Respond == RespondCached \/ RespondFile \/ RespondStale \/ RespondBytes \/ RespondText
Send    == Write \/ WriteError \/ NextSend \/ Finish \/ ReadFile

Next ==
    \/ \E n \in TextSizes : SetText(n) \/ SetBytes(n)
    \/ SetHeader \/ ResponseFile \/ Respond \/ Send \/ ReadError \/ Cancel \/ PeerChange \/ Change

Spec == Init /\ [][Next]_vars

\* A response whose socket or file is ready is polled.
FairSpec == Spec /\ WF_vars(Send)
-----------------------------------------------------------------------------
Byte == {"head", "text", "bytes", "file"} \X (Nat \ {0})

\* The types of the variables; as much is out as the sends are long.
TypeOK ==
    /\ writer \in [arena: BOOLEAN, vectored: BOOLEAN, body: {"text", "path", "marker"},
                   len: TextSizes \cup {0}, bytes: TextSizes \cup {0}, use_file: BOOLEAN,
                   odd: {"none", "content-type", "other"}]
    /\ disk \in FileSizes \cup {Gone}
    /\ pc \in {"handler", "send", "ok", "err", "dropped"}
    /\ todo \in Seq(Seq(Seq(Byte))) /\ wire \in Seq(Byte)
    /\ written \in 0..(IF todo = <<>> THEN 0 ELSE Len(FlattenSeq(todo[1])))
    /\ file \in [size: FileSizes \cup {Gone}, read: Nat, linked: BOOLEAN, mapped: BOOLEAN]
    /\ announced \in Nat \cup {None} /\ peer \in {"reads", "stalls", "gone"}
    /\ past \in [sets: 0..MaxSets, last: {"text", "file"}, filed: BOOLEAN,
                 changed: BOOLEAN]

\* However the socket cuts them, the bytes go out once and in order: the header,
\* then the content from its start, all of one source.
InOrder ==
    \A i \in 1..Len(wire) :
        IF i <= HeadSize THEN wire[i] = <<"head", i>>
        ELSE wire[i] = <<wire[HeadSize + 1][1], i - HeadSize>> /\ wire[i][1] # "head"

\* When responser returns Ok, the peer has had the header and as many bytes as it
\* announces, unless the file was changed in place or could not be read while it
\* was sent, or a text that was set after a file is empty.
WholeWhenOk ==
    (pc = "ok" /\ announced # None /\ ~past.changed) => Len(wire) = HeadSize + announced

\* Whatever responser meets of its own, a file that is not there or a header that it
\* cannot write, it meets before the first byte: after an error the handler can send
\* another response, unless the peer is gone or a mapped file was changed while it
\* was sent.  And only a response that was given a file, or such a header, fails.
FailsClean ==
    (pc = "err" /\ peer # "gone" /\ ~(file.mapped /\ past.changed)) =>
        wire = <<>> /\ (past.filed \/ writer.odd # "none")

\* What is sent was set, and is not what was replaced: a file is not sent when a
\* text was set after it, and after a file, or with bytes, no text is sent.
SendsWhatWasSet ==
    Len(wire) > HeadSize =>
        LET of == wire[HeadSize + 1][1] IN
        /\ of = "file" => past.last = "file"
        /\ of = "bytes" => ~past.filed
        /\ of = "text" => past.last = "text" /\ ~past.filed /\ writer.bytes = 0

\* responser returns as long as the peer does not stall, however often the file is
\* cut and written again while it is sent, if its size stays below some bound: each
\* round of the loop takes the reader nearer to it.  (A file that is appended to as
\* fast as it is sent for ever keeps the loop going.)
Returns == (pc = "send") ~> (pc # "send" \/ peer = "stalls")
=============================================================================
