-------------------------------- MODULE Forms --------------------------------
(***************************************************************************)
(* multipart/form-data: a client writes a form and the two readers of the  *)
(* library take the body apart, get_multi_part by its own split_bytes and  *)
(* get_multi_part_arena by split_bytes_arena.  A body is a sequence of     *)
(* bytes, those the readers compare and Byte for any other, with a name, a *)
(* file name and a line of the header in one token each.                   *)
(***************************************************************************)
EXTENDS ByteSearch, SequencesExt

CONSTANTS
    Name,               \* of fields, none of them empty
    FileName,           \* of files; "" is what a form without a chosen file sends
    Content,            \* sequences of CR, LF, Dash, Byte and NotUtf8
    Boundary,           \* sequences of Dash and Byte
    MaxParts            \* bound: the parts of a form

VARIABLES
    boundary,           \* of the form, <<>> before the client has chosen it
    parts               \* what the client has written of the form

formVars == <<boundary, parts>>

Dash     == <<"-">>
Byte     == <<"x">>
NotUtf8  == <<"xFF">>
Replaced == <<"U+FFFD">>
NameIs(n) == <<"name", n>>
FileIs(f) == <<"filename", f>>
Header    == <<"Content-Type: x">>

NoFile   == "no file"
NotFound == "not found"

\* The code has None for what is not found, which no name is.
ASSUME FormAssumption ==
    /\ Name \cup FileName \subseteq STRING \ {NoFile, NotFound}
    /\ Content \subseteq Seq({CR, LF, Dash, Byte, NotUtf8})
    /\ Boundary \subseteq Seq({Dash, Byte}) \ {<<>>}

Part == [name: Name, file: FileName \cup {NoFile}, header: {Header, NotUtf8},
         content: Content]

Marker  == <<Dash, Dash>> \o boundary
Closing == <<Dash, Dash, CR, LF>>

\* The tests' make_multipart_body, with a header of the part's own.
EncodedPart(p) ==
    Marker \o CRLF \o <<NameIs(p.name)>>
        \o (IF p.file = NoFile THEN <<>> ELSE <<FileIs(p.file)>>) \o CRLF
        \o <<p.header>> \o CRLF \o CRLF \o p.content \o CRLF

Encoded(ps) ==
    FlattenSeq([i \in DOMAIN ps |-> EncodedPart(ps[i])]) \o Marker \o Closing

(***************************************************************************)
(* split_bytes and split_bytes_arena.                                      *)
(***************************************************************************)

\* What lies between two delimiters is a piece unless it is empty; the last one
\* also if it closes the form.
Added(pieces, s, from, to) ==
    IF from <= to THEN Append(pieces, SubSeq(s, from, to)) ELSE pieces

WithLast(a, s) ==
    IF SubSeq(s, a.start, Len(s)) = Closing THEN a.pieces
    ELSE Added(a.pieces, s, a.start, Len(s))

Past(d, i) == i + Len(d)

\* i goes on behind a delimiter it has found.
SplitStep(a, s, d, i) ==
    IF i >= a.next /\ At(s, d, i)
    THEN [start |-> Past(d, i), next |-> Past(d, i),
          pieces |-> Added(a.pieces, s, a.start, i - 1)]
    ELSE a

\* i visits every position, those within a delimiter too.
SplitStepArena(a, s, d, i) ==
    IF At(s, d, i)
    THEN [a EXCEPT !.start = Past(d, i), !.pieces = Added(a.pieces, s, a.start, i - 1)]
    ELSE a

Nothing == [start |-> 1, next |-> 1, pieces |-> <<>>]

SplitBytes(s, d) ==
    IF d = <<>> \/ Len(s) < Len(d) THEN <<>>
    ELSE WithLast(FoldLeftDomain(LAMBDA a, i : SplitStep(a, s, d, i), Nothing, s), s)

SplitBytesArena(s, d) ==
    WithLast(FoldLeftDomain(LAMBDA a, i : SplitStepArena(a, s, d, i), Nothing, s), s)

(***************************************************************************)
(* get_multi_part.                                                         *)
(***************************************************************************)

Holds(s, token) == \E i \in DOMAIN s : s[i] = token

\* The value of a key of Content-Disposition; a line that another cuts off is not
\* found.
Value(header, key) ==
    LET Is == {i \in DOMAIN header : Len(header[i]) = 2 /\ header[i][1] = key}
    IN  IF Is = {} THEN NotFound ELSE header[First(Is)][2]

\* Mutant: the dashes at the end of s go too.
TrimmedDashes(s) ==
    LET Stays == {i \in DOMAIN s : s[i] \notin {CR, LF, Dash}}
    IN  IF Stays = {} THEN <<>> ELSE SubSeq(s, 1, CHOOSE i \in Stays : \A j \in Stays : j <= i)

\* All CR and LF at the end of s go.
Trimmed(s) ==
    LET Stays == {i \in DOMAIN s : s[i] \notin {CR, LF}}
    IN  IF Stays = {} THEN <<>> ELSE SubSeq(s, 1, CHOOSE i \in Stays : \A j \in Stays : j <= i)

Lossy(s) == [i \in DOMAIN s |-> IF s[i] = NotUtf8 THEN Replaced ELSE s[i]]

EmptyForm == [ok |-> TRUE, text_fields |-> <<>>, parts |-> <<>>]
Failure   == [EmptyForm EXCEPT !.ok = FALSE]

WithText(form, n, v) ==
    [form EXCEPT !.text_fields = Append(@, [name |-> n, value |-> v])]
WithFile(form, n, f, b) ==
    [form EXCEPT !.parts = Append(@, [name |-> n, file |-> f, body |-> b])]

\* One piece: without the end of its header, or with one that is not UTF-8, it is
\* passed over, and so is a file with an empty name.
ReadPart(form, piece) ==
    LET end    == FindScalar(piece)
        header == SubSeq(piece, 1, end - 1)
        body   == Trimmed(SubSeq(piece, end + 4, Len(piece)))
        name   == Value(header, "name")
        file   == Value(header, "filename")
    IN  IF end = 0 \/ Holds(header, NotUtf8) THEN form
        ELSE IF file \notin {NotFound, ""} THEN WithFile(form, name, file, body)
        ELSE IF file = NotFound /\ name # NotFound THEN WithText(form, name, Lossy(body))
        ELSE form

GetMultiPart(data) == FoldLeft(ReadPart, EmptyForm, SplitBytes(data, Marker))

(***************************************************************************)
(* get_multi_part_arena, whose fields are slices of the body.              *)
(***************************************************************************)

ReadPartArena(form, piece) ==
    LET end    == FindAvx2(piece)
        header == IF end = 0 THEN piece ELSE SubSeq(piece, 1, end - 1)
        body   == IF end = 0 THEN <<>> ELSE SubSeq(piece, end + 4, Len(piece))
        name   == Value(header, "name")
        file   == Value(header, "filename")
    IN  IF ~form.ok \/ Holds(header, NotUtf8) THEN Failure
        ELSE IF name = NotFound THEN form
        ELSE IF file # NotFound THEN WithFile(form, name, file, body)
        ELSE IF body # <<>> THEN WithText(form, name, body)
        ELSE form

GetMultiPartArena(data) ==
    FoldLeft(ReadPartArena, EmptyForm, SplitBytesArena(data, Marker))

(***************************************************************************)
(* The client.                                                             *)
(***************************************************************************)

FormInit == boundary = <<>> /\ parts = <<>>

ChooseBoundary ==
    /\ boundary = <<>>
    /\ boundary' \in Boundary
    /\ UNCHANGED parts

\* No content holds the delimiter.
AddPart ==
    /\ boundary # <<>> /\ Len(parts) < MaxParts
    /\ \E p \in Part :
        /\ \A i \in DOMAIN p.content : ~At(p.content, Marker, i)
        /\ parts' = Append(parts, p)
    /\ UNCHANGED boundary

-----------------------------------------------------------------------------

\* A content without the newlines at its end.
Bare(s) ==
    CHOOSE q \in Prefixes(s) :
        /\ \A i \in (Len(q) + 1)..Len(s) : s[i] \in {CR, LF}
        /\ q # <<>> => q[Len(q)] \notin {CR, LF}

\* The parts whose content is all there, and what may be left of one that is cut
\* short: of its content and what follows it, or of its header.
CutShort(p) ==
    {[p EXCEPT !.content = q] : q \in Prefixes(p.content \o CRLF \o Marker)}
        \cup {[p EXCEPT !.header = Header, !.content = <<>>]}

\* The tokens that have come when the first k parts are whole, with the delimiter
\* after them.
WholeAt(k) == Len(Encoded(SubSeq(parts, 1, k))) - Len(Closing)

\* Cuts before the last part is whole or begun are those of a form without it.
Cuts == (IF parts = <<>> THEN 0 ELSE WholeAt(Len(parts) - 1))..Len(Encoded(parts))

Deliverable(n) ==
    IF parts = <<>> \/ n >= WholeAt(Len(parts)) THEN {parts}
    ELSE {Front(parts)} \cup {Append(Front(parts), p) : p \in CutShort(Last(parts))}

Arrived(n) == SubSeq(Encoded(parts), 1, n)

SameText(got, sent) == Bare(Lossy(got)) = Bare(Lossy(sent))
SameBody(got, sent) == Bare(got) = Bare(sent)

\* A form holds these texts and files, in their order.
Returned(form, texts, files) ==
    /\ Len(form.text_fields) = Len(texts) /\ Len(form.parts) = Len(files)
    /\ \A i \in DOMAIN texts :
        /\ form.text_fields[i].name = texts[i].name
        /\ SameText(form.text_fields[i].value, texts[i].content)
    /\ \A i \in DOMAIN files :
        /\ form.parts[i].name = files[i].name /\ form.parts[i].file = files[i].file
        /\ SameBody(form.parts[i].body, files[i].content)

\* A part whose header is not UTF-8 is none; a file without a name may be none.
AsSent(form, n) ==
    \E ps \in Deliverable(n), unnamed \in BOOLEAN :
        LET Read(p)   == p.header = Header
            IsText(p) == Read(p) /\ p.file = NoFile
            IsFile(p) == Read(p) /\ p.file # NoFile /\ (p.file = "" => unnamed)
        IN  Returned(form, SelectSeq(ps, IsText), SelectSeq(ps, IsFile))

\* However much of a form arrives (the readers of requests deliver a body that was
\* cut short as if it were whole), each of the two readers returns the fields and
\* files that are whole in it, in their order, each with its own name and, up to
\* newlines at its end, its own content, and at most one that is cut short.
\* get_multi_part_arena may fail instead, but only if a header is not UTF-8.
FormAsSent ==
    boundary # <<>> => \A n \in Cuts :
        LET data  == Arrived(n)
            arena == GetMultiPartArena(data)
        IN  /\ AsSent(GetMultiPart(data), n)
            /\ IF arena.ok THEN AsSent(arena, n)
               ELSE \E i \in DOMAIN parts : parts[i].header = NotUtf8

\* The pieces that may be parts.
Named(pieces) ==
    LET IsNamed(piece) == Value(piece, "name") # NotFound IN SelectSeq(pieces, IsNamed)

\* The searches agree on all that a client may have sent of a form: those for the
\* end of a header whatever the processor's registers, and the two splits on the
\* pieces that have a name, though one visits the positions within a delimiter too:
\* delimiters of dashes only overlap each other and the mark at the form's end.
SearchesAgree ==
    boundary # <<>> => \A n \in Cuts :
        LET data == Arrived(n)
        IN  /\ FindAgrees(data)
            /\ Named(SplitBytes(data, Marker)) = Named(SplitBytesArena(data, Marker))
=============================================================================
