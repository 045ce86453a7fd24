----------------------------- MODULE ByteSearch -----------------------------
(***************************************************************************)
(* The search for the end of a header: by windows of four bytes, and by    *)
(* chunks of a vector register's width whose candidates are then compared. *)
(* Positions count from 1; 0 is None.                                      *)
(***************************************************************************)
EXTENDS Naturals, Sequences

CONSTANTS Sse2, Avx2        \* the widths of the registers: 16 and 32

ASSUME WidthAssumption == {Sse2, Avx2} \subseteq Nat \ {0}

CR == <<"CR">>
LF == <<"LF">>
CRLF == <<CR, LF>>
HeaderEnd == <<CR, LF, CR, LF>>

\* d stands in s at position i.
At(s, d, i) == i + Len(d) <= Len(s) + 1 /\ SubSeq(s, i, i + Len(d) - 1) = d

HeaderEnds(s) == {i \in 1..Len(s) : At(s, HeaderEnd, i)}

First(S) == IF S = {} THEN 0 ELSE CHOOSE i \in S : \A j \in S : i <= j

FindScalar(s) == First(HeaderEnds(s))

\* Mutant: a marker is found only within one chunk.
WithinChunk(s, w) == {i \in HeaderEnds(s) : i <= (Len(s) \div w) * w /\ ((i - 1) % w) + 4 <= w}

\* What the loop over i < Len(s) - (w - 1) in steps of w covers, and the hits it
\* finds: they begin in a chunk, and may end beyond it.
Whole(s, w) == (Len(s) \div w) * w
Hits(s, w) == {i \in HeaderEnds(s) : i <= Whole(s, w)}
Rest(s, w)  == SubSeq(s, Whole(s, w) + 1, Len(s))
Shift(i, n) == IF i = 0 THEN 0 ELSE i + n

FindSse2(s) ==
    IF Len(s) < Sse2 THEN FindScalar(s)
    ELSE IF Hits(s, Sse2) # {} THEN First(Hits(s, Sse2))
    ELSE Shift(FindScalar(Rest(s, Sse2)), Whole(s, Sse2))

FindAvx2(s) ==
    IF Len(s) < Avx2 THEN FindSse2(s)
    ELSE IF Hits(s, Avx2) # {} THEN First(Hits(s, Avx2))
    ELSE Shift(FindSse2(Rest(s, Avx2)), Whole(s, Avx2))

\* Whatever the build and the processor, the same end of the header is found.
FindAgrees(s) == FindSse2(s) = FindScalar(s) /\ FindAvx2(s) = FindScalar(s)
=============================================================================
