--------------------------- MODULE FileTailProofs ---------------------------
(***************************************************************************)
(* Proofs about FileTail, for every content of the files, every line limit *)
(* and every way the bytes come in.                                        *)
(***************************************************************************)
EXTENDS FileTail, FiniteSetTheorems, SequenceTheorems, WellFoundedInduction, TLAPS

-----------------------------------------------------------------------------
(* The parts of the inductive invariant. *)

Line == [num : Nat, text : Seq(Bytes), start : Nat, end : Nat]

TypeInv ==
    /\ content \in [0 .. MaxInodes -> Seq(Bytes)] /\ entry \in 1 .. MaxInodes
    /\ fd \in 0 .. MaxInodes /\ pos \in Nat /\ lineCount \in Nat
    /\ script \in Seq(Bytes)
    /\ mode \in {"cat", "tail"}
    /\ data \in Seq(Bytes) /\ partialLine \in Seq(Bytes) /\ taken \in Seq(Bytes)
    /\ lines \in Seq(Line)

\* A link that the open has met is still there for the second look, unless the
\* file was put back in between.
LinkInv ==
    /\ pc = "recheck" /\ fd = LinkTarget => linked \/ restored
    /\ LinkNeverRead

\* Where the bytes wait: the scanner has no partial line, and tail splits all
\* it has read before it reads again.
BufferInv ==
    Reading =>
        /\ mode = "cat" => partialLine = << >> /\ pc = "read"
        /\ mode = "tail" /\ pc # "split" => data = << >>

Unsplit == Len(taken) - Len(data)
Waiting == Unsplit - Len(partialLine)

\* A line without a newline that is shorter than the limit is the last one of a
\* scanner at the end of the file.
EndInv ==
    Reading =>
        \A i \in DOMAIN lines :
            \/ lines[i].end > 0 /\ taken[lines[i].end] = Newline
            \/ Len(lines[i].text) >= LineLimit
            \/ i = Len(lines) /\ mode = "cat" /\ atEOF /\ data = << >>

\* The lines are consecutive pieces of what was read, and the rest waits.
Pieces ==
    /\ Waiting >= 0
    /\ At(partialLine, Waiting) /\ At(data, Unsplit)
    /\ \A i \in DOMAIN lines :
          /\ At(lines[i].text, lines[i].start)
          /\ lines[i].start + Len(lines[i].text) <= lines[i].end
          /\ lines[i].end <= Waiting
          /\ i < Len(lines) => lines[i].end <= lines[i + 1].start

Piece(l) == l.start + 1 .. l.start + Len(l.text)

Covered(k) == taken[k] = Newline \/ \E i \in DOMAIN lines : k \in Piece(lines[i])

PieceInv == Reading => Pieces /\ \A k \in 1 .. Waiting : Covered(k)

IInv == TypeInv /\ LinkInv /\ BufferInv /\ EndInv /\ PieceInv

-----------------------------------------------------------------------------
(* The first newline. *)

LEMMA LeastElement ==
    ASSUME NEW T \in SUBSET Nat, T # {}
    PROVE  Min(T) \in T /\ \A y \in T : Min(T) <= y
<1> DEFINE R == {ss \in Nat \X Nat : ss[1] < ss[2]}
<1>1. IsWellFoundedOn(R, Nat)
  BY NatLessThanWellFounded, Zenon DEF OpToRel
<1>2. \A x, y \in Nat : <<x, y>> \in R <=> x < y
  OBVIOUS
<1> HIDE DEF R
<1>3. PICK x \in T : \A y \in T : ~(<<y, x>> \in R)
  BY <1>1, WFMin
<1>4. ASSUME NEW y \in T PROVE x <= y
  <2>1. x \in Nat /\ y \in Nat /\ ~(y < x)
    BY <1>2, <1>3
  <2> QED BY <2>1
<1> QED BY <1>4 DEF Min

LEMMA FirstNewlineFacts ==
    ASSUME NEW s \in Seq(Bytes)
    PROVE  /\ FirstNewline(s) \in 0 .. Len(s)
           /\ FirstNewline(s) > 0 => s[FirstNewline(s)] = Newline
           /\ \A k \in 1 .. Len(s) : s[k] = Newline => FirstNewline(s) > 0 /\ FirstNewline(s) <= k
<1> DEFINE I == {i \in 1 .. Len(s) : s[i] = Newline}
<1>1. FirstNewline(s) = IF I # {} THEN Min(I) ELSE 0
  BY DEF FirstNewline, SelectInSeq
<1>2. I \in SUBSET Nat /\ Len(s) \in Nat
  OBVIOUS
<1>3. CASE I # {}
  <2>1. Min(I) \in I /\ \A y \in I : Min(I) <= y
    BY <1>2, <1>3, LeastElement
  <2>2. \A k \in 1 .. Len(s) : s[k] = Newline => k \in I
    OBVIOUS
  <2>3. PICK m \in 1 .. Len(s) : m = Min(I) /\ s[m] = Newline
    BY <2>1
  <2>4. FirstNewline(s) = m
    BY <1>1, <1>3, <2>3
  <2> HIDE DEF I
  <2> QED BY <1>2, <2>1, <2>2, <2>3, <2>4
<1>4. CASE I = {}
  <2>1. FirstNewline(s) = 0 /\ \A k \in 1 .. Len(s) : s[k] # Newline
    BY <1>1, <1>4
  <2> QED BY <1>2, <2>1
<1> QED BY <1>3, <1>4

-----------------------------------------------------------------------------
(* The pieces. *)

LEMMA LineFacts ==
    ASSUME TypeInv
    PROVE  /\ Len(taken) \in Nat /\ Len(data) \in Nat /\ Len(partialLine) \in Nat /\ Len(lines) \in Nat
           /\ Unsplit \in Int /\ Waiting \in Int
           /\ \A i \in DOMAIN lines : /\ lines[i] \in Line
                                      /\ lines[i].start \in Nat /\ lines[i].end \in Nat
                                      /\ lines[i].text \in Seq(Bytes) /\ Len(lines[i].text) \in Nat
                                      /\ i \in 1 .. Len(lines)
<1>1. /\ taken \in Seq(Bytes) /\ data \in Seq(Bytes) /\ partialLine \in Seq(Bytes) /\ lines \in Seq(Line)
  BY DEF TypeInv
<1>2. Len(taken) \in Nat /\ Len(data) \in Nat /\ Len(partialLine) \in Nat /\ Len(lines) \in Nat
  BY <1>1
<1>3. \A l \in Line : l.start \in Nat /\ l.end \in Nat /\ l.text \in Seq(Bytes) /\ Len(l.text) \in Nat
  BY DEF Line
<1>4. \A i \in DOMAIN lines : lines[i] \in Line /\ i \in 1 .. Len(lines)
  BY <1>1
<1> QED BY <1>2, <1>3, <1>4 DEF Unsplit, Waiting

LEMMA PieceBounds ==
    ASSUME TypeInv, Pieces, NEW i \in DOMAIN lines, NEW k \in 1 .. Len(lines[i].text)
    PROVE  /\ lines[i].start + k \in 1 .. Len(taken)
           /\ lines[i].text[k] = taken[lines[i].start + k]
           /\ lines[i].end \in 0 .. Len(taken)
<1>0. LineFacts!2
  BY LineFacts
<1>1. PICK s \in Nat, n \in Nat, e \in Nat : s = lines[i].start /\ n = Len(lines[i].text) /\ e = lines[i].end
  BY <1>0
<1>2. s + n <= e /\ e <= Waiting /\ Waiting <= Len(taken)
  BY <1>0, <1>1 DEF Pieces, Waiting, Unsplit
<1>3. e <= Len(taken) /\ s + k <= Len(taken)
  <2>1. k \in 1 .. n /\ Waiting \in Int /\ Len(taken) \in Nat
    BY <1>0, <1>1
  <2> QED BY <1>2, <2>1
<1>4. lines[i].text[k] = taken[lines[i].start + k]
  <2>1. k \in DOMAIN lines[i].text
    BY <1>0
  <2> QED BY <2>1 DEF Pieces, At
<1>5. s + k \in 1 .. Len(taken) /\ e \in 0 .. Len(taken)
  <2>1. k \in 1 .. n /\ Len(taken) \in Nat
    BY <1>0, <1>1
  <2> QED BY <1>3, <2>1
<1> QED BY <1>1, <1>4, <1>5, Zenon

\* Bytes are read.
LEMMA ReadPieces ==
    ASSUME TypeInv, Pieces, \A k \in 1 .. Waiting : Covered(k),
           NEW chunk \in Seq(Bytes), data' = data \o chunk, taken' = taken \o chunk,
           UNCHANGED <<partialLine, lines>>
    PROVE  /\ Pieces' /\ Waiting' = Waiting /\ \A k \in 1 .. Waiting : Covered(k)'
           /\ \A k \in 1 .. Len(taken) : taken'[k] = taken[k]
<1>0. LineFacts!2
  BY LineFacts
<1>1. Len(chunk) \in Nat /\ data \in Seq(Bytes) /\ taken \in Seq(Bytes) /\ partialLine \in Seq(Bytes)
  BY DEF TypeInv
<1>2. /\ Len(taken') = Len(taken) + Len(chunk) /\ Len(data') = Len(data) + Len(chunk)
      /\ \A k \in 1 .. Len(taken) : taken'[k] = taken[k]
      /\ \A k \in 1 .. Len(chunk) : taken'[Len(taken) + k] = chunk[k]
      /\ \A k \in 1 .. Len(data) : data'[k] = data[k]
      /\ \A k \in 1 .. Len(chunk) : data'[Len(data) + k] = chunk[k]
      /\ DOMAIN data' = 1 .. Len(data) + Len(chunk)
  <2>1. data' \in Seq(Bytes) /\ taken' \in Seq(Bytes)
    BY <1>1
  <2> QED BY <1>1, <2>1
<1>3. Unsplit' = Unsplit /\ Waiting' = Waiting
  BY <1>0, <1>1, <1>2 DEF Unsplit, Waiting
<1>4. At(partialLine, Waiting)'
  <2>1. ASSUME NEW k \in DOMAIN partialLine PROVE partialLine[k] = taken'[Waiting + k]
    <3>1. k \in 1 .. Len(partialLine) /\ partialLine[k] = taken[Waiting + k]
      BY <1>1 DEF Pieces, At
    <3>2. Waiting + k \in 1 .. Len(taken)
      BY <1>0, <3>1 DEF Pieces, Waiting, Unsplit
    <3> QED BY <1>2, <3>1, <3>2
  <2> QED BY <1>3, <2>1 DEF At
<1>5. At(data, Unsplit)'
  <2>1. ASSUME NEW k \in DOMAIN data' PROVE data'[k] = taken'[Unsplit + k]
    <3>1. CASE k \in 1 .. Len(data)
      <4>1. data[k] = taken[Unsplit + k]
        BY <1>1, <3>1 DEF Pieces, At
      <4>2. Unsplit + k \in 1 .. Len(taken)
        BY <1>0, <3>1 DEF Pieces, Waiting, Unsplit
      <4> QED BY <1>2, <3>1, <4>1, <4>2
    <3>2. CASE k \notin 1 .. Len(data)
      <4>1. k - Len(data) \in 1 .. Len(chunk) /\ k \in Int
        BY <1>0, <1>1, <1>2, <3>2
      <4>2. data'[Len(data) + (k - Len(data))] = chunk[k - Len(data)]
            /\ taken'[Len(taken) + (k - Len(data))] = chunk[k - Len(data)]
        BY <1>2, <4>1
      <4>3. Len(data) + (k - Len(data)) = k /\ Len(taken) + (k - Len(data)) = Unsplit + k
        BY <1>0, <4>1 DEF Unsplit
      <4> QED BY <4>2, <4>3
    <3> QED BY <3>1, <3>2
  <2> QED BY <1>3, <2>1 DEF At
<1>6. ASSUME NEW i \in DOMAIN lines PROVE At(lines[i].text, lines[i].start)'
  <2>1. ASSUME NEW k \in DOMAIN lines[i].text PROVE lines[i].text[k] = taken'[lines[i].start + k]
    <3>1. k \in 1 .. Len(lines[i].text)
      BY <1>0
    <3>2. lines[i].start + k \in 1 .. Len(taken)
      BY <1>0, <3>1, PieceBounds
    <3> QED BY <1>2, <3>1, <3>2 DEF Pieces, At
  <2> QED BY <2>1 DEF At
<1>7. Pieces'
  BY <1>3, <1>4, <1>5, <1>6 DEF Pieces
<1>8. ASSUME NEW k \in 1 .. Waiting PROVE Covered(k)'
  <2>1. taken'[k] = taken[k]
    BY <1>0, <1>2 DEF Waiting, Unsplit
  <2> QED BY <2>1 DEF Covered
<1> QED BY <1>2, <1>3, <1>7, <1>8

\* The first m bytes of the data are taken off.
LEMMA ConsumeData ==
    ASSUME TypeInv, TypeInv', Pieces, UNCHANGED taken, partialLine' = << >>,
           NEW m \in 0 .. Len(data), Len(data') = Len(data) - m,
           \A k \in 1 .. Len(data') : data'[k] = data[m + k]
    PROVE  /\ Waiting' = Unsplit + m /\ Waiting <= Waiting' /\ Waiting' <= Len(taken) /\ Waiting' >= 0
           /\ At(partialLine, Waiting)' /\ At(data, Unsplit)'
<1>0. /\ Len(taken) \in Nat /\ Len(data) \in Nat /\ Len(partialLine) \in Nat /\ Waiting >= 0
      /\ data \in Seq(Bytes) /\ data' \in Seq(Bytes) /\ Len(<< >>) = 0 /\ Len(data') \in Nat
  BY LineFacts DEF Pieces, TypeInv
<1>1. Unsplit' = Unsplit + m /\ Waiting' = Unsplit + m /\ Waiting <= Waiting' /\ Waiting' <= Len(taken) /\ Waiting' >= 0
  BY <1>0 DEF Waiting, Unsplit
<1>2. ASSUME NEW k \in 1 .. Len(data') PROVE data'[k] = taken'[Unsplit' + k]
  <2>1. m + k \in DOMAIN data /\ Unsplit' + k = Unsplit + (m + k)
    BY <1>0, <1>1 DEF Unsplit
  <2> QED BY <2>1 DEF Pieces, At
<1>3. At(data, Unsplit)'
  BY <1>0, <1>2 DEF At
<1>4. At(partialLine, Waiting)'
  BY DEF At
<1> QED BY <1>1, <1>3, <1>4

\* Nothing but newlines is taken off.
LEMMA SkipPieces ==
    ASSUME TypeInv, TypeInv', Pieces, \A k \in 1 .. Waiting : Covered(k),
           UNCHANGED <<taken, lines>>, partialLine' = << >>,
           NEW m \in 0 .. Len(data), Len(data') = Len(data) - m,
           \A k \in 1 .. Len(data') : data'[k] = data[m + k],
           \A k \in Waiting + 1 .. Waiting' : taken[k] = Newline
    PROVE  Pieces' /\ \A k \in 1 .. Waiting' : Covered(k)'
<1>1. /\ Waiting' = Unsplit + m /\ Waiting <= Waiting' /\ Waiting' <= Len(taken) /\ Waiting' >= 0
      /\ At(partialLine, Waiting)' /\ At(data, Unsplit)'
  BY ConsumeData
<1>2. Waiting \in Int /\ Waiting' \in Int /\ \A i \in DOMAIN lines : lines[i].end \in Nat
  <2>1. Unsplit \in Int /\ m \in Int
    BY LineFacts
  <2> QED BY <1>1, <2>1, LineFacts
<1>3. ASSUME NEW i \in DOMAIN lines PROVE lines[i].end <= Waiting'
  <2>1. lines[i].end <= Waiting /\ lines[i].end \in Nat
    BY <1>2 DEF Pieces
  <2> QED BY <1>1, <1>2, <2>1
<1>4. Pieces'
  BY <1>1, <1>3 DEF Pieces, At
<1>5. ASSUME NEW k \in 1 .. Waiting' PROVE Covered(k)'
  <2>1. k \in 1 .. Waiting \/ k \in Waiting + 1 .. Waiting'
    BY <1>2
  <2> QED BY <2>1 DEF Covered
<1> QED BY <1>4, <1>5

\* A line is taken off, and the newline after it.
LEMMA LinePieces ==
    ASSUME TypeInv, TypeInv', Pieces, \A k \in 1 .. Waiting : Covered(k),
           UNCHANGED taken, partialLine' = << >>,
           NEW m \in 0 .. Len(data), Len(data') = Len(data) - m,
           \A k \in 1 .. Len(data') : data'[k] = data[m + k],
           NEW l \in Line, lines' = Append(lines, l), l.start = Waiting, l.end = Waiting',
           At(l.text, Waiting), Waiting + Len(l.text) <= Waiting',
           \A k \in Waiting + Len(l.text) + 1 .. Waiting' : taken[k] = Newline
    PROVE  Pieces' /\ \A k \in 1 .. Waiting' : Covered(k)'
<1>1. /\ Waiting' = Unsplit + m /\ Waiting <= Waiting' /\ Waiting' <= Len(taken) /\ Waiting' >= 0
      /\ At(partialLine, Waiting)' /\ At(data, Unsplit)'
  BY ConsumeData
<1>2. /\ Waiting \in Int /\ Waiting' \in Int /\ \A i \in DOMAIN lines : lines[i].end \in Nat
      /\ Len(lines) \in Nat /\ Len(l.text) \in Nat /\ lines \in Seq(Line)
      /\ l.start \in Nat /\ l.end \in Nat
  <2>1. Unsplit \in Int /\ m \in Int
    BY LineFacts
  <2>2. l.start \in Nat /\ l.end \in Nat /\ l.text \in Seq(Bytes)
    BY DEF Line
  <2>3. Len(l.text) \in Nat /\ Waiting' \in Int
    BY <1>1, <2>1, <2>2
  <2>4. lines \in Seq(Line)
    BY DEF TypeInv
  <2> QED BY <2>2, <2>3, <2>4, LineFacts
<1>3. /\ DOMAIN lines = 1 .. Len(lines) /\ DOMAIN lines' = 1 .. Len(lines) + 1 /\ Len(lines') = Len(lines) + 1
      /\ \A i \in 1 .. Len(lines) : lines'[i] = lines[i]
      /\ lines'[Len(lines) + 1] = l
  BY <1>2
<1>4. ASSUME NEW i \in DOMAIN lines'
      PROVE  /\ At(lines[i].text, lines[i].start)'
             /\ lines'[i].start + Len(lines'[i].text) <= lines'[i].end
             /\ lines'[i].end <= Waiting'
             /\ i < Len(lines') => lines'[i].end <= lines'[i + 1].start
  <2>1. CASE i = Len(lines) + 1
    <3>1. lines'[i] = l /\ ~(i < Len(lines'))
      BY <1>2, <1>3, <2>1
    <3>2. At(lines[i].text, lines[i].start)'
      BY <3>1 DEF At
    <3> QED BY <1>2, <3>1, <3>2
  <2>2. CASE i \in DOMAIN lines
    <3>1. lines'[i] = lines[i]
      BY <1>3, <2>2
    <3>2. /\ At(lines[i].text, lines[i].start)
          /\ lines[i].start + Len(lines[i].text) <= lines[i].end
          /\ lines[i].end <= Waiting /\ lines[i].end \in Nat
          /\ i < Len(lines) => lines[i].end <= lines[i + 1].start
      BY <1>2, <2>2 DEF Pieces
    <3>3. At(lines[i].text, lines[i].start)'
      BY <3>1, <3>2 DEF At
    <3>4. lines'[i].end <= Waiting'
      BY <1>1, <1>2, <3>1, <3>2
    <3>5. i < Len(lines') => lines'[i].end <= lines'[i + 1].start
      <4>1. CASE i = Len(lines)
        BY <1>3, <3>1, <3>2, <4>1
      <4>2. CASE i < Len(lines)
        <5>1. lines'[i + 1] = lines[i + 1]
          BY <1>2, <1>3, <2>2, <4>2
        <5> QED BY <3>1, <3>2, <4>2, <5>1
      <4> QED BY <1>2, <1>3, <2>2, <4>1, <4>2
    <3> QED BY <3>1, <3>2, <3>3, <3>4, <3>5
  <2> QED BY <1>2, <1>3, <2>1, <2>2
<1>5. Pieces'
  BY <1>1, <1>4 DEF Pieces
<1>6. ASSUME NEW k \in 1 .. Waiting' PROVE Covered(k)'
  <2>1. CASE k \in 1 .. Waiting
    <3>1. CASE taken[k] = Newline
      BY <3>1 DEF Covered
    <3>2. CASE taken[k] # Newline
      <4>1. PICK i \in DOMAIN lines : k \in Piece(lines[i])
        BY <2>1, <3>2 DEF Covered
      <4>2. i \in DOMAIN lines' /\ lines'[i] = lines[i]
        BY <1>2, <1>3
      <4> QED BY <4>1, <4>2 DEF Covered, Piece
    <3> QED BY <3>1, <3>2
  <2>2. CASE k \in Waiting + 1 .. Waiting + Len(l.text)
    <3>1. Len(lines) + 1 \in DOMAIN lines' /\ lines'[Len(lines) + 1] = l /\ k \in Piece(l)
      BY <1>2, <1>3, <2>2 DEF Piece
    <3> QED BY <3>1 DEF Covered, Piece
  <2>3. CASE k \in Waiting + Len(l.text) + 1 .. Waiting'
    BY <2>3 DEF Covered
  <2> QED BY <1>2, <2>1, <2>2, <2>3
<1> QED BY <1>5, <1>6

-----------------------------------------------------------------------------
(* Lines that are split off. *)

LEMMA Cut ==
    ASSUME NEW s \in Seq(Bytes), NEW n \in 0 .. Len(s)
    PROVE  /\ SubSeq(s, 1, n) \in Seq(Bytes) /\ Len(SubSeq(s, 1, n)) = n
           /\ \A k \in 1 .. n : SubSeq(s, 1, n)[k] = s[k]
           /\ SubSeq(s, n + 1, Len(s)) \in Seq(Bytes) /\ Len(SubSeq(s, n + 1, Len(s))) = Len(s) - n
           /\ \A k \in 1 .. Len(s) - n : SubSeq(s, n + 1, Len(s))[k] = s[n + k]
<1>0. Len(s) \in Nat /\ n \in Nat /\ n + 1 \in Int /\ \A k \in 1 .. Len(s) : s[k] \in Bytes
  OBVIOUS
<1>1. /\ SubSeq(s, 1, n) \in Seq(Bytes) /\ Len(SubSeq(s, 1, n)) = IF 1 <= n THEN n - 1 + 1 ELSE 0
      /\ \A k \in 1 .. n - 1 + 1 : SubSeq(s, 1, n)[k] = s[1 + k - 1]
  <2>1. \A k \in 1 .. n : s[k] \in Bytes
    BY <1>0
  <2> QED BY <1>0, <2>1, SubSeqProperties
<1>2. /\ SubSeq(s, n + 1, Len(s)) \in Seq(Bytes)
      /\ Len(SubSeq(s, n + 1, Len(s))) = IF n + 1 <= Len(s) THEN Len(s) - (n + 1) + 1 ELSE 0
      /\ \A k \in 1 .. Len(s) - (n + 1) + 1 : SubSeq(s, n + 1, Len(s))[k] = s[(n + 1) + k - 1]
  <2>1. \A k \in n + 1 .. Len(s) : s[k] \in Bytes
    BY <1>0
  <2> QED BY <1>0, <2>1, SubSeqProperties
<1>3. Len(SubSeq(s, 1, n)) = n /\ Len(SubSeq(s, n + 1, Len(s))) = Len(s) - n
  BY <1>0, <1>1, <1>2
<1>4. ASSUME NEW k \in 1 .. n PROVE SubSeq(s, 1, n)[k] = s[k]
  <2>1. k \in 1 .. n - 1 + 1 /\ 1 + k - 1 = k
    BY <1>0
  <2> QED BY <1>1, <2>1
<1>5. ASSUME NEW k \in 1 .. Len(s) - n PROVE SubSeq(s, n + 1, Len(s))[k] = s[n + k]
  <2>1. k \in 1 .. Len(s) - (n + 1) + 1 /\ (n + 1) + k - 1 = n + k
    BY <1>0
  <2> QED BY <1>2, <2>1
<1> QED BY <1>1, <1>2, <1>3, <1>4, <1>5

\* The partial line and the first n bytes of the data.
LEMMA Joined ==
    ASSUME TypeInv, Pieces, NEW d \in Seq(Bytes), Len(d) <= Len(data), \A k \in 1 .. Len(d) : d[k] = data[k]
    PROVE  /\ partialLine \o d \in Seq(Bytes)
           /\ Len(partialLine \o d) = Len(partialLine) + Len(d)
           /\ At(partialLine \o d, Waiting)
<1>0. /\ partialLine \in Seq(Bytes) /\ data \in Seq(Bytes)
      /\ Len(partialLine) \in Nat /\ Len(d) \in Nat /\ Len(data) \in Nat /\ Len(taken) \in Nat
  BY LineFacts DEF TypeInv
<1> DEFINE line == partialLine \o d
<1>1. /\ line \in Seq(Bytes) /\ Len(line) = Len(partialLine) + Len(d)
      /\ \A i \in 1 .. Len(partialLine) + Len(d) :
            line[i] = IF i <= Len(partialLine) THEN partialLine[i] ELSE d[i - Len(partialLine)]
  BY <1>0, ConcatProperties
<1> HIDE DEF line
<1>2. ASSUME NEW i \in DOMAIN line PROVE line[i] = taken[Waiting + i]
  <2>0. i \in 1 .. Len(partialLine) + Len(d)
    BY <1>0, <1>1
  <2>1. CASE i <= Len(partialLine)
    <3>1. i \in DOMAIN partialLine /\ line[i] = partialLine[i]
      BY <1>0, <1>1, <2>0, <2>1
    <3> QED BY <3>1 DEF Pieces, At
  <2>2. CASE ~(i <= Len(partialLine))
    <3>1. i - Len(partialLine) \in 1 .. Len(d) /\ line[i] = d[i - Len(partialLine)]
      BY <1>0, <1>1, <2>0, <2>2
    <3>2. i - Len(partialLine) \in DOMAIN data /\ line[i] = data[i - Len(partialLine)]
      BY <1>0, <3>1
    <3>3. line[i] = taken[Unsplit + (i - Len(partialLine))]
      BY <3>2 DEF Pieces, At
    <3>4. Unsplit + (i - Len(partialLine)) = Waiting + i
      BY <1>0, <2>0 DEF Unsplit, Waiting
    <3> QED BY <3>3, <3>4
  <2> QED BY <2>1, <2>2
<1> QED BY <1>1, <1>2 DEF At, line

\* What Deliver appends.
LEMMA DeliverFacts ==
    ASSUME TypeInv, Waiting >= 0, NEW line \in Seq(Bytes), NEW next, Deliver(line, next),
           data' \in Seq(Bytes), Len(data') <= Len(data), UNCHANGED taken, partialLine' = << >>
    PROVE  /\ \E l \in Line : /\ lines' = Append(lines, l) /\ l.text = line
                              /\ l.start = Waiting /\ l.end = Waiting'
           /\ lines' \in Seq(Line) /\ lineCount' \in Nat
           /\ pc' \in {next, "retry", "done"}
<1>0. /\ Len(taken) \in Nat /\ Len(data) \in Nat /\ Len(partialLine) \in Nat /\ lines \in Seq(Line)
      /\ lineCount \in Nat /\ Len(data') \in Nat
  BY LineFacts DEF TypeInv
<1> DEFINE l == [num |-> lineCount + 1, text |-> line, start |-> Len(taken) - Len(partialLine) - Len(data),
                 end |-> Len(taken) - Len(data')]
<1>1. lines' = Append(lines, l) /\ lineCount' = lineCount + 1
  BY DEF Deliver
<1>2. l.text = line /\ l.start = Waiting /\ l.end = Waiting'
  <2>1. Len(partialLine') = 0
    OBVIOUS
  <2> QED BY <1>0, <2>1 DEF Waiting, Unsplit
<1>3. l \in Line
  <2>1. Len(taken) - Len(partialLine) - Len(data) \in Nat /\ Len(taken) - Len(data') \in Nat
    BY <1>0 DEF Waiting, Unsplit
  <2> QED BY <1>0, <2>1 DEF Line
<1>4. pc' \in {next, "retry", "done"}
  BY DEF Deliver, Returned
<1> HIDE DEF l
<1> QED BY <1>0, <1>1, <1>2, <1>3, <1>4

\* An ended line is followed by another one only if it ended properly.
LEMMA EndLine ==
    ASSUME TypeInv, Reading, EndInv, ~(mode = "cat" /\ atEOF /\ data = << >>), UNCHANGED taken,
           NEW l \in Line, lines' = Append(lines, l),
           \/ l.end > 0 /\ taken[l.end] = Newline
           \/ Len(l.text) >= LineLimit
           \/ mode' = "cat" /\ atEOF' /\ data' = << >>
    PROVE  EndInv'
<1>0. lines \in Seq(Line) /\ Len(lines) \in Nat
  BY LineFacts DEF TypeInv
<1>1. /\ DOMAIN lines' = 1 .. Len(lines) + 1 /\ Len(lines') = Len(lines) + 1
      /\ \A i \in 1 .. Len(lines) : lines'[i] = lines[i]
      /\ lines'[Len(lines) + 1] = l
  BY <1>0
<1>2. ASSUME NEW i \in 1 .. Len(lines)
      PROVE  \/ lines[i].end > 0 /\ taken[lines[i].end] = Newline
             \/ Len(lines[i].text) >= LineLimit
  BY <1>0 DEF EndInv
<1>3. ASSUME NEW i \in DOMAIN lines'
      PROVE  \/ lines'[i].end > 0 /\ taken'[lines'[i].end] = Newline
             \/ Len(lines'[i].text) >= LineLimit
             \/ i = Len(lines') /\ mode' = "cat" /\ atEOF' /\ data' = << >>
  <2>1. i \in 1 .. Len(lines) \/ i = Len(lines) + 1
    BY <1>0, <1>1
  <2>2. CASE i \in 1 .. Len(lines)
    BY <1>1, <1>2, <2>2
  <2>3. CASE i = Len(lines) + 1
    BY <1>1, <2>3
  <2> QED BY <2>1, <2>2, <2>3
<1> QED BY <1>3 DEF EndInv

-----------------------------------------------------------------------------
(* The steps. *)

Flow == BufferInv /\ EndInv /\ PieceInv

LEMMA SameFlow ==
    ASSUME Flow, UNCHANGED <<pc, mode, data, partialLine, taken, lines, atEOF>> PROVE Flow'
<1>1. BufferInv' /\ EndInv'
  BY DEF Flow, BufferInv, EndInv, Reading
<1>2. PieceInv'
  BY DEF Flow, PieceInv, Pieces, Covered, At, Waiting, Unsplit, Reading
<1> QED BY <1>1, <1>2 DEF Flow

LEMMA NoFlow == ASSUME ~Reading' PROVE Flow'
  BY DEF Flow, BufferInv, EndInv, PieceInv

\* Tail goes round its loop.
LEMMA TailFlow ==
    ASSUME TypeInv, Flow, Reading, mode = "tail", pc # "split",
           UNCHANGED <<mode, data, partialLine, taken, lines, atEOF>> PROVE Flow'
<1>1. data = << >>
  BY DEF Flow, BufferInv
<1>2. BufferInv' /\ EndInv'
  BY <1>1 DEF Flow, BufferInv, EndInv, Reading
<1>3. PieceInv'
  BY DEF Flow, PieceInv, Pieces, Covered, At, Waiting, Unsplit, Reading
<1> QED BY <1>2, <1>3 DEF Flow

LEMMA FileStep ==
    ASSUME TypeInv, Write \/ Truncate \/ Rotate \/ ReplaceByLink \/ RestoreFile \/ Cancel \/ Tick PROVE TypeInv'
<1> USE DEF WriterStep, fileVars, readVars
<1>1. UNCHANGED <<fd, pos, lineCount, mode, data, partialLine, taken, lines>>
  BY DEF Write, Truncate, Rotate, ReplaceByLink, RestoreFile, Cancel, Tick
<1>2. MaxInodes \in Nat \ {0}
  BY TailAssumption
<1>3. CASE Write
  <2>1. /\ script \in Seq(Bytes) /\ script # << >> /\ Head(script) \in Bytes /\ Tail(script) \in Seq(Bytes)
    BY <1>3 DEF Write, TypeInv
  <2>2. entry \in 0 .. MaxInodes /\ content[entry] \in Seq(Bytes)
    BY <1>2 DEF TypeInv
  <2>3. Append(content[entry], Head(script)) \in Seq(Bytes)
    BY <2>1, <2>2
  <2> QED BY <1>1, <1>3, <2>1, <2>2, <2>3 DEF Write, TypeInv
<1>4. CASE Truncate
  <2>1. << >> \in Seq(Bytes) /\ entry \in 0 .. MaxInodes
    BY <1>2 DEF TypeInv
  <2> QED BY <1>1, <1>4, <2>1 DEF Truncate, TypeInv
<1>5. CASE Rotate
  BY <1>1, <1>2, <1>5 DEF Rotate, TypeInv
<1>6. CASE ReplaceByLink \/ RestoreFile \/ Cancel \/ Tick
  BY <1>1, <1>6 DEF ReplaceByLink, RestoreFile, Cancel, Tick, TypeInv
<1> QED BY <1>3, <1>4, <1>5, <1>6

LEMMA OpenStep ==
    ASSUME TypeInv, Flow, RetryPauseEnds \/ ValidateEntry \/ OpenEntry \/ RevalidateEntry
    PROVE  TypeInv' /\ Flow'
<1> USE DEF KeepEnv, fileVars, readVars, Goto
<1>1. CASE RetryPauseEnds \/ ValidateEntry
  <2>1. TypeInv'
    BY <1>1 DEF RetryPauseEnds, ValidateEntry, TypeInv
  <2>2. ~Reading'
    BY <1>1 DEF RetryPauseEnds, ValidateEntry, Returned, Reading
  <2> QED BY <2>1, <2>2, NoFlow
<1>2. CASE OpenEntry
  <2>1. TypeInv'
    BY <1>2, TailAssumption DEF OpenEntry, TypeInv, LinkTarget
  <2>2. ~Reading'
    BY <1>2 DEF OpenEntry, Reading
  <2> QED BY <2>1, <2>2, NoFlow
<1>3. CASE RevalidateEntry
  <2>1. Len(content[fd]) \in Nat
    BY DEF TypeInv
  <2>2. << >> \in Seq(Bytes) /\ << >> \in Seq(Line) /\ Len(<< >>) = 0
    OBVIOUS
  <2>3. TypeInv'
    BY <1>3, <2>1, <2>2 DEF RevalidateEntry, TypeInv
  <2>4. data' = << >> /\ partialLine' = << >> /\ taken' = << >> /\ lines' = << >>
    BY <1>3 DEF RevalidateEntry
  <2>5. pc' = "read" \/ ~Reading'
    BY <1>3 DEF RevalidateEntry, Returned, Reading
  <2>6. Waiting' = 0 /\ Unsplit' = 0
    <3>1. Len(data') = 0 /\ Len(partialLine') = 0 /\ Len(taken') = 0
      BY <2>2, <2>4
    <3> QED BY <3>1 DEF Waiting, Unsplit
  <2>7. Pieces' /\ \A k \in 1 .. Waiting' : Covered(k)'
    BY <2>4, <2>6 DEF Pieces, At
  <2>8. CASE pc' = "read"
    BY <2>3, <2>4, <2>7, <2>8 DEF Flow, BufferInv, EndInv, PieceInv
  <2> QED BY <2>3, <2>5, <2>8, NoFlow
<1> QED BY <1>1, <1>2, <1>3

LEMMA ReadStep ==
    ASSUME TypeInv, Flow, TailRead \/ CatRead PROVE TypeInv' /\ Flow'
<1> USE DEF KeepEnv, fileVars, readVars
<1>1. /\ Reading /\ pc = "read" /\ UNCHANGED <<content, entry, script, fd, lineCount, mode, partialLine, atEOF, lines>>
      /\ pc' = IF mode = "tail" THEN "split" ELSE "read"
  BY DEF TailRead, CatRead, ReadBytes, Reading
<1>2. PICK n \in 1 .. MaxChunk :
          /\ pos + n <= Len(content[fd])
          /\ pos' = pos + n
          /\ data' = data \o SubSeq(content[fd], pos + 1, pos + n)
          /\ taken' = taken \o SubSeq(content[fd], pos + 1, pos + n)
  BY DEF TailRead, CatRead, ReadBytes
<1>3. PICK chunk : chunk = SubSeq(content[fd], pos + 1, pos + n)
  OBVIOUS
<1>4. chunk \in Seq(Bytes) /\ pos' \in Nat
  <2>1. content[fd] \in Seq(Bytes) /\ pos \in Nat /\ n \in Nat /\ MaxChunk \in Nat
    BY TailAssumption DEF TypeInv
  <2>2. \A k \in pos + 1 .. pos + n : content[fd][k] \in Bytes
    BY <1>2, <2>1
  <2> QED BY <1>2, <1>3, <2>1, <2>2, SubSeqProperties
<1>5. data' = data \o chunk /\ taken' = taken \o chunk
  BY <1>2, <1>3
<1>6. TypeInv'
  <2>1. data' \in Seq(Bytes) /\ taken' \in Seq(Bytes)
    BY <1>4, <1>5 DEF TypeInv
  <2> QED BY <1>1, <1>4, <2>1 DEF TypeInv
<1>7. Pieces /\ \A k \in 1 .. Waiting : Covered(k)
  BY <1>1 DEF Flow, PieceInv
<1>8. /\ Pieces' /\ Waiting' = Waiting /\ \A k \in 1 .. Waiting : Covered(k)'
      /\ \A k \in 1 .. Len(taken) : taken'[k] = taken[k]
  BY <1>1, <1>4, <1>5, <1>7, ReadPieces
<1>9. PieceInv'
  BY <1>8 DEF PieceInv
<1>10. BufferInv'
  BY <1>1 DEF Flow, BufferInv, Reading, TypeInv
<1>11. EndInv'
  <2>1. ASSUME NEW i \in DOMAIN lines
        PROVE (lines[i].end > 0 /\ taken'[lines[i].end] = Newline) \/ Len(lines[i].text) >= LineLimit
    <3>1. (lines[i].end > 0 /\ taken[lines[i].end] = Newline) \/ Len(lines[i].text) >= LineLimit
      BY <1>1 DEF Flow, EndInv, TailRead, CatRead
    <3>2. PICK e \in Nat : e = lines[i].end
      BY LineFacts
    <3>3. e <= Waiting /\ Waiting \in Int /\ Len(taken) \in Nat /\ Waiting <= Len(taken)
      BY <1>7, <3>2, LineFacts DEF Pieces, Waiting, Unsplit
    <3>4. e > 0 => taken'[e] = taken[e]
      BY <1>8, <3>3
    <3> QED BY <3>1, <3>2, <3>4
  <2> QED BY <1>1, <2>1 DEF EndInv
<1> QED BY <1>6, <1>9, <1>10, <1>11 DEF Flow

LEMMA SplitStep ==
    ASSUME TypeInv, Flow, SplitLine PROVE TypeInv' /\ Flow'
<1> USE DEF KeepEnv, fileVars, readVars
<1> DEFINE i == FirstNewline(data)
           head == SubSeq(data, 1, i - 1)
           line == partialLine \o head
<1>0. /\ pc = "split" /\ Reading /\ mode = "tail" /\ i > 0 /\ i \in 1 .. Len(data) /\ data[i] = Newline
      /\ data \in Seq(Bytes) /\ Len(data) \in Nat /\ i \in Nat
  <2>1. data \in Seq(Bytes) /\ Len(data) \in Nat /\ i \in 0 .. Len(data) /\ (i > 0 => data[i] = Newline)
    BY FirstNewlineFacts DEF TypeInv
  <2>2. pc = "split" /\ i > 0 /\ Reading
    BY DEF SplitLine, Reading
  <2>3. mode = "tail"
    BY <2>2 DEF Flow, BufferInv, TypeInv
  <2> QED BY <2>1, <2>2, <2>3
<1>1. /\ data' = SubSeq(data, i + 1, Len(data)) /\ partialLine' = << >>
      /\ UNCHANGED <<content, entry, script, fd, pos, mode, taken, atEOF>>
  BY DEF SplitLine
<1>2. \/ line = << >> /\ NoLine(AfterSplit)
      \/ Deliver(line, AfterSplit)
  BY DEF SplitLine
<1>a. AfterSplit \in {"check", "split"} /\ (AfterSplit = "check" <=> data' = << >>)
  BY DEF AfterSplit
<1> HIDE DEF i
<1>3. /\ data' \in Seq(Bytes) /\ Len(data') = Len(data) - i /\ \A k \in 1 .. Len(data') : data'[k] = data[i + k]
  BY <1>0, <1>1, Cut
<1>4. head \in Seq(Bytes) /\ Len(head) = i - 1 /\ \A k \in 1 .. Len(head) : head[k] = data[k]
  <2>1. i - 1 \in 0 .. Len(data)
    BY <1>0
  <2> QED BY <1>0, <2>1, Cut
<1>5. Pieces /\ \A k \in 1 .. Waiting : Covered(k)
  BY <1>0 DEF Flow, PieceInv
<1> HIDE DEF head
<1>6. line \in Seq(Bytes) /\ Len(line) = Len(partialLine) + (i - 1) /\ At(line, Waiting)
  <2>1. Len(head) <= Len(data)
    BY <1>0, <1>4
  <2>2. /\ partialLine \o head \in Seq(Bytes) /\ Len(partialLine \o head) = Len(partialLine) + Len(head)
        /\ At(partialLine \o head, Waiting)
    BY <1>4, <1>5, <2>1, Joined
  <2> QED BY <1>4, <2>2
<1> HIDE DEF line
<1>7. /\ Waiting' = Unsplit + i /\ Waiting + Len(line) = Unsplit + i - 1 /\ Waiting' = Waiting + Len(line) + 1
      /\ Waiting \in Int /\ Waiting >= 0 /\ Waiting' > 0 /\ Len(line) \in Nat
  <2>1. Len(partialLine') = 0 /\ Len(partialLine) \in Nat /\ Len(taken) \in Nat /\ Waiting >= 0
    BY <1>1, <1>5, LineFacts DEF Pieces
  <2>2. Unsplit' = Unsplit + i /\ Waiting' = Unsplit + i /\ Waiting = Unsplit - Len(partialLine) /\ Unsplit \in Int
    <3>1. Len(taken') = Len(taken) /\ Len(data') = Len(data) - i /\ Len(data) \in Nat /\ i \in Nat
      BY <1>0, <1>1, <1>3
    <3> QED BY <2>1, <3>1 DEF Waiting, Unsplit
  <2> QED BY <1>0, <1>6, <2>1, <2>2
<1>8. taken[Waiting'] = Newline
  BY <1>0, <1>5, <1>7 DEF Pieces, At
<1>9. \A k \in Waiting + Len(line) + 1 .. Waiting' : taken[k] = Newline
  BY <1>7, <1>8
<1>10. BufferInv' /\ (mode = "tail" => ~(mode = "cat"))
  <2>1. pc' \in {AfterSplit, "retry", "done"}
    BY <1>0, <1>1, <1>2, <1>3, <1>6, <1>7, DeliverFacts DEF NoLine
  <2> QED BY <1>0, <1>1, <1>a, <2>1 DEF BufferInv, Reading
<1>11. CASE line = << >> /\ NoLine(AfterSplit)
  <2>1. UNCHANGED <<lineCount, lines>>
    BY <1>11 DEF NoLine
  <2>2. TypeInv'
    BY <1>1, <1>3, <2>1 DEF TypeInv
  <2>3. Len(line) = 0
    BY <1>11
  <2>4. \A k \in Waiting + 1 .. Waiting' : taken[k] = Newline
    BY <1>7, <1>9, <2>3
  <2>5. Pieces' /\ \A k \in 1 .. Waiting' : Covered(k)'
    <3>1. i \in 0 .. Len(data)
      BY <1>0
    <3> QED BY <1>1, <1>3, <1>5, <2>1, <2>2, <2>4, <3>1, SkipPieces
  <2>6. EndInv'
    BY <1>0, <1>1, <2>1 DEF Flow, EndInv
  <2> QED BY <1>10, <2>2, <2>5, <2>6 DEF Flow, PieceInv
<1>12. CASE Deliver(line, AfterSplit)
  <2>0. Len(data') <= Len(data)
    BY <1>0, <1>3
  <2>1. /\ \E l \in Line : lines' = Append(lines, l) /\ l.text = line /\ l.start = Waiting /\ l.end = Waiting'
        /\ lines' \in Seq(Line) /\ lineCount' \in Nat
    BY <1>1, <1>3, <1>6, <1>7, <1>12, <2>0, DeliverFacts
  <2>2. TypeInv'
    BY <1>1, <1>3, <2>1 DEF TypeInv
  <2>3. PICK l \in Line : lines' = Append(lines, l) /\ l.text = line /\ l.start = Waiting /\ l.end = Waiting'
    BY <2>1
  <2>4. Pieces' /\ \A k \in 1 .. Waiting' : Covered(k)'
    <3>1. i \in 0 .. Len(data) /\ Waiting + Len(line) <= Waiting'
      BY <1>0, <1>7
    <3> QED BY <1>1, <1>3, <1>5, <1>6, <1>9, <2>2, <2>3, <3>1, LinePieces
  <2>5. EndInv'
    <3>1. l.end > 0 /\ taken[l.end] = Newline
      BY <1>7, <1>8, <2>3
    <3> QED BY <1>0, <1>1, <2>3, <3>1, EndLine DEF Flow
  <2> QED BY <1>10, <2>2, <2>4, <2>5 DEF Flow, PieceInv
<1> QED BY <1>2, <1>11, <1>12

LEMMA KeepStep ==
    ASSUME TypeInv, Flow, KeepPartial PROVE TypeInv' /\ Flow'
<1> USE DEF KeepEnv, fileVars, readVars
<1> DEFINE line == partialLine \o data
<1>0. /\ pc = "split" /\ Reading /\ mode = "tail"
      /\ data \in Seq(Bytes) /\ Len(data) \in Nat /\ Len(partialLine) \in Nat /\ Len(taken) \in Nat
  <2>1. pc = "split" /\ Reading
    BY DEF KeepPartial, Reading
  <2>2. mode = "tail"
    BY <2>1 DEF Flow, BufferInv, TypeInv
  <2> QED BY <2>1, <2>2, LineFacts DEF TypeInv
<1>1. /\ data' = << >>
      /\ UNCHANGED <<content, entry, script, fd, pos, mode, taken, atEOF>>
  BY DEF KeepPartial
<1>2. \/ Len(line) >= LineLimit /\ Deliver(line, "check") /\ partialLine' = << >>
      \/ partialLine' = line /\ NoLine("check")
  BY DEF KeepPartial
<1>3. Len(data') = 0 /\ data' \in Seq(Bytes)
  BY <1>1
<1>4. Pieces /\ \A k \in 1 .. Waiting : Covered(k)
  BY <1>0 DEF Flow, PieceInv
<1>5. line \in Seq(Bytes) /\ Len(line) = Len(partialLine) + Len(data) /\ At(line, Waiting) /\ Len(line) \in Nat
  <2>1. line \in Seq(Bytes) /\ Len(line) = Len(partialLine) + Len(data) /\ At(line, Waiting)
    BY <1>0, <1>4, Joined
  <2> QED BY <1>0, <2>1
<1>6. Waiting \in Int /\ Waiting >= 0 /\ Waiting + Len(line) = Len(taken)
  BY <1>0, <1>4, <1>5 DEF Waiting, Unsplit, Pieces
<1> HIDE DEF line
<1>7. CASE Len(line) >= LineLimit /\ Deliver(line, "check") /\ partialLine' = << >>
  <2>0. Len(data') <= Len(data) /\ Len(partialLine') = 0
    BY <1>0, <1>3, <1>7
  <2>1. /\ \E l \in Line : lines' = Append(lines, l) /\ l.text = line /\ l.start = Waiting /\ l.end = Waiting'
        /\ lines' \in Seq(Line) /\ lineCount' \in Nat /\ pc' \in {"check", "retry", "done"}
    BY <1>1, <1>3, <1>5, <1>6, <1>7, <2>0, DeliverFacts
  <2>2. TypeInv'
    BY <1>1, <1>3, <1>7, <2>1 DEF TypeInv
  <2>3. PICK l \in Line : lines' = Append(lines, l) /\ l.text = line /\ l.start = Waiting /\ l.end = Waiting'
    BY <2>1
  <2>4. Waiting' = Len(taken)
    <3>1. Len(taken') = Len(taken)
      BY <1>1
    <3> QED BY <1>0, <1>3, <2>0, <3>1 DEF Waiting, Unsplit
  <2>5. Pieces' /\ \A k \in 1 .. Waiting' : Covered(k)'
    <3>1. PICK m \in 0 .. Len(data) : m = Len(data)
      BY <1>0
    <3>2. Len(data') = Len(data) - m /\ \A k \in 1 .. Len(data') : data'[k] = data[m + k]
      BY <1>0, <1>3, <3>1
    <3>3. Waiting + Len(l.text) <= Waiting' /\ \A k \in Waiting + Len(l.text) + 1 .. Waiting' : taken[k] = Newline
      BY <1>0, <1>5, <1>6, <2>3, <2>4
    <3> QED BY <1>1, <1>4, <1>5, <1>7, <2>2, <2>3, <3>2, <3>3, LinePieces
  <2>6. EndInv'
    BY <1>0, <1>1, <1>7, <2>3, EndLine DEF Flow
  <2>7. BufferInv'
    BY <1>0, <1>1, <2>1 DEF BufferInv, Reading
  <2> QED BY <2>2, <2>5, <2>6, <2>7 DEF Flow, PieceInv
<1>8. CASE partialLine' = line /\ NoLine("check")
  <2>1. UNCHANGED <<lineCount, lines>> /\ pc' = "check"
    BY <1>8 DEF NoLine
  <2>2. TypeInv'
    BY <1>1, <1>3, <1>5, <1>8, <2>1 DEF TypeInv
  <2>3. Waiting' = Waiting
    <3>1. Len(taken') = Len(taken) /\ Len(partialLine') = Len(line)
      BY <1>1, <1>8
    <3> QED BY <1>0, <1>3, <1>5, <1>6, <3>1 DEF Waiting, Unsplit
  <2>4. At(partialLine, Waiting)' /\ At(data, Unsplit)'
    BY <1>1, <1>5, <1>8, <2>3 DEF At
  <2>5. Pieces'
    BY <1>1, <1>4, <2>1, <2>3, <2>4 DEF Pieces, At
  <2>6. \A k \in 1 .. Waiting' : Covered(k)'
    BY <1>1, <1>4, <2>1, <2>3 DEF Covered
  <2>7. EndInv'
    BY <1>0, <1>1, <2>1 DEF Flow, EndInv
  <2>8. BufferInv'
    BY <1>0, <1>1, <2>1 DEF BufferInv, Reading
  <2> QED BY <2>2, <2>5, <2>6, <2>7, <2>8 DEF Flow, PieceInv
<1> QED BY <1>2, <1>7, <1>8

LEMMA TailStep ==
    ASSUME TypeInv, Flow, WarningCancelled \/ TailEOF \/ TailWait \/ TailSleepEnds \/ TailCheck
    PROVE  TypeInv' /\ Flow'
<1> USE DEF KeepEnv, fileVars, readVars, Goto
<1>3. CASE WarningCancelled
  <2>1. TypeInv' /\ ~Reading'
    BY <1>3 DEF WarningCancelled, TypeInv, Reading
  <2> QED BY <2>1, NoFlow
<1>0. ASSUME ~WarningCancelled PROVE Reading /\ mode = "tail" /\ pc # "split"
  <2>1. Reading /\ (TailEOF \/ pc # "read") /\ pc # "split"
    BY <1>0 DEF TailEOF, TailWait, TailSleepEnds, TailCheck, Reading
  <2> QED BY <2>1 DEF Flow, BufferInv, TypeInv, TailEOF
<1>1. CASE ~WarningCancelled /\ (TailEOF \/ TailWait \/ TailSleepEnds)
  <2>1. UNCHANGED <<content, entry, script, mode, readVars>>
    BY <1>1 DEF TailEOF, TailWait, TailSleepEnds
  <2>2. TypeInv'
    BY <2>1 DEF TypeInv
  <2> QED BY <1>0, <1>1, <2>1, <2>2, TailFlow
<1>2. CASE ~WarningCancelled /\ TailCheck
  <2>1. UNCHANGED <<content, entry, script, fd, pos, mode, data, taken, atEOF>>
    BY <1>2 DEF TailCheck
  <2>2. CASE cancelled /\ partialLine # << >>
    <3>1. Deliver(partialLine, "done") /\ partialLine' = << >>
      BY <1>2, <2>2 DEF TailCheck
    <3>2. Waiting >= 0 /\ partialLine \in Seq(Bytes) /\ data' \in Seq(Bytes) /\ Len(data') <= Len(data)
      BY <1>0, <1>2, <2>1, LineFacts DEF Flow, PieceInv, Pieces, TypeInv
    <3>3. lines' \in Seq(Line) /\ lineCount' \in Nat /\ pc' \in {"done", "retry"}
      BY <2>1, <3>1, <3>2, DeliverFacts
    <3>4. TypeInv'
      BY <2>1, <3>1, <3>3 DEF TypeInv
    <3>5. ~Reading'
      BY <3>3 DEF Reading
    <3> QED BY <3>4, <3>5, NoFlow
  <2>3. CASE ~(cancelled /\ partialLine # << >>)
    <3>1. UNCHANGED <<lineCount, lines, partialLine>>
      BY <1>2, <2>3 DEF TailCheck, NoLine
    <3>2. TypeInv'
      BY <2>1, <3>1 DEF TypeInv
    <3> QED BY <1>0, <1>2, <2>1, <3>1, <3>2, TailFlow
  <2> QED BY <2>2, <2>3
<1> QED BY <1>1, <1>2, <1>3

LEMMA TokenFacts ==
    ASSUME TypeInv
    PROVE  /\ TokenLength \in 0 .. Len(data)
           /\ TokenLength > 0 => \/ data[TokenLength] = Newline
                                 \/ TokenLength = LineLimit
                                 \/ atEOF /\ TokenLength = Len(data)
<1> DEFINE i == FirstNewline(data)
<1>1. i \in 0 .. Len(data) /\ (i > 0 => data[i] = Newline) /\ Len(data) \in Nat
  BY FirstNewlineFacts, LineFacts DEF TypeInv
<1>2. LineLimit \in Nat \ {0}
  BY TailAssumption
<1>3. TokenLength = IF i > 0 THEN (IF i - 1 > LineLimit THEN LineLimit ELSE i)
                    ELSE IF Len(data) > LineLimit \/ (Len(data) = LineLimit /\ ~atEOF) THEN LineLimit
                    ELSE IF atEOF THEN Len(data) ELSE 0
  BY DEF TokenLength
<1> HIDE DEF i
<1>4. CASE i > 0 /\ i - 1 > LineLimit
  BY <1>1, <1>2, <1>3, <1>4
<1>5. CASE i > 0 /\ ~(i - 1 > LineLimit)
  BY <1>1, <1>2, <1>3, <1>5
<1>6. CASE ~(i > 0) /\ (Len(data) > LineLimit \/ (Len(data) = LineLimit /\ ~atEOF))
  BY <1>1, <1>2, <1>3, <1>6
<1>7. CASE ~(i > 0) /\ ~(Len(data) > LineLimit \/ (Len(data) = LineLimit /\ ~atEOF))
  <2>1. (TokenLength = Len(data) /\ atEOF) \/ TokenLength = 0
    BY <1>3, <1>7
  <2> QED BY <1>1, <2>1
<1> QED BY <1>4, <1>5, <1>6, <1>7

LEMMA CatStep ==
    ASSUME TypeInv, Flow, CatEOF \/ CatToken \/ CatStops PROVE TypeInv' /\ Flow'
<1> USE DEF KeepEnv, fileVars, readVars
<1>0. /\ pc = "read" /\ Reading /\ mode = "cat" /\ partialLine = << >>
      /\ data \in Seq(Bytes) /\ Len(data) \in Nat /\ Len(taken) \in Nat
      /\ Pieces /\ \A k \in 1 .. Waiting : Covered(k)
  <2>1. pc = "read" /\ Reading /\ mode = "cat"
    BY DEF CatEOF, CatToken, CatStops, Reading
  <2> QED BY <2>1, LineFacts DEF Flow, BufferInv, PieceInv, TypeInv
<1>1. CASE CatEOF
  <2>1. UNCHANGED <<content, entry, script, fd, pos, mode, data, partialLine, lineCount, taken, lines>>
        /\ atEOF' /\ pc' \in {"read", "done"}
    BY <1>1 DEF CatEOF
  <2>2. TypeInv'
    BY <2>1 DEF TypeInv
  <2>3. BufferInv'
    BY <1>0, <2>1 DEF BufferInv, Reading
  <2>4. EndInv'
    BY <1>0, <2>1 DEF Flow, EndInv
  <2>5. PieceInv'
    BY <1>0, <2>1 DEF PieceInv, Pieces, Covered, At, Waiting, Unsplit
  <2> QED BY <2>2, <2>3, <2>4, <2>5 DEF Flow
<1>2. CASE CatStops
  <2>1. UNCHANGED <<content, entry, script, mode, readVars>> /\ ~Reading'
    BY <1>2 DEF CatStops, Reading
  <2>2. TypeInv'
    BY <2>1 DEF TypeInv
  <2> QED BY <2>1, <2>2, NoFlow
<1>3. CASE CatToken
  <2>1. PICK n \in 1 .. Len(data) : n = TokenLength
    BY <1>0, <1>3, TokenFacts DEF CatToken
  <2>2. PICK line : line = SubSeq(data, 1, n)
    OBVIOUS
  <2>3. /\ data' = SubSeq(data, n + 1, Len(data)) /\ Deliver(line, "read")
        /\ UNCHANGED <<content, entry, script, fd, pos, mode, partialLine, atEOF, taken>>
    BY <1>3, <2>1, <2>2 DEF CatToken
  <2>4. n \in 0 .. Len(data) /\ n \in Nat
    BY <1>0
  <2>5. /\ line \in Seq(Bytes) /\ Len(line) = n /\ \A k \in 1 .. Len(line) : line[k] = data[k]
        /\ data' \in Seq(Bytes) /\ Len(data') = Len(data) - n
        /\ \A k \in 1 .. Len(data') : data'[k] = data[n + k]
    BY <1>0, <2>2, <2>3, <2>4, Cut
  <2>6. At(line, Waiting)
    <3>1. partialLine \o line = line
      BY <1>0, <2>5, ConcatEmptySeq
    <3>2. At(partialLine \o line, Waiting)
      BY <1>0, <2>4, <2>5, Joined
    <3> QED BY <3>1, <3>2
  <2>7. /\ Waiting = Unsplit /\ Waiting \in Int /\ Waiting >= 0 /\ Waiting' = Waiting + n
    <3>1. Len(partialLine) = 0 /\ Len(partialLine') = 0 /\ Len(taken') = Len(taken)
      BY <1>0, <2>3
    <3> QED BY <1>0, <2>4, <2>5, <3>1 DEF Waiting, Unsplit, Pieces
  <2>8. Len(data') <= Len(data) /\ partialLine' = << >>
    BY <1>0, <2>3, <2>4, <2>5
  <2>9. /\ \E l \in Line : lines' = Append(lines, l) /\ l.text = line /\ l.start = Waiting /\ l.end = Waiting'
        /\ lines' \in Seq(Line) /\ lineCount' \in Nat /\ pc' \in {"read", "retry", "done"}
    BY <2>3, <2>5, <2>7, <2>8, DeliverFacts
  <2>10. TypeInv'
    BY <2>3, <2>5, <2>9 DEF TypeInv
  <2>11. PICK l \in Line : lines' = Append(lines, l) /\ l.text = line /\ l.start = Waiting /\ l.end = Waiting'
    BY <2>9
  <2>12. Pieces' /\ \A k \in 1 .. Waiting' : Covered(k)'
    <3>1. Waiting + Len(l.text) <= Waiting' /\ \A k \in Waiting + Len(l.text) + 1 .. Waiting' : taken[k] = Newline
      BY <2>4, <2>5, <2>7, <2>11
    <3> QED BY <1>0, <2>3, <2>4, <2>5, <2>6, <2>8, <2>10, <2>11, <3>1, LinePieces
  <2>13. EndInv'
    <3>1. CASE data[n] = Newline
      <4>1. taken[Waiting'] = Newline /\ Waiting' > 0
        BY <1>0, <2>4, <2>7, <3>1 DEF Pieces, At
      <4> QED BY <1>0, <2>3, <2>11, <4>1, EndLine DEF Flow
    <3>2. CASE n = LineLimit
      <4>1. Len(l.text) >= LineLimit
        BY <2>4, <2>5, <2>11, <3>2
      <4> QED BY <1>0, <2>3, <2>11, <4>1, EndLine DEF Flow
    <3>3. CASE atEOF /\ n = Len(data)
      <4>1. data' = << >>
        BY <1>0, <2>5, <3>3, EmptySeq
      <4> QED BY <1>0, <2>3, <2>11, <3>3, <4>1, EndLine DEF Flow
    <3> QED BY <2>1, <2>4, <3>1, <3>2, <3>3, TokenFacts
  <2>14. BufferInv'
    BY <1>0, <2>3, <2>8, <2>9 DEF BufferInv, Reading
  <2> QED BY <2>10, <2>12, <2>13, <2>14 DEF Flow, PieceInv
<1> QED BY <1>1, <1>2, <1>3

LEMMA LinkStep ==
    ASSUME TypeInv, LinkInv, [Next]_vars PROVE LinkInv'
<1> USE DEF KeepEnv, WriterStep, fileVars, readVars, Goto, LinkInv, LinkNeverRead
<1>0. entry # LinkTarget
  BY TailAssumption DEF TypeInv, LinkTarget
<1>1. CASE UNCHANGED <<pc, fd>> /\ (linked => linked') /\ restored' = restored
  BY <1>1 DEF Reading
<1>2. CASE Write \/ Truncate \/ Rotate \/ ReplaceByLink \/ Cancel \/ Tick
  BY <1>1, <1>2 DEF Write, Truncate, Rotate, ReplaceByLink, Cancel, Tick
<1>13. CASE RestoreFile
  <2>1. UNCHANGED <<pc, fd>> /\ restored' = (restored \/ (pc = "recheck" /\ fd = LinkTarget))
    BY <1>13 DEF RestoreFile
  <2> QED BY <2>1 DEF Reading
<1>3. CASE UNCHANGED vars
  BY <1>1, <1>3 DEF vars
<1>4. CASE RetryPauseEnds \/ ValidateEntry
  BY <1>4 DEF RetryPauseEnds, ValidateEntry, Returned, Reading
<1>5. CASE OpenEntry
  <2>1. pc' = "recheck" /\ linked' = linked /\ (fd' = LinkTarget => linked)
    BY <1>0, <1>5 DEF OpenEntry
  <2> QED BY <2>1 DEF Reading
<1>6. CASE RevalidateEntry
  <2>1. UNCHANGED <<fd, restored>> /\ pc = "recheck" /\ pc' = IF linked THEN Returned ELSE "read"
    BY <1>6 DEF RevalidateEntry
  <2> QED BY <2>1 DEF Returned, Reading
\* The reader keeps its file.
<1>7. CASE Reading /\ UNCHANGED <<fd, restored>> /\ pc' # "recheck"
  BY <1>7
<1>8. CASE TailRead \/ CatRead
  BY <1>7, <1>8 DEF TailRead, CatRead, ReadBytes, Reading
<1>9. CASE WarningCancelled \/ TailEOF \/ TailWait \/ TailSleepEnds \/ CatEOF \/ CatStops
  BY <1>7, <1>9 DEF WarningCancelled, TailEOF, TailWait, TailSleepEnds, CatEOF, CatStops, Returned, Reading
<1>10. ASSUME NEW line, NEW next, next # "recheck", Deliver(line, next) PROVE pc' # "recheck"
  BY <1>10 DEF Deliver, Returned
<1>11. CASE SplitLine
  <2>1. AfterSplit # "recheck"
    BY DEF AfterSplit
  <2>2. Reading /\ UNCHANGED <<fd, restored>> /\ (NoLine(AfterSplit) \/ \E line : Deliver(line, AfterSplit))
    BY <1>11 DEF SplitLine, Reading
  <2> QED BY <1>7, <1>10, <2>1, <2>2 DEF NoLine
<1>12. CASE KeepPartial \/ TailCheck \/ CatToken
  <2>1. /\ Reading /\ UNCHANGED <<fd, restored>>
        /\ \E next \in {"check", "done", "read"} : NoLine(next) \/ \E line : Deliver(line, next)
    BY <1>12 DEF KeepPartial, TailCheck, CatToken, Reading
  <2> QED BY <1>7, <1>10, <2>1 DEF NoLine
<1> QED BY <1>2, <1>3, <1>4, <1>5, <1>6, <1>8, <1>9, <1>11, <1>12, <1>13 DEF Next, Reader

LEMMA InitInv == Init => IInv
<1> SUFFICES ASSUME Init PROVE IInv
  OBVIOUS
<1>1. TypeInv
  <2>1. << >> \in Seq(Bytes) /\ << >> \in Seq(Line)
    OBVIOUS
  <2> QED BY <2>1, TailAssumption DEF Init, TypeInv
<1>2. pc = "open"
  BY DEF Init
<1> QED BY <1>1, <1>2 DEF IInv, LinkInv, LinkNeverRead, BufferInv, EndInv, PieceInv, Reading

\* Whatever the writer does to the file and in whatever chunks it is read, the
\* reader is at some place in it with the bytes before that place in lines.
THEOREM Invariance == Spec => []IInv
<1>1. IInv /\ [Next]_vars => IInv'
  <2> SUFFICES ASSUME IInv, [Next]_vars PROVE TypeInv' /\ Flow'
    BY LinkStep DEF IInv, Flow
  <2>0. TypeInv /\ Flow
    BY DEF IInv, Flow
  <2>1. CASE Write \/ Truncate \/ Rotate \/ ReplaceByLink \/ RestoreFile \/ Cancel \/ Tick
    <3>1. TypeInv'
      BY <2>0, <2>1, FileStep
    <3>2. UNCHANGED <<pc, mode, data, partialLine, taken, lines, atEOF>>
      BY <2>1 DEF Write, Truncate, Rotate, ReplaceByLink, RestoreFile, Cancel, Tick, WriterStep, readVars
    <3> QED BY <2>0, <3>1, <3>2, SameFlow
  <2>2. CASE UNCHANGED vars
    <3>1. TypeInv'
      BY <2>0, <2>2 DEF vars, fileVars, readVars, TypeInv
    <3> QED BY <2>0, <2>2, <3>1, SameFlow DEF vars, readVars
  <2> QED BY <2>0, <2>1, <2>2, OpenStep, ReadStep, SplitStep, KeepStep, TailStep, CatStep DEF Next, Reader
<1> QED BY InitInv, <1>1, PTL DEF Spec

\* The lines keep every byte in its order, whole and properly ended.
THEOREM LinesCorrect == Spec => []LinesIntact
<1>1. IInv => LinesIntact
  <2> SUFFICES ASSUME IInv, Reading PROVE LinesIntact
    BY DEF LinesIntact
  <2>0. TypeInv /\ Pieces /\ (\A k \in 1 .. Waiting : Covered(k)) /\ EndInv
    BY DEF IInv, PieceInv
  <2>1. ASSUME NEW i \in DOMAIN lines PROVE EndsProperly(lines[i])
    <3>1. CASE i = Len(lines) /\ atEOF
      BY <3>1 DEF EndsProperly, Last
    <3> QED BY <2>0, <3>1 DEF EndInv, EndsProperly
  <2>2. ASSUME NEW i \in DOMAIN lines
        PROVE  /\ At(lines[i].text, lines[i].start)
               /\ lines[i].start + Len(lines[i].text) <= lines[i].end
               /\ lines[i].end <= IF i < Len(lines) THEN lines[i + 1].start ELSE Waiting
    BY <2>0 DEF Pieces
  <2>3. At(partialLine, Waiting) /\ At(data, Unsplit)
    BY <2>0 DEF Pieces
  <2> QED BY <2>0, <2>1, <2>2, <2>3 DEF LinesIntact, Waiting, Unsplit, Covered, Piece
<1> QED BY Invariance, <1>1, PTL

\* What a symbolic link leads to is read only if the file was put back between
\* the open and the second look.
THEOREM LinkCorrect == Spec => []LinkNeverRead
<1>1. IInv => LinkNeverRead
  BY DEF IInv, LinkInv
<1> QED BY Invariance, <1>1, PTL

-----------------------------------------------------------------------------
(* The filter: what it keeps between two lines, as constant formulas over a  *)
(* filter f and the lines ls it has seen.                                    *)

Matches(ls) == {i \in DOMAIN ls : Match(ls[i].text)}

\* The lines in the context of a match.
Near(c, ls) ==
    {i \in DOMAIN ls : \E j \in Matches(ls) : i >= j - c.before /\ i <= j + c.after}

Filter == [ltx : Contexts, beforeBuf : Seq(Seq(Bytes)), afterCount : Nat, maxCount : Nat,
           maxReached : BOOLEAN]

\* afterCount is how far the context of the last match reaches beyond the lines.
AfterInv(f, ls) ==
    /\ \A j \in Matches(ls) : j + f.ltx.after <= Len(ls) + f.afterCount
    /\ f.afterCount > 0 => \E j \in Matches(ls) : j + f.ltx.after = Len(ls) + f.afterCount

\* The buffer holds the last lines, which are in no context so far, and all the
\* lines that the context of a match in the next line would add.
BeforeInv(f, ls) ==
    /\ Len(f.beforeBuf) <= Len(ls) /\ Len(f.beforeBuf) <= f.ltx.before
    /\ f.afterCount > 0 => Len(f.beforeBuf) = 0
    /\ \A k \in 1 .. Len(f.beforeBuf) :
          /\ f.beforeBuf[k] = ls[Len(ls) - Len(f.beforeBuf) + k].text
          /\ Len(ls) - Len(f.beforeBuf) + k \notin Near(f.ltx, ls)
    /\ \A i \in 1 .. Len(ls) - Len(f.beforeBuf) :
          i >= Len(ls) + 1 - f.ltx.before => i \in Near(f.ltx, ls)

MaxInv(f, ls) ==
    /\ f.maxReached => f.ltx.max > 0
    /\ f.ltx.max > 0 => /\ f.maxCount = Cardinality(Matches(ls)) /\ f.maxCount <= f.ltx.max
                        /\ f.maxReached <=> f.maxCount = f.ltx.max

FilterInv(f, ls) == f \in Filter /\ AfterInv(f, ls) /\ BeforeInv(f, ls) /\ MaxInv(f, ls)

\* Lines are numbered without a gap, up to n.
Numbered(ls, n) == \A i \in DOMAIN ls : ls[i].num = n - Len(ls) + i

Texts(ls) == [i \in DOMAIN ls |-> ls[i].text]
Numbers(l) == [num |-> l.num, text |-> l.text]
SentLine == [num : Int, text : Seq(Bytes)]

SentExactly(q, ls, S) ==
    /\ q \in Seq(SentLine)
    /\ \A k \in DOMAIN q : \E i \in S : q[k] = Numbers(ls[i])
    /\ \A i \in S : \E k \in DOMAIN q : q[k] = Numbers(ls[i])
    /\ \A k \in 2 .. Len(q) : q[k - 1].num < q[k].num

ContextInv ==
    /\ ltx \in Contexts
    /\ Numbered(lines, lineCount)
    /\ SentExactly(sent, lines, Shown(ltx, Texts(lines)))
    /\ Reading => fp.ltx = ltx /\ FilterInv(fp, lines)

LEMMA ContextType ==
    ASSUME NEW c \in Contexts PROVE c.after \in Nat /\ c.before \in Nat /\ c.max \in Nat
  BY TailAssumption

LEMMA FilterType ==
    ASSUME NEW f \in Filter
    PROVE  /\ f.ltx \in Contexts /\ f.beforeBuf \in Seq(Seq(Bytes)) /\ Len(f.beforeBuf) \in Nat
           /\ f.afterCount \in Nat /\ f.maxCount \in Nat /\ f.maxReached \in BOOLEAN
           /\ f.ltx.after \in Nat /\ f.ltx.before \in Nat /\ f.ltx.max \in Nat
<1>1. /\ f.ltx \in Contexts /\ f.beforeBuf \in Seq(Seq(Bytes))
      /\ f.afterCount \in Nat /\ f.maxCount \in Nat /\ f.maxReached \in BOOLEAN
  BY DEF Filter
<1> QED BY <1>1, ContextType

\* One more line.
LEMMA OneMore ==
    ASSUME NEW ls \in Seq(Line), NEW l \in Line
    PROVE  /\ Append(ls, l) \in Seq(Line) /\ Len(ls) \in Nat
           /\ DOMAIN ls = 1 .. Len(ls) /\ DOMAIN Append(ls, l) = 1 .. Len(ls) + 1
           /\ Len(Append(ls, l)) = Len(ls) + 1
           /\ \A i \in 1 .. Len(ls) : Append(ls, l)[i] = ls[i]
           /\ Append(ls, l)[Len(ls) + 1] = l
  OBVIOUS

LEMMA MatchesMore ==
    ASSUME NEW ls \in Seq(Line), NEW l \in Line
    PROVE  /\ Matches(ls) \subseteq 1 .. Len(ls) /\ IsFiniteSet(Matches(ls)) /\ Cardinality(Matches(ls)) \in Nat
           /\ Match(l.text) => /\ Matches(Append(ls, l)) = Matches(ls) \union {Len(ls) + 1}
                               /\ Cardinality(Matches(Append(ls, l))) = Cardinality(Matches(ls)) + 1
           /\ ~Match(l.text) => Matches(Append(ls, l)) = Matches(ls)
<1>0. /\ Append(ls, l) \in Seq(Line) /\ Len(ls) \in Nat
      /\ DOMAIN ls = 1 .. Len(ls) /\ DOMAIN Append(ls, l) = 1 .. Len(ls) + 1
      /\ Len(Append(ls, l)) = Len(ls) + 1
      /\ \A i \in 1 .. Len(ls) : Append(ls, l)[i] = ls[i]
      /\ Append(ls, l)[Len(ls) + 1] = l
  BY OneMore
<1>1. Matches(ls) \subseteq 1 .. Len(ls)
  BY <1>0 DEF Matches
<1>2. IsFiniteSet(Matches(ls)) /\ Cardinality(Matches(ls)) \in Nat
  <2>1. IsFiniteSet(1 .. Len(ls))
    BY <1>0, FS_Interval
  <2> QED BY <1>1, <2>1, FS_Subset, FS_CardinalityType
<1>3. ASSUME Match(l.text) PROVE Matches(Append(ls, l)) = Matches(ls) \union {Len(ls) + 1}
  <2>1. ASSUME NEW i PROVE i \in Matches(Append(ls, l)) <=> i \in Matches(ls) \union {Len(ls) + 1}
    <3>1. i \in 1 .. Len(ls) + 1 <=> i \in 1 .. Len(ls) \/ i = Len(ls) + 1
      BY <1>0
    <3>2. CASE i \in 1 .. Len(ls)
      <4>1. i # Len(ls) + 1
        BY <1>0, <3>2
      <4> QED BY <1>0, <3>1, <3>2, <4>1 DEF Matches
    <3>3. CASE i = Len(ls) + 1
      BY <1>0, <1>3, <3>1, <3>3 DEF Matches
    <3> QED BY <1>0, <3>1, <3>2, <3>3 DEF Matches
  <2> QED BY <2>1
<1>4. ASSUME ~Match(l.text) PROVE Matches(Append(ls, l)) = Matches(ls)
  <2>1. ASSUME NEW i PROVE i \in Matches(Append(ls, l)) <=> i \in Matches(ls)
    <3>1. i \in 1 .. Len(ls) + 1 <=> i \in 1 .. Len(ls) \/ i = Len(ls) + 1
      BY <1>0
    <3>2. Len(ls) + 1 \notin 1 .. Len(ls)
      BY <1>0
    <3> QED BY <1>0, <1>4, <3>1, <3>2 DEF Matches
  <2> QED BY <2>1
<1>5. ASSUME Match(l.text) PROVE Cardinality(Matches(Append(ls, l))) = Cardinality(Matches(ls)) + 1
  <2>1. Len(ls) + 1 \notin Matches(ls)
    BY <1>0, <1>1
  <2> QED BY <1>2, <1>3, <1>5, <2>1, FS_AddElement
<1> QED BY <1>1, <1>2, <1>3, <1>4, <1>5

\* As long as there are not too many matches, all of them count.
LEMMA ShownNear ==
    ASSUME NEW c \in Contexts, NEW ls \in Seq(Line), c.max > 0 => Cardinality(Matches(ls)) <= c.max
    PROVE  Shown(c, Texts(ls)) = Near(c, ls)
<1>0. c.max \in Nat
  BY ContextType
<1>1. DOMAIN Texts(ls) = DOMAIN ls /\ \A i \in DOMAIN ls : Texts(ls)[i] = ls[i].text
  BY DEF Texts
<1>2. {i \in DOMAIN Texts(ls) : Match(Texts(ls)[i])} = Matches(ls)
  BY <1>1 DEF Matches
<1>3. IsFiniteSet(Matches(ls))
  <2>1. Matches(ls) \subseteq 1 .. Len(ls) /\ Len(ls) \in Int /\ 1 \in Int
    BY DEF Matches
  <2> QED BY <2>1, FS_Subset, FS_Interval
<1>4. ASSUME NEW i \in Matches(ls) PROVE c.max = 0 \/ Cardinality({j \in Matches(ls) : j <= i}) <= c.max
  <2>1. /\ IsFiniteSet({j \in Matches(ls) : j <= i})
        /\ Cardinality({j \in Matches(ls) : j <= i}) <= Cardinality(Matches(ls))
    BY <1>3, FS_Subset
  <2>2. Cardinality({j \in Matches(ls) : j <= i}) \in Nat /\ Cardinality(Matches(ls)) \in Nat
    BY <1>3, <2>1, FS_CardinalityType
  <2> QED BY <1>0, <2>1, <2>2
<1>5. {i \in Matches(ls) : c.max = 0 \/ Cardinality({j \in Matches(ls) : j <= i}) <= c.max} = Matches(ls)
  BY <1>4
<1>6. Shown(c, Texts(ls)) = {i \in DOMAIN ls : \E j \in Matches(ls) : i >= j - c.before /\ i <= j + c.after
                                                                    /\ (i \in Matches(ls) => i \in Matches(ls))}
  BY <1>1, <1>2, <1>5 DEF Shown
<1> QED BY <1>6 DEF Near

\* A match after the last one that counts is not shown and shows nothing.
LEMMA ShownBeyond ==
    ASSUME NEW c \in Contexts, NEW ls \in Seq(Line), NEW l \in Line, Match(l.text),
           c.max > 0, Cardinality(Matches(ls)) = c.max
    PROVE  Shown(c, Texts(Append(ls, l))) = Near(c, ls)
<1> DEFINE ms == Append(ls, l)
           n == Len(ls)
           counted == {i \in Matches(ms) : c.max = 0 \/ Cardinality({j \in Matches(ms) : j <= i}) <= c.max}
<1>0. /\ Append(ls, l) \in Seq(Line) /\ Len(ls) \in Nat
      /\ DOMAIN ls = 1 .. Len(ls) /\ DOMAIN Append(ls, l) = 1 .. Len(ls) + 1
      /\ Len(Append(ls, l)) = Len(ls) + 1
      /\ \A i \in 1 .. Len(ls) : Append(ls, l)[i] = ls[i]
      /\ Append(ls, l)[Len(ls) + 1] = l
  BY OneMore
<1>1. /\ Matches(ls) \subseteq 1 .. n /\ IsFiniteSet(Matches(ls)) /\ Matches(ms) = Matches(ls) \union {n + 1}
      /\ Cardinality(Matches(ms)) = Cardinality(Matches(ls)) + 1
  BY MatchesMore
<1>2. c.max \in Nat /\ c.max # 0 /\ c.before \in Nat /\ c.after \in Nat
  BY ContextType
<1>3. n \in Nat
  BY <1>0
<1>4. DOMAIN Texts(ms) = DOMAIN ms /\ \A i \in DOMAIN ms : Texts(ms)[i] = ms[i].text
  BY DEF Texts
<1>5. {i \in DOMAIN Texts(ms) : Match(Texts(ms)[i])} = Matches(ms)
  BY <1>4 DEF Matches
<1>6. Shown(c, Texts(ms)) = {i \in DOMAIN ms : \E j \in counted : i >= j - c.before /\ i <= j + c.after
                                                               /\ (i \in Matches(ms) => i \in counted)}
  BY <1>4, <1>5 DEF Shown
<1>7. n + 1 \notin counted
  <2>1. {j \in Matches(ms) : j <= n + 1} = Matches(ms)
    BY <1>1, <1>3
  <2>2. Cardinality({j \in Matches(ms) : j <= n + 1}) = c.max + 1
    BY <1>1, <2>1
  <2> QED BY <1>2, <2>2
<1>8. ASSUME NEW i \in Matches(ls) PROVE i \in counted
  <2>1. {j \in Matches(ms) : j <= i} \subseteq Matches(ls)
    BY <1>1, <1>3
  <2>2. /\ IsFiniteSet({j \in Matches(ms) : j <= i})
        /\ Cardinality({j \in Matches(ms) : j <= i}) <= c.max
    BY <1>1, <2>1, FS_Subset
  <2> QED BY <1>1, <2>2
<1>9. counted = Matches(ls)
  BY <1>1, <1>7, <1>8
<1> HIDE DEF counted
<1>10. ASSUME NEW i PROVE i \in Shown(c, Texts(ms)) <=> i \in Near(c, ls)
  <2>1. i \in DOMAIN ms <=> i \in DOMAIN ls \/ i = n + 1
    BY <1>0
  <2>2. n + 1 \notin DOMAIN ls /\ n + 1 \in Matches(ms) /\ n + 1 \notin Matches(ls)
    BY <1>0, <1>1
  <2>3. CASE i = n + 1
    BY <1>6, <1>9, <2>2, <2>3 DEF Near
  <2>4. CASE i # n + 1
    <3>1. i \in Matches(ms) <=> i \in Matches(ls)
      BY <1>1, <2>4
    <3> HIDE DEF ms, n
    <3> QED BY <1>6, <1>9, <2>1, <2>4, <3>1 DEF Near
  <2> QED BY <2>3, <2>4
<1> QED BY <1>10

\* What a further line adds to the contexts.
LEMMA NearMore ==
    ASSUME NEW c \in Contexts, NEW ls \in Seq(Line), NEW l \in Line
    PROVE  /\ Near(c, ls) \subseteq 1 .. Len(ls)
           /\ \A i \in 1 .. Len(ls) :
                 i \in Near(c, Append(ls, l)) <=> \/ i \in Near(c, ls)
                                                  \/ Match(l.text) /\ i >= Len(ls) + 1 - c.before
           /\ Len(ls) + 1 \in Near(c, Append(ls, l)) <=>
                 \/ Match(l.text)
                 \/ \E j \in Matches(ls) : Len(ls) + 1 <= j + c.after
           /\ Near(c, Append(ls, l)) \subseteq 1 .. Len(ls) + 1
<1> DEFINE ms == Append(ls, l)
           n == Len(ls)
<1>0. /\ Append(ls, l) \in Seq(Line) /\ Len(ls) \in Nat
      /\ DOMAIN ls = 1 .. Len(ls) /\ DOMAIN Append(ls, l) = 1 .. Len(ls) + 1
      /\ Len(Append(ls, l)) = Len(ls) + 1
      /\ \A i \in 1 .. Len(ls) : Append(ls, l)[i] = ls[i]
      /\ Append(ls, l)[Len(ls) + 1] = l
  BY OneMore
<1>1. c.before \in Nat /\ c.after \in Nat /\ n \in Nat /\ DOMAIN ls = 1 .. n /\ DOMAIN ms = 1 .. n + 1
  BY <1>0, ContextType
<1>2. /\ Matches(ls) \subseteq 1 .. n
      /\ \A j : j \in Matches(ms) <=> j \in Matches(ls) \/ (Match(l.text) /\ j = n + 1)
  BY MatchesMore
<1> HIDE DEF ms, n
<1>3. Near(c, ls) \subseteq 1 .. n /\ Near(c, ms) \subseteq 1 .. n + 1
  BY <1>1 DEF Near
<1>4. ASSUME NEW i \in 1 .. n
      PROVE  i \in Near(c, ms) <=> i \in Near(c, ls) \/ (Match(l.text) /\ i >= n + 1 - c.before)
  <2>1. i \in DOMAIN ls /\ i \in DOMAIN ms /\ i <= n + 1 + c.after
    BY <1>1
  <2>2. ASSUME i \in Near(c, ms) PROVE i \in Near(c, ls) \/ (Match(l.text) /\ i >= n + 1 - c.before)
    <3>1. PICK j \in Matches(ms) : i >= j - c.before /\ i <= j + c.after
      BY <2>2 DEF Near
    <3>2. CASE j \in Matches(ls)
      BY <2>1, <3>1, <3>2 DEF Near
    <3>3. CASE Match(l.text) /\ j = n + 1
      <4>2. j = n + 1
        BY <3>3, Zenon
      <4>3. i >= n + 1 - c.before
        BY <1>1, <3>1, <4>2
      <4> QED BY <3>3, <4>3, Zenon
    <3> QED BY <1>2, <3>2, <3>3
  <2>3. ASSUME i \in Near(c, ls) PROVE i \in Near(c, ms)
    BY <1>2, <2>1, <2>3 DEF Near
  <2>4. ASSUME Match(l.text), i >= n + 1 - c.before PROVE i \in Near(c, ms)
    <3>0. i >= n + 1 - c.before
      BY <2>4, Zenon
    <3>1. PICK j \in Matches(ms) : j = n + 1
      BY <1>2, <2>4
    <3>2. i >= j - c.before /\ i <= j + c.after
      BY <1>1, <2>1, <3>0, <3>1
    <3> QED BY <2>1, <3>2 DEF Near
  <2> QED BY <2>2, <2>3, <2>4
<1>5. n + 1 \in Near(c, ms) <=> Match(l.text) \/ \E j \in Matches(ls) : n + 1 <= j + c.after
  <2>1. n + 1 \in DOMAIN ms
    BY <1>1
  <2>2. ASSUME n + 1 \in Near(c, ms) PROVE Match(l.text) \/ \E j \in Matches(ls) : n + 1 <= j + c.after
    BY <1>2, <2>2 DEF Near
  <2>3. ASSUME Match(l.text) PROVE n + 1 \in Near(c, ms)
    <3>1. PICK j \in Matches(ms) : j = n + 1
      BY <1>2, <2>3
    <3>2. n + 1 >= j - c.before /\ n + 1 <= j + c.after
      BY <1>1, <3>1
    <3> QED BY <2>1, <3>2 DEF Near
  <2>4. ASSUME NEW j \in Matches(ls), n + 1 <= j + c.after PROVE n + 1 \in Near(c, ms)
    <3>1. n + 1 >= j - c.before
      BY <1>1, <1>2
    <3> QED BY <1>2, <2>1, <2>4, <3>1 DEF Near
  <2> QED BY <2>2, <2>3, <2>4
<1> QED BY <1>3, <1>4, <1>5 DEF ms, n

\* Another line comes and is not passed on.
LEMMA SentSame ==
    ASSUME NEW ls \in Seq(Line), NEW l \in Line, NEW S \in SUBSET (1 .. Len(ls)), NEW q, SentExactly(q, ls, S)
    PROVE  SentExactly(q, Append(ls, l), S)
<1>1. \A i \in S : Append(ls, l)[i] = ls[i]
  BY OneMore
<1> QED BY <1>1 DEF SentExactly

\* Another line comes, and it is passed on after the last b lines, none of which
\* was passed on before.
LEMMA SentMore ==
    ASSUME NEW ls \in Seq(Line), NEW l \in Line, NEW S \in SUBSET (1 .. Len(ls)), NEW q, SentExactly(q, ls, S),
           NEW b \in 0 .. Len(ls), \A i \in S : i <= Len(ls) - b,
           NEW n \in Nat, Numbered(ls, n), l.num = n + 1,
           NEW r \in Seq(SentLine), Len(r) = b + 1,
           \A k \in 1 .. b + 1 : r[k] = [num |-> n - b + k, text |-> Append(ls, l)[Len(ls) - b + k].text]
    PROVE  SentExactly(q \o r, Append(ls, l), S \union (Len(ls) - b + 1 .. Len(ls) + 1))
<1> DEFINE ms == Append(ls, l)
           m == Len(ls)
           T == S \union (m - b + 1 .. m + 1)
<1>0. /\ Append(ls, l) \in Seq(Line) /\ Len(ls) \in Nat
      /\ DOMAIN ls = 1 .. Len(ls) /\ DOMAIN Append(ls, l) = 1 .. Len(ls) + 1
      /\ Len(Append(ls, l)) = Len(ls) + 1
      /\ \A i \in 1 .. Len(ls) : Append(ls, l)[i] = ls[i]
      /\ Append(ls, l)[Len(ls) + 1] = l
  BY OneMore
<1>1. /\ m \in Nat /\ b \in Nat /\ b <= m /\ DOMAIN ms = 1 .. m + 1 /\ ms \in Seq(Line)
      /\ \A i \in S : i \in 1 .. m /\ ms[i] = ls[i] /\ i <= m - b
  BY <1>0
<1>2. ASSUME NEW i \in 1 .. m + 1 PROVE ms[i].num = n - m + i
  <2>1. CASE i = m + 1
    <3>1. ms[i] = l
      BY <1>0, <2>1
    <3>2. ms[i].num = n + 1
      BY <3>1
    <3> HIDE DEF ms, m
    <3>3. n - m + i = n + 1
      BY <1>1, <2>1
    <3> QED BY <3>2, <3>3, Zenon
  <2>2. CASE i \in 1 .. m
    BY <1>0, <2>2 DEF Numbered
  <2>3. i = m + 1 \/ i \in 1 .. m
    <3>1. m \in Nat
      BY <1>1
    <3> HIDE DEF m
    <3> QED BY <3>1
  <2> QED BY <2>1, <2>2, <2>3, Zenon
<1> HIDE DEF ms, m
<1>3. ASSUME NEW k \in 1 .. b + 1 PROVE m - b + k \in 1 .. m + 1 /\ r[k] = Numbers(ms[m - b + k]) /\ r[k].num = n - b + k
  <2>1. m - b + k \in 1 .. m + 1 /\ n - m + (m - b + k) = n - b + k
    BY <1>1
  <2>2. ms[m - b + k].num = n - b + k
    BY <1>2, <2>1
  <2>3. r[k] = [num |-> n - b + k, text |-> ms[m - b + k].text]
    BY DEF ms, m
  <2> QED BY <2>1, <2>2, <2>3 DEF Numbers
<1>4. q \in Seq(SentLine) /\ Len(q) \in Nat /\ Len(r) \in Nat
  BY DEF SentExactly
<1>5. PICK p : p = q \o r
  OBVIOUS
<1>6. /\ p \in Seq(SentLine) /\ Len(p) = Len(q) + b + 1 /\ DOMAIN p = 1 .. Len(q) + b + 1
      /\ \A k \in 1 .. Len(q) : p[k] = q[k]
      /\ \A k \in 1 .. b + 1 : p[Len(q) + k] = r[k]
  <2>1. p \in Seq(SentLine) /\ Len(p) = Len(q) + Len(r)
        /\ \A k \in 1 .. Len(q) + Len(r) : p[k] = IF k <= Len(q) THEN q[k] ELSE r[k - Len(q)]
    BY <1>4, <1>5, ConcatProperties
  <2>2. Len(p) = Len(q) + b + 1 /\ DOMAIN p = 1 .. Len(q) + b + 1
    BY <1>1, <1>4, <2>1
  <2>3. ASSUME NEW k \in 1 .. Len(q) PROVE p[k] = q[k]
    BY <1>4, <2>1
  <2>4. ASSUME NEW k \in 1 .. b + 1 PROVE p[Len(q) + k] = r[k]
    <3>1. PICK e : e = Len(q) + k
      OBVIOUS
    <3>2. e \in 1 .. Len(q) + Len(r) /\ ~(e <= Len(q)) /\ e - Len(q) = k
      BY <1>1, <1>4, <3>1
    <3>3. p[e] = r[e - Len(q)]
      BY <2>1, <3>2
    <3> QED BY <3>1, <3>2, <3>3
  <2> QED BY <2>1, <2>2, <2>3, <2>4
<1>7. ASSUME NEW k \in DOMAIN p PROVE k \in 1 .. Len(q) \/ \E j \in 1 .. b + 1 : k = Len(q) + j
  <2>1. CASE ~(k \in 1 .. Len(q))
    <3>0. PICK d \in Nat : d = Len(q)
      BY <1>4
    <3>1. k \in 1 .. d + b + 1 /\ ~(k \in 1 .. d)
      BY <1>6, <2>1, <3>0
    <3>2. k - d \in 1 .. b + 1 /\ k = d + (k - d)
      BY <1>1, <3>0, <3>1
    <3> QED BY <3>0, <3>2
  <2> QED BY <2>1
<1>8. ASSUME NEW k \in 1 .. Len(q) PROVE \E i \in S : q[k] = Numbers(ms[i])
  <2>1. k \in DOMAIN q
    BY <1>4
  <2>2. PICK i \in S : q[k] = Numbers(ls[i])
    BY <2>1 DEF SentExactly
  <2> QED BY <1>1, <2>2
<1>9. ASSUME NEW k \in DOMAIN p PROVE \E i \in T : p[k] = Numbers(ms[i])
  <2>1. CASE k \in 1 .. Len(q)
    BY <1>6, <1>8, <2>1
  <2>2. ASSUME NEW j \in 1 .. b + 1, k = Len(q) + j PROVE \E i \in T : p[k] = Numbers(ms[i])
    <3>1. PICK i : i = m - b + j
      OBVIOUS
    <3>2. i \in T
      BY <1>1, <3>1
    <3>3. p[k] = Numbers(ms[i])
      BY <1>3, <1>6, <2>2, <3>1
    <3> QED BY <3>2, <3>3
  <2> QED BY <1>7, <2>1, <2>2
<1>10. ASSUME NEW i \in T PROVE \E k \in DOMAIN p : p[k] = Numbers(ms[i])
  <2>1. CASE i \in S
    <3>1. PICK k \in DOMAIN q : q[k] = Numbers(ls[i])
      BY <2>1 DEF SentExactly
    <3>2. k \in 1 .. Len(q) /\ k \in DOMAIN p
      BY <1>1, <1>4, <1>6
    <3> QED BY <1>1, <1>6, <2>1, <3>1, <3>2
  <2>2. CASE i \in m - b + 1 .. m + 1
    <3>1. PICK j \in 1 .. b + 1 : i = m - b + j
      <4>1. i - (m - b) \in 1 .. b + 1 /\ i = m - b + (i - (m - b))
        BY <1>1, <2>2
      <4> QED BY <4>1
    <3>2. Len(q) + j \in DOMAIN p
      BY <1>1, <1>4, <1>6
    <3> QED BY <1>3, <1>6, <3>1, <3>2
  <2> QED BY <2>1, <2>2
<1>11. ASSUME NEW k \in 2 .. Len(p) PROVE p[k - 1].num < p[k].num
  <2>1. CASE k \in 1 .. Len(q)
    <3>1. k - 1 \in 1 .. Len(q) /\ k \in 2 .. Len(q)
      BY <1>4, <2>1
    <3> QED BY <1>6, <2>1, <3>1 DEF SentExactly
  <2>2. CASE k = Len(q) + 1
    <3>1. k - 1 \in 1 .. Len(q) /\ k - 1 = Len(q) /\ 1 \in 1 .. b + 1
      BY <1>1, <1>4, <2>2
    <3>2. PICK i \in S : q[k - 1] = Numbers(ms[i])
      BY <1>8, <3>1
    <3>3. p[k - 1].num = n - m + i
      <4>1. i \in 1 .. m + 1
        BY <1>1
      <4>2. p[k - 1] = Numbers(ms[i])
        BY <1>6, <3>1, <3>2
      <4>3. Numbers(ms[i]).num = ms[i].num
        BY DEF Numbers
      <4> QED BY <1>2, <4>1, <4>2, <4>3
    <3>4. p[k] = r[1] /\ r[1].num = n - b + 1
      BY <1>3, <1>6, <2>2, <3>1
    <3>5. n - m + i < n - b + 1
      BY <1>1
    <3> QED BY <3>3, <3>4, <3>5
  <2>3. CASE k \in Len(q) + 2 .. Len(p)
    <3>1. PICK j \in 2 .. b + 1 : k = Len(q) + j
      <4>1. k \in Int /\ Len(q) + 2 <= k /\ k <= Len(q) + b + 1
        BY <1>1, <1>4, <1>6, <2>3
      <4>2. k - Len(q) \in 2 .. b + 1 /\ k = Len(q) + (k - Len(q))
        BY <1>1, <1>4, <4>1
      <4> QED BY <4>2
    <3>2. PICK h : h = j - 1
      OBVIOUS
    <3>3. j \in 1 .. b + 1 /\ h \in 1 .. b + 1 /\ k - 1 = Len(q) + h /\ n - b + h < n - b + j
      BY <1>1, <1>4, <3>1, <3>2
    <3>4. p[k - 1] = r[h] /\ p[k] = r[j]
      BY <1>6, <3>1, <3>3
    <3>5. r[h].num = n - b + h /\ r[j].num = n - b + j
      BY <1>3, <3>3
    <3> QED BY <3>3, <3>4, <3>5
  <2>4. k \in 1 .. Len(q) \/ k = Len(q) + 1 \/ k \in Len(q) + 2 .. Len(p)
    <3>1. k \in Int /\ 2 <= k /\ k <= Len(p) /\ Len(p) \in Nat
      BY <1>1, <1>4, <1>6
    <3> QED BY <1>4, <3>1
  <2> QED BY <2>1, <2>2, <2>3, <2>4
<1> QED BY <1>5, <1>6, <1>9, <1>10, <1>11 DEF SentExactly, ms, m

-----------------------------------------------------------------------------
(* What the filter does with the next line. *)

\* A line within the context of the last match.
LEMMA FollowsMatch ==
    ASSUME NEW f \in Filter, NEW ls \in Seq(Line), NEW l \in Line, FilterInv(f, ls), ~Match(l.text),
           f.afterCount > 0, NEW n \in Nat, Numbered(ls, n), l.num = n + 1,
           NEW q, SentExactly(q, ls, Near(f.ltx, ls)),
           NEW g \in Filter, g.ltx = f.ltx, g.afterCount = f.afterCount - 1, g.beforeBuf = f.beforeBuf,
           g.maxCount = f.maxCount, g.maxReached = f.maxReached
    PROVE  /\ FilterInv(g, Append(ls, l))
           /\ SentExactly(q \o <<[num |-> l.num, text |-> l.text]>>, Append(ls, l), Near(f.ltx, Append(ls, l)))
<1> DEFINE ms == Append(ls, l)
           m == Len(ls)
           c == f.ltx
<1>0. /\ Append(ls, l) \in Seq(Line) /\ Len(ls) \in Nat
      /\ DOMAIN ls = 1 .. Len(ls) /\ DOMAIN Append(ls, l) = 1 .. Len(ls) + 1
      /\ Len(Append(ls, l)) = Len(ls) + 1
      /\ \A i \in 1 .. Len(ls) : Append(ls, l)[i] = ls[i]
      /\ Append(ls, l)[Len(ls) + 1] = l
  BY OneMore
<1>1. /\ c \in Contexts /\ c.after \in Nat /\ c.before \in Nat /\ c.max \in Nat
      /\ f.afterCount \in Nat /\ m \in Nat
  BY FilterType
<1>2. PICK a \in Nat, before \in Nat, after \in Nat, n0 \in Nat :
          a = f.afterCount /\ before = c.before /\ after = c.after /\ n0 = m
  BY <1>1
<1>3. Matches(ms) = Matches(ls) /\ Matches(ls) \subseteq 1 .. m
  BY MatchesMore
<1>4. PICK j \in Matches(ls) : j + after = n0 + a
  BY <1>2 DEF FilterInv, AfterInv
<1>5. a > 0 /\ n0 + 1 <= j + after /\ n0 + a = (n0 + 1) + (a - 1)
  <2>1. a > 0
    BY <1>2
  <2>2. n0 + 1 <= n0 + a /\ n0 + a = (n0 + 1) + (a - 1)
    BY <2>1
  <2> QED BY <1>4, <2>1, <2>2, Zenon
<1>6. /\ Near(c, ls) \subseteq 1 .. m
      /\ \A i \in 1 .. m : i \in Near(c, ms) <=> i \in Near(c, ls)
      /\ m + 1 \in Near(c, ms)
      /\ Near(c, ms) \subseteq 1 .. m + 1
  BY <1>1, <1>2, <1>5, NearMore
<1>7. Len(f.beforeBuf) = 0
  BY DEF FilterInv, BeforeInv
<1>8. AfterInv(g, ms)
  <2>0. Len(ms) + g.afterCount = n0 + a
    BY <1>0, <1>2, <1>5
  <2>1. ASSUME NEW i \in Matches(ms) PROVE i + g.ltx.after <= Len(ms) + g.afterCount
    BY <1>2, <1>3, <2>0 DEF FilterInv, AfterInv
  <2>2. j + g.ltx.after = Len(ms) + g.afterCount
    BY <1>2, <1>4, <2>0
  <2> QED BY <1>3, <2>1, <2>2 DEF AfterInv
<1>9. BeforeInv(g, ms)
  <2>1. ASSUME NEW i \in 1 .. n0 + 1, i >= n0 + 2 - before PROVE i \in Near(c, ms)
    <3>1. CASE i \in 1 .. n0
      <4>1. i \in 1 .. n0 - 0 /\ i >= n0 + 1 - before
        BY <2>1, <3>1
      <4>2. i \in Near(c, ls)
        BY <1>2, <1>7, <4>1 DEF FilterInv, BeforeInv
      <4> QED BY <1>2, <1>6, <3>1, <4>2
    <3>2. i \in 1 .. n0 \/ i = n0 + 1
      BY <1>2
    <3> QED BY <1>2, <1>6, <3>1, <3>2
  <2>2. Len(g.beforeBuf) = 0 /\ Len(ms) = n0 + 1 /\ g.ltx = c
    BY <1>0, <1>2, <1>7
  <2>3. Len(g.beforeBuf) <= Len(ms) /\ Len(g.beforeBuf) <= g.ltx.before
    BY <1>1, <1>2, <2>2
  <2>4. ASSUME NEW i \in 1 .. (n0 + 1) - 0, i >= (n0 + 1) + 1 - before
        PROVE  i \in Near(c, ms)
    <3>1. i \in 1 .. n0 + 1 /\ i >= n0 + 2 - before
      BY <2>4
    <3> QED BY <2>1, <3>1
  <2>5. 1 .. Len(g.beforeBuf) = {}
    BY <2>2
  <2> HIDE DEF ms
  <2> QED BY <1>2, <2>2, <2>3, <2>4, <2>5 DEF BeforeInv
<1>10. MaxInv(g, ms)
  BY <1>3 DEF FilterInv, MaxInv
<1>11. SentExactly(q \o <<[num |-> l.num, text |-> l.text]>>, ms, Near(c, ms))
  <2>1. PICK b \in 0 .. Len(ls) : b = 0
    BY <1>1
  <2>2. PICK r : r = <<[num |-> l.num, text |-> l.text]>>
    OBVIOUS
  <2>3. l.num \in Int /\ l.text \in Seq(Bytes)
    BY DEF Line
  <2>4. r \in Seq(SentLine) /\ Len(r) = b + 1 /\ r[1] = [num |-> l.num, text |-> l.text]
    BY <2>1, <2>2, <2>3 DEF SentLine
  <2>5. ASSUME NEW k \in 1 .. b + 1 PROVE r[k] = [num |-> n - b + k, text |-> ms[m - b + k].text]
    <3>1. k = 1 /\ n - b + k = n + 1 /\ m - b + k = m + 1
      BY <1>1, <2>1
    <3>2. ms[m + 1] = l
      BY <1>0
    <3> HIDE DEF ms, m
    <3> QED BY <2>4, <3>1, <3>2
  <2>6. \A i \in Near(c, ls) : i <= Len(ls) - b
    BY <1>1, <1>6, <2>1
  <2>7. SentExactly(q \o r, ms, Near(c, ls) \union (m - b + 1 .. m + 1))
    BY <1>6, <2>4, <2>5, <2>6, SentMore
  <2>8. Near(c, ls) \union (m - b + 1 .. m + 1) = Near(c, ms)
    <3>1. m - b + 1 .. m + 1 = {m + 1}
      BY <1>1, <2>1
    <3>2. \A i : i \in 1 .. m + 1 <=> i \in 1 .. m \/ i = m + 1
      BY <1>1
    <3> HIDE DEF ms, m
    <3> QED BY <1>6, <3>1, <3>2
  <2> QED BY <2>2, <2>7, <2>8
<1> QED BY <1>8, <1>9, <1>10, <1>11 DEF FilterInv

\* A line outside the context of the matches so far.
LEMMA AwaitsMatch ==
    ASSUME NEW f \in Filter, NEW ls \in Seq(Line), NEW l \in Line, FilterInv(f, ls), ~Match(l.text),
           f.afterCount = 0, NEW q, SentExactly(q, ls, Near(f.ltx, ls)),
           NEW g \in Filter, g.ltx = f.ltx, g.afterCount = 0,
           g.maxCount = f.maxCount, g.maxReached = f.maxReached,
           \/ f.ltx.before = 0 /\ g.beforeBuf = f.beforeBuf
           \/ f.ltx.before > 0 /\ g.beforeBuf = Append(IF Len(f.beforeBuf) >= f.ltx.before
                                                        THEN Tail(f.beforeBuf) ELSE f.beforeBuf, l.text)
    PROVE  FilterInv(g, Append(ls, l)) /\ SentExactly(q, Append(ls, l), Near(f.ltx, Append(ls, l)))
<1> DEFINE ms == Append(ls, l)
           m == Len(ls)
           c == f.ltx
<1>0. /\ Append(ls, l) \in Seq(Line) /\ Len(ls) \in Nat
      /\ DOMAIN ls = 1 .. Len(ls) /\ DOMAIN Append(ls, l) = 1 .. Len(ls) + 1
      /\ Len(Append(ls, l)) = Len(ls) + 1
      /\ \A i \in 1 .. Len(ls) : Append(ls, l)[i] = ls[i]
      /\ Append(ls, l)[Len(ls) + 1] = l
  BY OneMore
<1>1. /\ c \in Contexts /\ c.after \in Nat /\ c.before \in Nat /\ c.max \in Nat /\ m \in Nat
      /\ f.beforeBuf \in Seq(Seq(Bytes)) /\ Len(f.beforeBuf) \in Nat /\ Len(g.beforeBuf) \in Nat
  BY <1>0, FilterType
<1>a. PICK n0 \in Nat, b \in Nat, d \in Nat, before \in Nat :
          n0 = m /\ b = Len(f.beforeBuf) /\ d = Len(g.beforeBuf) /\ before = c.before
  BY <1>1
<1>b. b <= n0 /\ b <= before
  BY <1>a DEF FilterInv, BeforeInv
<1>2. Matches(ms) = Matches(ls) /\ Matches(ls) \subseteq 1 .. m
  BY MatchesMore
<1>3. \A j \in Matches(ls) : j + c.after <= m
  <2>1. \A j \in Matches(ls) : j + c.after <= m + 0
    BY DEF FilterInv, AfterInv
  <2> QED BY <1>1, <2>1
<1>4. ~\E j \in Matches(ls) : m + 1 <= j + c.after
  BY <1>1, <1>2, <1>3
<1>5. Near(c, ls) \subseteq 1 .. m /\ Near(c, ms) = Near(c, ls) /\ m + 1 \notin Near(c, ls)
  <2>1. /\ Near(c, ls) \subseteq 1 .. m
        /\ \A i \in 1 .. m : i \in Near(c, ms) <=> i \in Near(c, ls)
        /\ m + 1 \notin Near(c, ms)
        /\ Near(c, ms) \subseteq 1 .. m + 1
    BY <1>1, <1>4, NearMore
  <2>2. \A i : i \in 1 .. m + 1 <=> i \in 1 .. m \/ i = m + 1
    BY <1>1
  <2> HIDE DEF ms, m
  <2> QED BY <1>1, <2>1, <2>2
<1>6. AfterInv(g, ms)
  <2>1. ASSUME NEW j \in Matches(ms) PROVE j + g.ltx.after <= Len(ms) + g.afterCount
    <3>1. j + c.after <= m /\ j \in Int
      BY <1>2, <1>3
    <3> QED BY <1>0, <1>1, <3>1
  <2> QED BY <2>1 DEF AfterInv
<1>7. MaxInv(g, ms)
  BY <1>2 DEF FilterInv, MaxInv
\* The old buffer, and how it moves.
<1>8. /\ \A k \in 1 .. b : f.beforeBuf[k] = ls[n0 - b + k].text /\ n0 - b + k \notin Near(c, ls)
      /\ \A i \in 1 .. n0 - b : i >= n0 + 1 - before => i \in Near(c, ls)
  BY <1>a DEF FilterInv, BeforeInv
<1>9. SentExactly(q, ms, Near(c, ms))
  BY <1>5, SentSame
<1>10. ASSUME d <= before, d <= n0 + 1,
              \A k \in 1 .. d : g.beforeBuf[k] = ms[(n0 + 1) - d + k].text /\ (n0 + 1) - d + k \notin Near(c, ms),
              \A i \in 1 .. (n0 + 1) - d : i >= (n0 + 1) + 1 - before => i \in Near(c, ms)
       PROVE  BeforeInv(g, ms)
  <2>1. Len(ms) = n0 + 1 /\ g.ltx = c
    BY <1>0, <1>a
  <2> HIDE DEF ms, m
  <2>2. Len(g.beforeBuf) = d /\ g.ltx.before = before /\ ~(g.afterCount > 0)
    BY <1>a
  <2> QED BY <1>10, <2>1, <2>2 DEF BeforeInv
<1>11. CASE c.before = 0
  <2>1. before = 0 /\ g.beforeBuf = f.beforeBuf
    BY <1>1, <1>a, <1>11
  <2>2. b = 0 /\ d = 0
    BY <1>a, <1>b, <2>1
  <2>3. /\ d <= before /\ d <= n0 + 1 /\ 1 .. d = {}
        /\ \A i \in 1 .. (n0 + 1) - d : ~(i >= (n0 + 1) + 1 - before)
    BY <1>b, <2>1, <2>2
  <2>4. BeforeInv(g, ms)
    BY <1>10, <2>3
  <2> QED BY <1>6, <1>7, <1>9, <2>4 DEF FilterInv
<1>12. CASE c.before > 0
  <2>1. PICK room : room = IF b >= before THEN Tail(f.beforeBuf) ELSE f.beforeBuf
    OBVIOUS
  <2>2. g.beforeBuf = Append(room, l.text) /\ before > 0
    BY <1>1, <1>12, <1>a, <2>1
  <2>3. PICK s \in {0, 1} : s = IF b >= before THEN 1 ELSE 0
    OBVIOUS
  <2>4. s <= b /\ b - s + 1 <= before /\ (s = 1 => b = before) /\ b - s \in Nat
    BY <1>b, <2>2, <2>3
  <2>5. /\ room \in Seq(Seq(Bytes)) /\ Len(room) = b - s
        /\ \A k \in 1 .. b - s : room[k] = f.beforeBuf[k + s]
    <3>1. CASE b >= before
      <4>1. room = Tail(f.beforeBuf) /\ s = 1 /\ f.beforeBuf # << >>
        <5>1. b > 0
          BY <2>2, <3>1
        <5> QED BY <1>a, <2>1, <2>3, <3>1, <5>1
      <4> QED BY <1>1, <1>a, <4>1
    <3>2. CASE ~(b >= before)
      <4>1. room = f.beforeBuf /\ s = 0
        BY <2>1, <2>3, <3>2
      <4> QED BY <1>1, <1>a, <4>1
    <3> QED BY <3>1, <3>2
  <2>6. /\ d = b - s + 1 /\ \A k \in 1 .. b - s : g.beforeBuf[k] = f.beforeBuf[k + s]
        /\ g.beforeBuf[b - s + 1] = l.text
    <3>1. l.text \in Seq(Bytes)
      BY DEF Line
    <3> QED BY <1>a, <2>2, <2>4, <2>5, <3>1
  <2>7. ASSUME NEW k \in 1 .. d
        PROVE  g.beforeBuf[k] = ms[(n0 + 1) - d + k].text /\ (n0 + 1) - d + k \notin Near(c, ms)
    <3>0. PICK i : i = (n0 + 1) - d + k
      OBVIOUS
    <3>1. CASE k = b - s + 1
      <4>1. i = n0 + 1
        BY <2>4, <2>6, <3>0, <3>1
      <4>2. ms[i] = l /\ i \notin Near(c, ms)
        BY <1>0, <1>5, <1>a, <4>1
      <4> HIDE DEF ms, m
      <4> QED BY <2>6, <3>0, <3>1, <4>2
    <3>2. CASE k \in 1 .. b - s
      <4>1. PICK h : h = k + s
        OBVIOUS
      <4>2. h \in 1 .. b /\ i = n0 - b + h /\ i \in 1 .. n0
        BY <1>b, <2>4, <2>6, <3>0, <3>2, <4>1
      <4>3. f.beforeBuf[h] = ls[i].text /\ i \notin Near(c, ls)
        BY <1>8, <4>2
      <4>4. ms[i] = ls[i]
        BY <1>0, <1>a, <4>2
      <4> HIDE DEF ms, m
      <4> QED BY <1>5, <2>6, <3>0, <3>2, <4>1, <4>3, <4>4
    <3>3. k = b - s + 1 \/ k \in 1 .. b - s
      BY <2>4, <2>6
    <3> QED BY <3>1, <3>2, <3>3
  <2>8. ASSUME NEW i \in 1 .. (n0 + 1) - d, i >= (n0 + 1) + 1 - before PROVE i \in Near(c, ms)
    <3>1. s = 0 /\ i \in 1 .. n0 - b /\ i >= n0 + 1 - before
      BY <1>b, <2>4, <2>6, <2>8
    <3> QED BY <1>5, <1>8, <3>1
  <2>9. d <= before /\ d <= n0 + 1
    BY <1>b, <2>4, <2>6
  <2>10. BeforeInv(g, ms)
    <3> HIDE DEF ms
    <3> QED BY <1>10, <2>7, <2>8, <2>9
  <2> QED BY <1>6, <1>7, <1>9, <2>10 DEF FilterInv
<1> QED BY <1>1, <1>11, <1>12

\* A match that counts brings the lines that wait for it.
LEMMA MatchSent ==
    ASSUME NEW f \in Filter, NEW ls \in Seq(Line), NEW l \in Line, FilterInv(f, ls), Match(l.text),
           NEW n \in Nat, Numbered(ls, n), l.num = n + 1,
           NEW q, SentExactly(q, ls, Near(f.ltx, ls))
    PROVE  SentExactly(q \o Append(BeforeContext(f, l.num), [num |-> l.num, text |-> l.text]),
                       Append(ls, l), Near(f.ltx, Append(ls, l)))
<1> DEFINE ms == Append(ls, l)
           c == f.ltx
           context == BeforeContext(f, l.num)
           last == [num |-> l.num, text |-> l.text]
<1>0. /\ Append(ls, l) \in Seq(Line) /\ Len(ls) \in Nat
      /\ DOMAIN ls = 1 .. Len(ls) /\ DOMAIN Append(ls, l) = 1 .. Len(ls) + 1
      /\ Len(Append(ls, l)) = Len(ls) + 1
      /\ \A i \in 1 .. Len(ls) : Append(ls, l)[i] = ls[i]
      /\ Append(ls, l)[Len(ls) + 1] = l
  BY OneMore
<1>1. /\ c \in Contexts /\ c.before \in Nat
      /\ f.beforeBuf \in Seq(Seq(Bytes)) /\ Len(f.beforeBuf) \in Nat
  BY FilterType
<1>2. PICK m \in Nat, b \in Nat, before \in Nat :
          m = Len(ls) /\ b = Len(f.beforeBuf) /\ before = c.before
  BY <1>0, <1>1
<1>3. b <= m /\ b <= before
  BY <1>2 DEF FilterInv, BeforeInv
<1>4. /\ \A k \in 1 .. b : f.beforeBuf[k] = ls[m - b + k].text /\ m - b + k \notin Near(c, ls)
      /\ \A i \in 1 .. m - b : i >= m + 1 - before => i \in Near(c, ls)
  BY <1>2 DEF FilterInv, BeforeInv
<1>5. /\ Near(c, ls) \subseteq 1 .. m
      /\ \A i \in 1 .. m : i \in Near(c, ms) <=> i \in Near(c, ls) \/ i >= m + 1 - before
      /\ m + 1 \in Near(c, ms)
      /\ Near(c, ms) \subseteq 1 .. m + 1
  BY <1>1, <1>2, NearMore
<1>6. l.num \in Int /\ l.text \in Seq(Bytes)
  BY DEF Line
<1>7. /\ context \in Seq(SentLine) /\ Len(context) = b
      /\ \A k \in 1 .. b : context[k] = [num |-> n - b + k, text |-> f.beforeBuf[k]]
  <2>1. DOMAIN f.beforeBuf = 1 .. b
    BY <1>1, <1>2
  <2>2. context = [i \in 1 .. b |-> [num |-> l.num - (b - (i - 1)), text |-> f.beforeBuf[i]]]
    BY <1>2, <2>1 DEF BeforeContext
  <2>3. ASSUME NEW i \in 1 .. b PROVE l.num - (b - (i - 1)) = n - b + i /\ n - b + i \in Int
    <3>1. (n + 1) - (b - (i - 1)) = n - b + i /\ n - b + i \in Int
      OBVIOUS
    <3> QED BY <3>1
  <2>4. ASSUME NEW i \in 1 .. b PROVE [num |-> n - b + i, text |-> f.beforeBuf[i]] \in SentLine
    <3>1. f.beforeBuf[i] \in Seq(Bytes)
      BY <1>1, <1>2
    <3> QED BY <2>3, <3>1 DEF SentLine
  <2>5. ASSUME NEW k \in 1 .. b PROVE context[k] = [num |-> n - b + k, text |-> f.beforeBuf[k]]
    BY <2>2, <2>3
  <2>6. context \in [1 .. b -> SentLine]
    BY <2>2, <2>3, <2>4
  <2> HIDE DEF context
  <2>7. context \in Seq(SentLine) /\ Len(context) = b
    BY <2>6
  <2> QED BY <2>5, <2>7
<1> HIDE DEF context
<1>8. PICK r : r = Append(context, last)
  OBVIOUS
<1>9. /\ r \in Seq(SentLine) /\ Len(r) = b + 1
      /\ \A k \in 1 .. b : r[k] = context[k]
      /\ r[b + 1] = last
  <2>1. last \in SentLine
    BY <1>6 DEF SentLine
  <2> HIDE DEF last
  <2> QED BY <1>7, <1>8, <2>1
<1>10. ASSUME NEW k \in 1 .. b + 1 PROVE r[k] = [num |-> n - b + k, text |-> ms[m - b + k].text]
  <2>0. PICK i : i = m - b + k
    OBVIOUS
  <2>1. CASE k = b + 1
    <3>1. i = m + 1 /\ n - b + k = n + 1
      BY <1>3, <2>0, <2>1
    <3>2. ms[i] = l /\ r[k] = last
      BY <1>0, <1>2, <1>9, <2>1, <3>1
    <3>3. r[k] = [num |-> n + 1, text |-> ms[i].text]
      BY <3>2
    <3> HIDE DEF ms
    <3> QED BY <2>0, <3>1, <3>3
  <2>2. CASE k \in 1 .. b
    <3>1. i \in 1 .. m
      BY <1>3, <2>0, <2>2
    <3>2. ms[i] = ls[i]
      BY <1>0, <1>2, <3>1
    <3>3. f.beforeBuf[k] = ms[i].text
      BY <1>4, <2>0, <2>2, <3>2
    <3> HIDE DEF ms
    <3> QED BY <1>7, <1>9, <2>0, <2>2, <3>3
  <2>3. k = b + 1 \/ k \in 1 .. b
    OBVIOUS
  <2> QED BY <2>1, <2>2, <2>3
<1>11. ASSUME NEW i \in Near(c, ls) PROVE i <= m - b
  <2>1. i \in 1 .. m
    BY <1>5
  <2>2. ASSUME i > m - b PROVE FALSE
    <3>1. PICK k : k = i - (m - b)
      OBVIOUS
    <3>2. k \in 1 .. b /\ m - b + k = i
      BY <1>3, <2>1, <2>2, <3>1
    <3> QED BY <1>4, <1>11, <3>2
  <2> QED BY <1>3, <2>1, <2>2
<1>12. Near(c, ls) \union (m - b + 1 .. m + 1) = Near(c, ms)
  <2>1. ASSUME NEW i \in 1 .. m PROVE i \in Near(c, ms) <=> i \in Near(c, ls) \/ i \in m - b + 1 .. m + 1
    <3>1. CASE i \in 1 .. m - b
      <4>1. i \notin m - b + 1 .. m + 1
        BY <1>3, <3>1
      <4> QED BY <1>4, <1>5, <3>1, <4>1
    <3>2. CASE i \notin 1 .. m - b
      <4>1. i \in m - b + 1 .. m + 1 /\ i >= m + 1 - before
        BY <1>3, <3>2
      <4> QED BY <1>5, <4>1
    <3> QED BY <3>1, <3>2
  <2>2. \A i : i \in 1 .. m + 1 <=> i \in 1 .. m \/ i = m + 1
    OBVIOUS
  <2>3. m + 1 \in m - b + 1 .. m + 1 /\ (m - b + 1 .. m + 1) \subseteq 1 .. m + 1
    BY <1>3
  <2> HIDE DEF ms
  <2> QED BY <1>5, <2>1, <2>2, <2>3
<1>13. SentExactly(q \o r, ms, Near(c, ls) \union (m - b + 1 .. m + 1))
  <2>1. b \in 0 .. Len(ls) /\ Near(c, ls) \in SUBSET (1 .. Len(ls))
    BY <1>2, <1>3, <1>5
  <2>2. \A i \in Near(c, ls) : i <= Len(ls) - b
    BY <1>2, <1>11
  <2>3. \A k \in 1 .. b + 1 : r[k] = [num |-> n - b + k, text |-> Append(ls, l)[Len(ls) - b + k].text]
    BY <1>2, <1>10
  <2>4. SentExactly(q \o r, Append(ls, l), Near(c, ls) \union (Len(ls) - b + 1 .. Len(ls) + 1))
    BY <1>9, <2>1, <2>2, <2>3, SentMore
  <2> QED BY <1>2, <2>4
<1> QED BY <1>8, <1>12, <1>13 DEF context

\* The filter after a match that counts and does not end the read.
LEMMA MatchFilter ==
    ASSUME NEW f \in Filter, NEW ls \in Seq(Line), NEW l \in Line, FilterInv(f, ls), Match(l.text), ~f.maxReached,
           NEW g \in Filter, g.ltx = f.ltx, g.beforeBuf = << >>, g.afterCount = f.ltx.after,
           g.maxCount = IF f.ltx.max > 0 THEN f.maxCount + 1 ELSE f.maxCount,
           g.maxReached <=> f.ltx.max > 0 /\ g.maxCount >= f.ltx.max
    PROVE  FilterInv(g, Append(ls, l)) /\ (f.ltx.max > 0 => Cardinality(Matches(Append(ls, l))) <= f.ltx.max)
<1> DEFINE ms == Append(ls, l)
           c == f.ltx
<1>0. /\ Append(ls, l) \in Seq(Line) /\ Len(ls) \in Nat
      /\ DOMAIN ls = 1 .. Len(ls) /\ DOMAIN Append(ls, l) = 1 .. Len(ls) + 1
      /\ Len(Append(ls, l)) = Len(ls) + 1
      /\ \A i \in 1 .. Len(ls) : Append(ls, l)[i] = ls[i]
      /\ Append(ls, l)[Len(ls) + 1] = l
  BY OneMore
<1>1. /\ c \in Contexts /\ c.before \in Nat /\ c.after \in Nat /\ c.max \in Nat /\ f.maxCount \in Nat
  BY FilterType
<1>2. PICK m \in Nat, before \in Nat, after \in Nat :
          m = Len(ls) /\ before = c.before /\ after = c.after
  BY <1>0, <1>1
<1>3. /\ Matches(ls) \subseteq 1 .. m /\ Cardinality(Matches(ls)) \in Nat
      /\ Matches(ms) = Matches(ls) \union {m + 1}
      /\ Cardinality(Matches(ms)) = Cardinality(Matches(ls)) + 1
  BY <1>2, MatchesMore
<1>4. /\ Near(c, ls) \subseteq 1 .. m
      /\ \A i \in 1 .. m : i \in Near(c, ms) <=> i \in Near(c, ls) \/ i >= m + 1 - before
      /\ m + 1 \in Near(c, ms)
  BY <1>1, <1>2, NearMore
<1>5. Len(ms) = m + 1 /\ Len(g.beforeBuf) = 0
  BY <1>0, <1>2
<1>6. AfterInv(g, ms)
  <2>1. ASSUME NEW j \in Matches(ms) PROVE j + after <= (m + 1) + after
    <3>1. j \in Int /\ j <= m + 1
      BY <1>3
    <3> QED BY <3>1
  <2>2. m + 1 \in Matches(ms)
    BY <1>3
  <2> HIDE DEF ms
  <2> QED BY <1>2, <1>5, <2>1, <2>2 DEF AfterInv
<1>7. BeforeInv(g, ms)
  <2>1. ASSUME NEW i \in 1 .. (m + 1) - 0, i >= (m + 1) + 1 - before PROVE i \in Near(c, ms)
    <3>1. i = m + 1 \/ (i \in 1 .. m /\ i >= m + 1 - before)
      BY <2>1
    <3> QED BY <1>4, <3>1
  <2>2. 0 <= m + 1 /\ 0 <= before /\ 1 .. 0 = {}
    OBVIOUS
  <2> HIDE DEF ms
  <2> QED BY <1>2, <1>5, <2>1, <2>2 DEF BeforeInv
<1>8. ASSUME c.max > 0
      PROVE /\ g.maxCount = Cardinality(Matches(ms)) /\ g.maxCount <= c.max
            /\ g.maxReached <=> g.maxCount = c.max
  <2>1. f.maxCount = Cardinality(Matches(ls)) /\ f.maxCount <= c.max /\ f.maxCount # c.max
    BY <1>8 DEF FilterInv, MaxInv
  <2>2. PICK k \in Nat, x \in Nat : k = f.maxCount /\ x = c.max
    BY <1>1
  <2>3. k + 1 <= x
    BY <2>1, <2>2
  <2>4. g.maxCount = k + 1 /\ (k + 1 >= x <=> k + 1 = x)
    BY <1>8, <2>2, <2>3
  <2>5. g.maxReached <=> g.maxCount >= c.max
    BY <1>8, Zenon
  <2> HIDE DEF ms
  <2> QED BY <1>3, <2>1, <2>2, <2>3, <2>4, <2>5
<1>9. MaxInv(g, ms)
  <2>1. g.maxReached => c.max > 0
    BY Zenon
  <2> HIDE DEF ms
  <2> QED BY <1>8, <2>1, Zenon DEF MaxInv
<1> QED BY <1>6, <1>7, <1>8, <1>9 DEF FilterInv

LEMMA SameFilter ==
    ASSUME NEW f \in Filter, NEW g \in Filter, f.ltx = g.ltx, f.beforeBuf = g.beforeBuf,
           f.afterCount = g.afterCount, f.maxCount = g.maxCount, f.maxReached = g.maxReached
    PROVE  f = g
  BY DEF Filter

\* The filter takes a line: what it has passed on is what grep would show of all
\* lines, and unless it ends the read it is ready for the next line.
LEMMA FilterStep ==
    ASSUME NEW f \in Filter, NEW ls \in Seq(Line), NEW l \in Line, FilterInv(f, ls),
           NEW n \in Nat, Numbered(ls, n), l.num = n + 1,
           NEW q, SentExactly(q, ls, Shown(f.ltx, Texts(ls))),
           NEW o, o = ProcessFiltered(f, l.text, l.num)
    PROVE  /\ SentExactly(q \o o.sent, Append(ls, l), Shown(f.ltx, Texts(Append(ls, l))))
           /\ ~o.stop => o.fp.ltx = f.ltx /\ FilterInv(o.fp, Append(ls, l))
<1> DEFINE ms == Append(ls, l)
           c == f.ltx
           this == [num |-> l.num, text |-> l.text]
           Goal == /\ SentExactly(q \o o.sent, ms, Shown(c, Texts(ms)))
                   /\ ~o.stop => o.fp.ltx = c /\ FilterInv(o.fp, ms)
<1> SUFFICES Goal
  OBVIOUS
<1>1. /\ c \in Contexts /\ c.before \in Nat /\ c.after \in Nat /\ c.max \in Nat
      /\ f.beforeBuf \in Seq(Seq(Bytes)) /\ Len(f.beforeBuf) \in Nat
      /\ f.afterCount \in Nat /\ f.maxCount \in Nat /\ f.maxReached \in BOOLEAN
  BY FilterType
<1>2. l.text \in Seq(Bytes) /\ l.num \in Int /\ ms \in Seq(Line)
  BY OneMore DEF Line
<1>3. /\ c.max > 0 => Cardinality(Matches(ls)) = f.maxCount /\ f.maxCount <= c.max
      /\ f.maxReached => c.max > 0 /\ f.maxCount = c.max
  BY DEF FilterInv, MaxInv
<1>4. Shown(c, Texts(ls)) = Near(c, ls) /\ Near(c, ls) \in SUBSET (1 .. Len(ls))
  <2>1. c.max > 0 => Cardinality(Matches(ls)) <= c.max
    BY <1>3
  <2>2. Near(c, ls) \in SUBSET (1 .. Len(ls))
    BY <1>1, NearMore
  <2> QED BY <1>1, <2>1, <2>2, ShownNear
<1>5. SentExactly(q, ls, Near(c, ls)) /\ q \in Seq(SentLine)
  BY <1>4 DEF SentExactly
<1>6. q \o << >> = q
  BY <1>5, ConcatEmptySeq
\* A line that does not match.
<1>7. CASE ~Match(l.text)
  <2>1. Shown(c, Texts(ms)) = Near(c, ms)
    <3>1. Matches(ms) = Matches(ls)
      BY <1>7, MatchesMore
    <3>2. c.max > 0 => Cardinality(Matches(ms)) <= c.max
      BY <1>3, <3>1
    <3> QED BY <1>1, <1>2, <3>2, ShownNear
  <2>2. CASE f.afterCount > 0
    <3>1. c.after > 0
      <4>1. PICK j \in Matches(ls) : j + c.after = Len(ls) + f.afterCount
        BY <2>2 DEF FilterInv, AfterInv
      <4>2. j \in 1 .. Len(ls) /\ Len(ls) \in Nat
        BY <4>1, MatchesMore
      <4> QED BY <1>1, <2>2, <4>1, <4>2
    <3>2. PICK g : g = [f EXCEPT !.afterCount = @ - 1]
      OBVIOUS
    <3>3. o = [fp |-> g, sent |-> <<this>>, stop |-> FALSE]
      BY <1>7, <2>2, <3>1, <3>2 DEF ProcessFiltered, ProcessUnmatched, Has, Outcome
    <3>4. /\ g.ltx = f.ltx /\ g.afterCount = f.afterCount - 1 /\ g.beforeBuf = f.beforeBuf
          /\ g.maxCount = f.maxCount /\ g.maxReached = f.maxReached
      BY <3>2 DEF Filter
    <3>5. g \in Filter
      <4>1. f.afterCount - 1 \in Nat
        BY <1>1, <2>2
      <4> QED BY <3>2, <4>1 DEF Filter
    <3>6. FilterInv(g, ms) /\ SentExactly(q \o <<this>>, ms, Near(c, ms))
      BY <1>5, <1>7, <2>2, <3>4, <3>5, FollowsMatch
    <3>7. o.fp = g /\ o.sent = <<this>> /\ o.stop = FALSE
      BY <3>3
    <3> QED BY <2>1, <3>4, <3>6, <3>7
  <2>3. CASE ~(f.afterCount > 0)
    <3>1. PICK room : room = IF Len(f.beforeBuf) >= c.before THEN Tail(f.beforeBuf) ELSE f.beforeBuf
      OBVIOUS
    <3>2. PICK g : g = IF c.before > 0 THEN [f EXCEPT !.beforeBuf = Append(room, l.text)] ELSE f
      OBVIOUS
    <3>3. o = [fp |-> g, sent |-> << >>, stop |-> FALSE]
      <4>1. CASE Has(c)
        BY <1>7, <2>3, <3>1, <3>2, <4>1 DEF ProcessFiltered, ProcessUnmatched, Outcome
      <4>2. CASE ~Has(c)
        <5>1. g = f
          BY <3>2, <4>2 DEF Has
        <5> QED BY <1>7, <4>2, <5>1 DEF ProcessFiltered, Outcome
      <4> QED BY <4>1, <4>2
    <3>4. c.before > 0 => room \in Seq(Seq(Bytes))
      <4>1. CASE Len(f.beforeBuf) >= c.before /\ c.before > 0
        <5>1. f.beforeBuf # << >>
          BY <1>1, <4>1
        <5> QED BY <1>1, <3>1, <4>1, <5>1
      <4>2. CASE ~(Len(f.beforeBuf) >= c.before)
        BY <1>1, <3>1, <4>2
      <4> QED BY <4>1, <4>2
    <3>5. /\ g \in Filter /\ g.ltx = f.ltx /\ g.afterCount = f.afterCount /\ g.maxCount = f.maxCount
          /\ g.maxReached = f.maxReached
          /\ g.beforeBuf = IF c.before > 0 THEN Append(room, l.text) ELSE f.beforeBuf
      <4>1. CASE c.before > 0
        <5>1. Append(room, l.text) \in Seq(Seq(Bytes))
          BY <1>2, <3>4, <4>1
        <5>2. PICK s \in Seq(Seq(Bytes)) : s = Append(room, l.text)
          BY <5>1
        <5>3. g = [f EXCEPT !.beforeBuf = s]
          BY <3>2, <4>1, <5>2
        <5>4. /\ g \in Filter /\ g.ltx = f.ltx /\ g.afterCount = f.afterCount /\ g.maxCount = f.maxCount
              /\ g.maxReached = f.maxReached /\ g.beforeBuf = s
          BY <5>3 DEF Filter
        <5> QED BY <4>1, <5>2, <5>4
      <4>2. CASE ~(c.before > 0)
        BY <3>2, <4>2
      <4> QED BY <4>1, <4>2
    <3>6. f.afterCount = 0 /\ g.afterCount = 0
      BY <1>1, <2>3, <3>5
    <3>7. \/ f.ltx.before = 0 /\ g.beforeBuf = f.beforeBuf
          \/ f.ltx.before > 0 /\ g.beforeBuf = Append(IF Len(f.beforeBuf) >= f.ltx.before
                                                       THEN Tail(f.beforeBuf) ELSE f.beforeBuf, l.text)
      BY <1>1, <3>1, <3>5
    <3>8. FilterInv(g, ms) /\ SentExactly(q, ms, Near(c, ms))
      BY <1>5, <1>7, <3>5, <3>6, <3>7, AwaitsMatch
    <3>9. o.fp = g /\ o.sent = << >> /\ o.stop = FALSE
      BY <3>3
    <3> QED BY <1>6, <2>1, <3>5, <3>8, <3>9
  <2> QED BY <2>2, <2>3
\* A match beyond the last one that counts.
<1>8. CASE Match(l.text) /\ f.maxReached
  <2>1. o = [fp |-> f, sent |-> << >>, stop |-> TRUE]
    BY <1>8 DEF ProcessFiltered, ProcessMatched, Outcome
  <2>2. o.sent = << >> /\ o.stop = TRUE
    BY <2>1
  <2>3. Shown(c, Texts(ms)) = Near(c, ls)
    BY <1>1, <1>3, <1>8, ShownBeyond
  <2>4. SentExactly(q, ms, Near(c, ls))
    BY <1>4, <1>5, SentSame
  <2> QED BY <1>6, <2>2, <2>3, <2>4
\* A match that counts.
<1>9. CASE Match(l.text) /\ ~f.maxReached
  <2> DEFINE new == Append(BeforeContext(f, l.num), this)
             count == IF c.max > 0 THEN f.maxCount + 1 ELSE f.maxCount
             full == c.max > 0 /\ count >= c.max
  <2>1. count \in Nat /\ full \in BOOLEAN
    BY <1>1
  <2>2. PICK k \in Nat, x \in BOOLEAN : k = count /\ x = full
    BY <2>1
  <2>3. PICK g : g = [ltx |-> c, beforeBuf |-> << >>, afterCount |-> c.after, maxCount |-> k, maxReached |-> x]
    OBVIOUS
  <2>4. g \in Filter
    <3>1. << >> \in Seq(Seq(Bytes))
      OBVIOUS
    <3> QED BY <1>1, <2>2, <2>3, <3>1 DEF Filter
  <2>5. /\ g.ltx = c /\ g.beforeBuf = << >> /\ g.afterCount = c.after /\ g.maxCount = k /\ g.maxReached = x
    BY <2>3
  <2>6. g.maxCount = count /\ (g.maxReached <=> c.max > 0 /\ g.maxCount >= c.max)
    BY <2>2, <2>5
  <2>7. FilterInv(g, ms) /\ (c.max > 0 => Cardinality(Matches(ms)) <= c.max)
    BY <1>9, <2>4, <2>5, <2>6, MatchFilter
  <2>8. SentExactly(q \o new, ms, Shown(c, Texts(ms)))
    <3>1. Shown(c, Texts(ms)) = Near(c, ms)
      BY <1>1, <1>2, <2>7, ShownNear
    <3>2. SentExactly(q \o new, ms, Near(c, ms))
      BY <1>5, <1>9, MatchSent
    <3> QED BY <3>1, <3>2
  <2>9. o.sent = new /\ (~o.stop => o.fp = g)
    <3>1. o = ProcessMatched(f, l.text, l.num)
      BY <1>9 DEF ProcessFiltered
    <3>2. CASE full /\ c.after = 0
      <4>1. o.sent = new /\ o.stop = TRUE
        BY <1>9, <3>1, <3>2 DEF ProcessMatched, Outcome
      <4> QED BY <4>1
    <3>3. CASE ~(full /\ c.after = 0)
      <4> DEFINE matched == [f EXCEPT !.beforeBuf = << >>, !.maxCount = count]
                 next == [matched EXCEPT !.maxReached = @ \/ full, !.afterCount = c.after]
      <4>1. o.sent = new /\ o.fp = next
        BY <1>9, <3>1, <3>3 DEF ProcessMatched, Outcome
      <4>2. matched = [f EXCEPT !.beforeBuf = << >>, !.maxCount = k]
        <5> HIDE DEF count
        <5> QED BY <2>2, Zenon
      <4>3. (matched.maxReached \/ full) = x
        <5>1. matched.maxReached = FALSE
          BY <1>1, <1>9 DEF Filter
        <5> HIDE DEF matched, full
        <5> QED BY <2>2, <5>1
      <4>4. next = [matched EXCEPT !.maxReached = x, !.afterCount = c.after]
        <5> HIDE DEF matched, full
        <5> QED BY <4>3, Zenon
      <4>5. /\ next \in Filter /\ next.ltx = c /\ next.beforeBuf = << >> /\ next.afterCount = c.after
            /\ next.maxCount = k /\ next.maxReached = x
        <5>0. PICK a \in Nat : a = c.after
          BY <1>1
        <5>1. PICK u, v : u = matched /\ v = next
          OBVIOUS
        <5> HIDE DEF matched, next
        <5>2. u = [f EXCEPT !.beforeBuf = << >>, !.maxCount = k] /\ v = [u EXCEPT !.maxReached = x, !.afterCount = a]
          BY <4>2, <4>4, <5>0, <5>1, Zenon
        <5>3. u \in Filter /\ u.ltx = f.ltx /\ u.beforeBuf = << >> /\ u.maxCount = k
          <6>1. << >> \in Seq(Seq(Bytes))
            OBVIOUS
          <6> QED BY <5>2, <6>1 DEF Filter
        <5>4. /\ v \in Filter /\ v.ltx = u.ltx /\ v.beforeBuf = u.beforeBuf /\ v.afterCount = a
              /\ v.maxCount = u.maxCount /\ v.maxReached = x
          BY <5>2, <5>3 DEF Filter
        <5> QED BY <5>0, <5>1, <5>3, <5>4, Zenon
      <4>6. next = g
        <5> HIDE DEF next
        <5> QED BY <2>4, <2>5, <4>5, SameFilter
      <4> QED BY <4>1, <4>6
    <3> QED BY <3>2, <3>3
  <2> QED BY <2>5, <2>7, <2>8, <2>9
<1> QED BY <1>7, <1>8, <1>9

-----------------------------------------------------------------------------
(* The reader with its filter. *)

LEMMA SameContext ==
    ASSUME ContextInv, UNCHANGED <<ltx, fp, lineCount, lines, sent>>, Reading' => Reading
    PROVE  ContextInv'
  BY DEF ContextInv

LEMMA NewContext ==
    ASSUME ContextInv, ltx' = ltx, fp' = NewFilter(ltx), lines' = << >>, sent' = << >>
    PROVE  ContextInv'
<1>1. ltx \in Contexts /\ ltx.before \in Nat /\ ltx.max \in Nat /\ ltx.after \in Nat
  BY ContextType DEF ContextInv
<1>2. << >> \in Seq(Line) /\ << >> \in Seq(SentLine) /\ << >> \in Seq(Seq(Bytes)) /\ Len(<< >>) = 0
  OBVIOUS
<1>3. Numbered(<< >>, lineCount')
  BY DEF Numbered
<1>4. Matches(<< >>) = {} /\ Shown(ltx, Texts(<< >>)) = {}
  <2>1. Matches(<< >>) = {}
    BY DEF Matches
  <2>2. DOMAIN Texts(<< >>) = {}
    BY DEF Texts
  <2>3. Shown(ltx, Texts(<< >>)) = {}
    BY <2>2 DEF Shown
  <2> QED BY <2>1, <2>3
<1>5. SentExactly(<< >>, << >>, {})
  BY <1>2 DEF SentExactly
<1>6. PICK f : f = NewFilter(ltx)
  OBVIOUS
<1>7. /\ f \in Filter /\ f.ltx = ltx /\ f.beforeBuf = << >> /\ f.afterCount = 0 /\ f.maxCount = 0
      /\ f.maxReached = FALSE
  BY <1>1, <1>2, <1>6 DEF NewFilter, Filter
<1>8. AfterInv(f, << >>)
  BY <1>4, <1>7 DEF AfterInv
<1>9. BeforeInv(f, << >>)
  BY <1>1, <1>2, <1>7 DEF BeforeInv
<1>10. MaxInv(f, << >>)
  <2>1. Cardinality(Matches(<< >>)) = 0
    BY <1>4, FS_EmptySet
  <2>2. f.ltx.max > 0 => f.maxCount = 0 /\ f.maxCount <= f.ltx.max /\ f.maxCount # f.ltx.max
    BY <1>1, <1>7
  <2>3. ~f.maxReached
    BY <1>7
  <2> QED BY <2>1, <2>2, <2>3, Zenon DEF MaxInv
<1> QED BY <1>1, <1>3, <1>4, <1>5, <1>6, <1>7, <1>8, <1>9, <1>10 DEF ContextInv, FilterInv

LEMMA DeliverContext ==
    ASSUME TypeInv, TypeInv', ContextInv, Reading, ltx' = ltx, NEW line, NEW next, Deliver(line, next)
    PROVE  ContextInv'
<1>1. lines \in Seq(Line) /\ lines' \in Seq(Line) /\ lineCount \in Nat /\ Len(lines) \in Nat
  BY DEF TypeInv
<1> DEFINE l == [num |-> lineCount + 1, text |-> line,
                 start |-> Len(taken) - Len(partialLine) - Len(data), end |-> Len(taken) - Len(data')]
<1>2. PICK m : m = l
  OBVIOUS
<1>3. /\ lines' = Append(lines, m) /\ lineCount' = lineCount + 1 /\ m.num = lineCount + 1 /\ m.text = line
  BY <1>2 DEF Deliver
<1>4. m \in Line
  <2>1. Len(lines') = Len(lines) + 1 /\ lines'[Len(lines) + 1] = m
    BY <1>1, <1>3
  <2>2. Len(lines) + 1 \in DOMAIN lines'
    BY <1>1, <2>1
  <2> QED BY <1>1, <2>1, <2>2
<1>5. PICK o : o = ProcessFiltered(fp, m.text, m.num)
  OBVIOUS
<1>6. /\ sent' = sent \o o.sent /\ fp' = o.fp /\ (o.stop => ~Reading')
  <2>1. o = ProcessFiltered(fp, line, lineCount + 1)
    BY <1>3, <1>5
  <2>2. sent' = sent \o o.sent /\ fp' = o.fp
    BY <2>1 DEF Deliver
  <2>3. ASSUME o.stop PROVE ~Reading'
    <3>1. pc' \in {Returned}
      BY <2>1, <2>3 DEF Deliver
    <3> QED BY <3>1 DEF Returned, Reading
  <2> QED BY <2>2, <2>3
<1>7. /\ fp.ltx = ltx /\ fp \in Filter /\ FilterInv(fp, lines) /\ Numbered(lines, lineCount)
      /\ SentExactly(sent, lines, Shown(fp.ltx, Texts(lines))) /\ ltx \in Contexts
  BY DEF ContextInv, FilterInv
<1>8. /\ SentExactly(sent \o o.sent, Append(lines, m), Shown(fp.ltx, Texts(Append(lines, m))))
      /\ ~o.stop => o.fp.ltx = fp.ltx /\ FilterInv(o.fp, Append(lines, m))
  BY <1>1, <1>3, <1>4, <1>5, <1>7, FilterStep
<1>9. Numbered(lines', lineCount')
  <2>1. /\ DOMAIN lines = 1 .. Len(lines) /\ DOMAIN lines' = 1 .. Len(lines) + 1 /\ Len(lines') = Len(lines) + 1
        /\ \A i \in 1 .. Len(lines) : lines'[i] = lines[i]
        /\ lines'[Len(lines) + 1] = m
    BY <1>1, <1>3, <1>4
  <2>2. PICK n \in Nat, k \in Nat : n = lineCount /\ k = Len(lines)
    BY <1>1
  <2>3. ASSUME NEW i \in 1 .. k + 1 PROVE lines'[i].num = (n + 1) - (k + 1) + i
    <3>1. CASE i = k + 1
      <4>1. (n + 1) - (k + 1) + i = n + 1
        BY <3>1
      <4>2. lines'[i].num = n + 1
        BY <1>3, <2>1, <2>2, <3>1
      <4> QED BY <4>1, <4>2
    <3>2. CASE i \in 1 .. k
      <4>1. (n + 1) - (k + 1) + i = n - k + i
        BY <3>2
      <4>2. lines'[i].num = n - k + i
        BY <1>7, <2>1, <2>2, <3>2 DEF Numbered
      <4> QED BY <4>1, <4>2
    <3>3. i = k + 1 \/ i \in 1 .. k
      OBVIOUS
    <3> QED BY <3>1, <3>2, <3>3
  <2> QED BY <1>3, <2>1, <2>2, <2>3 DEF Numbered
<1> QED BY <1>3, <1>6, <1>7, <1>8, <1>9 DEF ContextInv

\* The filter's memory is enough: every line it passes on is in the context of a
\* match, and it forgets none that a later match might bring in.
THEOREM ContextInvariance == Spec => []ContextInv
<1>1. Init => ContextInv
  <2> SUFFICES ASSUME Init PROVE ContextInv
    OBVIOUS
  <2>1. ltx \in Contexts /\ lines = << >> /\ sent = << >> /\ ~Reading
    BY DEF Init, Reading
  <2>2. Shown(ltx, Texts(<< >>)) = {}
    <3>1. DOMAIN Texts(<< >>) = {}
      BY DEF Texts
    <3> QED BY <3>1 DEF Shown
  <2>3. Numbered(<< >>, lineCount) /\ SentExactly(<< >>, << >>, {})
    BY DEF Numbered, SentExactly
  <2> QED BY <2>1, <2>2, <2>3 DEF ContextInv
<1>2. IInv /\ IInv' /\ ContextInv /\ [Next]_vars => ContextInv'
  <2> SUFFICES ASSUME IInv, IInv', ContextInv, [Next]_vars PROVE ContextInv'
    OBVIOUS
  <2> USE DEF KeepEnv, WriterStep, fileVars, readVars, Goto
  <2>0. TypeInv /\ TypeInv'
    BY DEF IInv
  <2>1. CASE UNCHANGED <<ltx, fp, lineCount, lines, sent>> /\ (Reading' => Reading)
    BY <2>1, SameContext
  <2>2. CASE Write \/ Truncate \/ Rotate \/ ReplaceByLink \/ RestoreFile \/ Cancel \/ Tick
    BY <2>1, <2>2 DEF Write, Truncate, Rotate, ReplaceByLink, RestoreFile, Cancel, Tick, Reading
  <2>3. CASE UNCHANGED vars
    BY <2>1, <2>3 DEF vars, Reading
  <2>4. CASE RetryPauseEnds \/ ValidateEntry \/ OpenEntry
    BY <2>1, <2>4 DEF RetryPauseEnds, ValidateEntry, OpenEntry, Returned, Reading
  <2>5. CASE RevalidateEntry
    BY <2>5, NewContext DEF RevalidateEntry
  <2>6. CASE TailRead \/ CatRead
    BY <2>1, <2>6 DEF TailRead, CatRead, ReadBytes, Reading
  <2>7. CASE WarningCancelled \/ TailEOF \/ TailWait \/ TailSleepEnds \/ CatEOF \/ CatStops
    BY <2>1, <2>7 DEF WarningCancelled, TailEOF, TailWait, TailSleepEnds, CatEOF, CatStops, Reading
  <2>8. CASE SplitLine \/ KeepPartial \/ TailCheck \/ CatToken
    <3>1. Reading /\ ltx' = ltx /\ \E next : NoLine(next) \/ \E line : Deliver(line, next)
      BY <2>8 DEF SplitLine, KeepPartial, TailCheck, CatToken, Reading
    <3>2. PICK next : NoLine(next) \/ \E line : Deliver(line, next)
      BY <3>1
    <3>3. CASE NoLine(next)
      BY <2>1, <3>1, <3>3 DEF NoLine
    <3> QED BY <2>0, <3>1, <3>2, <3>3, DeliverContext
  <2> QED BY <2>2, <2>3, <2>4, <2>5, <2>6, <2>7, <2>8 DEF Next, Reader
<1> QED BY Invariance, <1>1, <1>2, PTL DEF Spec

\* What is passed on is exactly what grep's context selects, in order.
THEOREM ContextCorrect == Spec => []ContextExact
<1>1. ContextInv => ContextExact
  <2> SUFFICES ASSUME ContextInv PROVE ContextExact
    OBVIOUS
  <2>1. SentExactly(sent, lines, Shown(ltx, Texts(lines)))
    BY DEF ContextInv
  <2>2. PICK S : S = Shown(ltx, Texts(lines))
    OBVIOUS
  <2>3. {sent[k] : k \in DOMAIN sent} = {[num |-> lines[i].num, text |-> lines[i].text] : i \in S}
    BY <2>1, <2>2 DEF SentExactly, Numbers
  <2>4. \A k \in 2 .. Len(sent) : sent[k - 1].num < sent[k].num
    BY <2>1 DEF SentExactly
  <2> QED BY <2>2, <2>3, <2>4, Zenon DEF ContextExact, Texts
<1> QED BY ContextInvariance, <1>1, PTL

-----------------------------------------------------------------------------
(* The type invariant: TypeInv and the program counters.                     *)

Counters == {"open", "opening", "recheck", "read", "split", "eof", "sleep", "check", "retry", "done"}

CounterInv == pc \in Counters

\* Every variable keeps its type, and the reader is at one of its counters.
THEOREM TypeCorrect == Spec => []TypeOK
<1>1. Init => CounterInv
  BY DEF Init, Counters, CounterInv
<1>2. CounterInv /\ [Next]_vars => CounterInv'
  <2> SUFFICES ASSUME pc \in Counters, [Next]_vars PROVE pc' \in Counters
    BY DEF CounterInv
  <2>1. CASE Write \/ Truncate \/ Rotate \/ ReplaceByLink \/ RestoreFile \/ Cancel \/ Tick
    BY <2>1 DEF Write, Truncate, Rotate, ReplaceByLink, RestoreFile, Cancel, Tick, WriterStep
  <2>2. CASE RetryPauseEnds \/ ValidateEntry \/ OpenEntry \/ RevalidateEntry
    BY <2>2 DEF RetryPauseEnds, ValidateEntry, OpenEntry, RevalidateEntry, Goto, Returned, Counters
  <2>3. CASE TailRead \/ CatRead
    BY <2>3 DEF TailRead, CatRead, ReadBytes, Counters
  <2>4. ASSUME NEW l, NEW next \in Counters, Deliver(l, next) \/ NoLine(next)
        PROVE  pc' \in Counters
    BY <2>4 DEF Deliver, NoLine, Returned, Counters
  <2>5. CASE SplitLine \/ KeepPartial \/ TailCheck \/ CatToken
    <3>1. {AfterSplit, "check", "read", "done"} \subseteq Counters
      BY DEF AfterSplit, Counters
    <3> QED BY <2>4, <2>5, <3>1 DEF SplitLine, KeepPartial, TailCheck, CatToken
  <2>6. CASE WarningCancelled \/ TailEOF \/ TailWait \/ TailSleepEnds \/ CatEOF \/ CatStops
    BY <2>6 DEF WarningCancelled, TailEOF, TailWait, TailSleepEnds, CatEOF, CatStops, Goto, Returned, Counters
  <2>7. CASE UNCHANGED vars
    BY <2>7 DEF vars
  <2> QED BY <2>1, <2>2, <2>3, <2>5, <2>6, <2>7 DEF Next, Reader
<1>3. IInv /\ CounterInv => TypeOK
  BY DEF CounterInv, IInv, TypeInv, TypeOK, Counters
<1> QED BY Invariance, <1>1, <1>2, <1>3, PTL DEF Spec
=============================================================================
