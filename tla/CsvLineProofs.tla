--------------------------- MODULE CsvLineProofs ----------------------------
(***************************************************************************)
(* parse_csv_line stays inside its arrays on every line of every file; a   *)
(* row that write_csv_row wrote is read back as it was, and a header as    *)
(* long as no column name holds a quote; and of any line at all, the cells *)
(* are what stands between the commas behind an even number of quotes.     *)
(***************************************************************************)
EXTENDS CsvLine, SequenceLemmas, FiniteSetTheorems

(* The line is replaced by the part of it that fgets returns; what is in   *)
(* the cells is of the line only because nothing is in them until then.    *)
NothingYet == pc = "fetch" => cells = <<>> /\ text = <<>>

LEMMA TakeType ==
    ASSUME TypeOK, NothingYet, Reading, NEW n \in {1, 2}, NEW ch \in Characters, Take(ch, n)
    PROVE  TypeOK' /\ NothingYet'
<1>1. CASE Room
  <2>1. /\ text' = Append(text, ch) /\ i' = i + n
        /\ UNCHANGED <<source, line, pc, in_quotes, cells>>
    BY <1>1 DEF Take
  <2>2. Cell' = Cell
    BY <2>1 DEF Cell, Characters
  <2>3. text' \in Cell
    BY <1>1, <2>1, LineAssumption DEF TypeOK, Cell, Room
  <2> QED
    BY <2>1, <2>2, <2>3 DEF TypeOK, NothingYet, Reading
<1>2. CASE ~Room
  BY <1>2 DEF Take, Stop, TypeOK, NothingYet, Reading, Cell, Characters
<1> QED
  BY <1>1, <1>2

LEMMA CellEnds ==
    ASSUME TypeOK, Len(cells) < MaxColumns, cells' = Append(cells, text), text' = <<>>,
           line' = line, in_quotes' = in_quotes, i' \in Nat \ {0},
           pc' \in {"reading", "read"}
    PROVE  TypeOK' /\ NothingYet'
<1>1. Cell' = Cell
  BY DEF Cell, Characters
<1>2. <<>> \in Cell
  BY LineAssumption DEF Cell
<1>3. cells' \in Seq(Cell) /\ Len(cells') <= MaxColumns
  BY LineAssumption DEF TypeOK
<1> QED
  BY <1>1, <1>2, <1>3 DEF TypeOK, NothingYet

LEMMA TypeInductive ==
    /\ Init => TypeOK /\ NothingYet
    /\ TypeOK /\ NothingYet /\ [Next]_vars => TypeOK' /\ NothingYet'
<1>1. Init => TypeOK /\ NothingYet
  <2> SUFFICES ASSUME Init PROVE TypeOK /\ NothingYet
    OBVIOUS
  <2>1. pc = "fetch" /\ i = 1 /\ in_quotes = FALSE /\ cells = <<>> /\ text = <<>>
    BY DEF Init
  <2>2. <<>> \in Cell
    BY LineAssumption DEF Cell
  <2>3. cells \in Seq(Cell) /\ Len(cells) <= MaxColumns
    BY <2>1, LineAssumption
  <2>4. text \in Cell
    BY <2>1, <2>2
  <2>5. i \in Nat \ {0}
    BY <2>1
  <2>6. in_quotes \in BOOLEAN
    BY <2>1, Zenon
  <2>7. NothingYet
    BY <2>1 DEF NothingYet
  <2> QED
    BY <2>1, <2>3, <2>4, <2>5, <2>6, <2>7 DEF TypeOK
<1>2. ASSUME TypeOK, NothingYet, [Next]_vars
      PROVE  TypeOK' /\ NothingYet'
  <2>1. CASE FetchLine
    <3>1. CASE UNCHANGED line
      BY <1>2, <2>1, <3>1 DEF FetchLine, Stop, TypeOK, NothingYet, Cell, Characters
    <3>2. CASE ~UNCHANGED line
      <4>1. pc' = "reading" /\ UNCHANGED <<i, in_quotes, cells, text>>
        BY <2>1, <3>2 DEF FetchLine, Stop
      <4>2. cells = <<>> /\ text = <<>>
        BY <2>1, <1>2 DEF FetchLine, NothingYet
      <4> QED
        BY <1>2, <4>1, <4>2, LineAssumption DEF TypeOK, NothingYet, Cell
    <3> QED
      BY <3>1, <3>2
  <2>2. CASE NoMoreColumns
    BY <1>2, <2>2 DEF NoMoreColumns, Stop, TypeOK, NothingYet, Cell, Characters
  <2>3. CASE ReadEscapedQuote
    <3>1. Quote \in Characters
      BY DEF Characters
    <3> QED
      BY <1>2, <2>3, <3>1, TakeType DEF ReadEscapedQuote
  <2>4. CASE ReadQuote
    BY <1>2, <2>4 DEF ReadQuote, Reading, TypeOK, NothingYet, Cell, Characters
  <2>5. CASE ReadComma
    BY <1>2, <2>5, CellEnds DEF ReadComma, Reading, TypeOK
  <2>6. CASE ReadCharacter
    <3>1. i \in DOMAIN line
      BY <2>6 DEF ReadCharacter, Reading, AtEnd
    <3>2. line[i] \in Characters
      BY <3>1 DEF Characters
    <3> QED
      BY <1>2, <2>6, <3>2, TakeType DEF ReadCharacter
  <2>7. CASE EndOfLine
    <3>1. CASE Len(cells) >= MaxColumns
      BY <1>2, <2>7, <3>1 DEF EndOfLine, Stop, TypeOK, NothingYet, Cell, Characters
    <3>2. CASE ~(Len(cells) >= MaxColumns)
      <4>1. Len(cells) < MaxColumns
        BY <1>2, <3>2, LineAssumption DEF TypeOK
      <4> QED
        BY <1>2, <2>7, <3>2, <4>1, CellEnds DEF EndOfLine, TypeOK
    <3> QED
      BY <3>1, <3>2
  <2>8. CASE UNCHANGED vars
    BY <1>2, <2>8 DEF vars, TypeOK, NothingYet, Cell, Characters
  <2> QED
    BY <1>2, <2>1, <2>2, <2>3, <2>4, <2>5, <2>6, <2>7, <2>8 DEF Next
<1> QED
  BY <1>1, <1>2

(* On every line, of this program or of another, parse_csv_line writes     *)
(* inside its two arrays.                                                  *)
THEOREM TypeCorrect == Spec => []TypeOK
<1> QED
  BY TypeInductive, PTL DEF Spec

-----------------------------------------------------------------------------
(* How a line is laid out                                                  *)
-----------------------------------------------------------------------------
Inner == Piece \ LineEnds

LEMMA PiecesApart ==
    /\ Comma \in Inner /\ Quote \in Inner /\ Newline \in LineEnds /\ Return \in LineEnds
    /\ Comma # Quote /\ LineEnds \subseteq Piece
    /\ LineEnds = {Newline, Return}
BY LineAssumption DEF Inner, LineEnds, Comma, Quote, Newline, Return

(* The fields of a line, where each of them starts, and what is behind it. *)
Layout(fields, s, first) ==
    /\ first \in [1 .. Len(fields) + 1 -> Nat \ {0}] /\ first[1] = 1
    /\ first[Len(fields) + 1] = Len(s) + 1
    /\ \A k \in 1 .. Len(fields) :
         /\ first[k + 1] = first[k] + Len(fields[k]) + 1 /\ first[k + 1] <= Len(s) + 1
         /\ \A j \in 1 .. Len(fields[k]) : s[first[k] + j - 1] = fields[k][j]
         /\ s[first[k] + Len(fields[k])] = IF k = Len(fields) THEN Newline ELSE Comma

LineOf(s) ==
    /\ s \in Text /\ Len(s) \in Nat \ {0} /\ s[Len(s)] = Newline
    /\ \A k \in 1 .. Len(s) - 1 : s[k] \notin LineEnds

LEMMA JoinedLayout ==
    ASSUME NEW fields \in Seq(Seq(Inner)), fields # <<>>
    PROVE  LET s == Joined(fields) \o <<Newline>> IN
           LineOf(s) /\ \E first : Layout(fields, s, first)
<1> DEFINE N == Len(fields)
           q == [k \in DOMAIN fields |-> IF k = 1 THEN fields[k] ELSE <<Comma>> \o fields[k]]
           flat == FlattenSeq(q)
           s == flat \o <<Newline>>
<1>1. /\ N \in Nat \ {0} /\ DOMAIN fields = 1 .. N
      /\ \A k \in 1 .. N : fields[k] \in Seq(Inner) /\ Len(fields[k]) \in Nat
  BY LenProperties, ElementOfSeq, EmptySeq
<1>2. ASSUME NEW k \in 1 .. N, k # 1
      PROVE  /\ q[k] \in Seq(Inner) /\ Len(q[k]) = Len(fields[k]) + 1
             /\ q[k][1] = Comma
             /\ \A j \in 1 .. Len(fields[k]) : q[k][1 + j] = fields[k][j]
  <2>1. q[k] = <<Comma>> \o fields[k]
    BY <1>1, <1>2
  <2> DEFINE both == q[k]
             cell == fields[k]
  <2>2. both = <<Comma>> \o cell /\ Comma \in Inner /\ cell \in Seq(Inner)
    BY <1>1, <2>1, PiecesApart
  <2> HIDE DEF cell, both, q
  <2>3. /\ both \in Seq(Inner) /\ Len(both) = Len(cell) + 1 /\ both[1] = Comma
        /\ \A j \in 1 .. Len(cell) : both[1 + j] = cell[j]
    BY <2>2, Prepended
  <2> QED
    BY <2>3 DEF cell, both
<1>3. q \in Seq(Seq(Inner)) /\ Len(q) = N /\ DOMAIN q = 1 .. N /\ q # <<>> /\ q[1] = fields[1]
  <2>1. \A k \in 1 .. N : q[k] \in Seq(Inner)
    BY <1>1, <1>2
  <2>2. q \in [1 .. N -> Seq(Inner)]
    BY <1>1, <2>1
  <2>3. 1 \in 1 .. N /\ q[1] = fields[1]
    BY <1>1
  <2> HIDE DEF q
  <2> HIDE DEF N
  <2>4. q \in Seq(Seq(Inner)) /\ Len(q) = N
    BY <1>1, <2>2, FunctionIsSeq
  <2> QED
    BY <1>1, <2>2, <2>3, <2>4, EmptySeq
<1>4. Joined(fields) = flat
  BY DEF Joined
<1> HIDE DEF q
<1>5. flat = FlattenSeq(q)
  OBVIOUS
<1> HIDE DEF flat, N
<1>6. flat \in Seq(Inner) /\ \E off : Spread(q, flat, off)
  BY <1>3, <1>5, FlattenPlaces, Zenon
<1>7. PICK off \in [0 .. N -> Nat] :
        /\ off[0] = 0 /\ off[N] = Len(flat)
        /\ \A n \in 1 .. N : /\ off[n] = off[n - 1] + Len(q[n]) /\ off[n] <= Len(flat)
                             /\ \A j \in 1 .. Len(q[n]) : flat[off[n - 1] + j] = q[n][j]
  <2>1. Len(q) = N
    BY <1>3
  <2> QED
    BY <1>6, <2>1 DEF Spread
<1>8. /\ s \in Seq(Piece) /\ Len(s) = Len(flat) + 1 /\ Len(flat) \in Nat
      /\ \A k \in 1 .. Len(flat) : s[k] = flat[k]
      /\ s[Len(flat) + 1] = Newline
  <2>1. Newline \in Piece /\ s = flat \o <<Newline>>
    BY PiecesApart
  <2>2. flat \in Seq(Piece)
    <3>1. Inner \subseteq Piece
      BY DEF Inner
    <3> QED
      BY <1>6, <3>1, SeqMonotonic
  <2> HIDE DEF s
  <2> QED
    BY <2>1, <2>2, Ended
<1> HIDE DEF s
<1>9. LineOf(s)
  <2>1. \A k \in 1 .. Len(flat) : flat[k] \in Inner
    BY <1>6, ElementOfSeq
  <2>2. Len(s) - 1 = Len(flat) /\ Len(s) \in Nat \ {0}
    BY <1>8
  <2>3. \A k \in 1 .. Len(s) - 1 : s[k] \notin LineEnds
    BY <1>8, <2>1, <2>2 DEF Inner
  <2> QED
    BY <1>8, <2>2, <2>3 DEF LineOf, Text
<1> DEFINE first == [k \in 1 .. N + 1 |-> IF k = 1 THEN 1 ELSE off[k - 1] + 2]
<1>10. /\ first \in [1 .. N + 1 -> Nat \ {0}] /\ first[1] = 1
      /\ \A k \in 1 .. N : first[k + 1] = off[k] + 2
  <2>1. \A k \in 1 .. N + 1 : k - 1 \in 0 .. N
    BY <1>1
  <2>2. \A k \in 1 .. N + 1 : off[k - 1] + 2 \in Nat \ {0}
    <3>1. \A k \in 1 .. N + 1 : off[k - 1] \in Nat
      BY <1>7, <2>1, Zenon
    <3> QED
      BY <3>1
  <2>3. 1 \in 1 .. N + 1 /\ \A k \in 1 .. N : k + 1 \in 1 .. N + 1 /\ k + 1 # 1 /\ k + 1 - 1 = k
    BY <1>1
  <2> QED
    BY <2>2, <2>3
<1> HIDE DEF first
<1>11. ASSUME NEW k \in 1 .. N
       PROVE  /\ first[k + 1] = first[k] + Len(fields[k]) + 1 /\ first[k + 1] <= Len(s) + 1
              /\ \A j \in 1 .. Len(fields[k]) : s[first[k] + j - 1] = fields[k][j]
              /\ s[first[k] + Len(fields[k])] = IF k = N THEN Newline ELSE Comma
  <2> DEFINE len == Len(fields[k])
             here == off[k - 1]
             there == off[k]
             size == Len(flat)
  <2>1. /\ len \in Nat /\ here \in Nat /\ there \in Nat /\ size \in Nat /\ there <= size
        /\ Len(s) = size + 1 /\ first[k + 1] = there + 2
    <3>1. k - 1 \in 0 .. N /\ k \in 0 .. N
      BY <1>1
    <3> QED
      BY <1>1, <1>7, <1>8, <1>10, <3>1
  <2>2. /\ there = here + Len(q[k])
        /\ \A j \in 1 .. Len(q[k]) : flat[here + j] = q[k][j]
    BY <1>7
  <2>3. /\ first[k] \in Nat /\ Len(q[k]) \in Nat
        /\ k = 1 => first[k] = here + 1 /\ Len(q[k]) = len
        /\ k # 1 => first[k] = here + 2 /\ Len(q[k]) = len + 1
    <3>1. CASE k = 1
      BY <1>1, <1>3, <1>7, <1>10, <3>1
    <3>2. CASE k # 1
      <4>1. k - 1 \in 1 .. N /\ k - 1 + 1 = k
        BY <1>1, <3>2
      <4>2. first[k] = here + 2
        BY <1>10, <4>1
      <4>3. Len(q[k]) = len + 1
        BY <1>2, <3>2
      <4> HIDE DEF len, here
      <4> QED
        BY <2>1, <3>2, <4>2, <4>3
    <3> QED
      BY <3>1, <3>2
  <2> DEFINE start == first[k]
             width == Len(q[k])
  <2>4. /\ start \in Nat /\ width \in Nat /\ there = here + width
        /\ k = 1 => start = here + 1 /\ width = len
        /\ k # 1 => start = here + 2 /\ width = len + 1
    BY <2>2, <2>3
  <2>5. len \in Nat /\ here \in Nat /\ there \in Nat /\ size \in Nat /\ there <= size
    BY <2>1
  <2> HIDE DEF len, here, there, size, start, width
  <2>6. start + len = there + 1
    BY <2>4, <2>5
  <2>7. \A j \in 1 .. len : s[first[k] + j - 1] = fields[k][j]
    <3> TAKE j \in 1 .. len
    <3>1. CASE k = 1
      <4>1. q[k] = fields[k]
        BY <1>3, <3>1
      <4>2. start + j - 1 = here + j /\ here + j \in 1 .. size /\ j \in 1 .. width
        BY <2>4, <2>5, <3>1
      <4> QED
        BY <1>8, <2>2, <4>1, <4>2 DEF size, start, width
    <3>2. CASE k # 1
      <4>1. q[k][1 + j] = fields[k][j]
        BY <1>2, <3>2 DEF len
      <4>2. /\ start + j - 1 = here + (1 + j) /\ 1 + j \in 1 .. width
            /\ here + (1 + j) \in 1 .. size
        BY <2>4, <2>5, <3>2
      <4> QED
        BY <1>8, <2>2, <4>1, <4>2 DEF size, start, width
    <3> QED
      BY <3>1, <3>2
  <2>8. first[k + 1] = first[k] + len + 1
    BY <2>1, <2>6 DEF start
  <2>9. s[first[k] + len] = IF k = N THEN Newline ELSE Comma
    <3>2. CASE k = N
      BY <1>7, <1>8, <2>6, <3>2 DEF there, start
    <3>3. CASE k # N
      <4> DEFINE next == k + 1
      <4>1. next \in 1 .. N /\ next # 1 /\ next - 1 = k
        BY <1>1, <3>3
      <4> HIDE DEF next
      <4>2. q[next][1] = Comma /\ Len(q[next]) = Len(fields[next]) + 1
        BY <1>2, <4>1
      <4>3. 1 \in 1 .. Len(q[next]) /\ Len(q[next]) \in Nat \ {0}
        BY <1>1, <4>1, <4>2
      <4>4. flat[there + 1] = Comma
        <5>1. \A j \in 1 .. Len(q[next]) : flat[off[next - 1] + j] = q[next][j]
          BY <1>7, <4>1
        <5> QED
          BY <4>1, <4>2, <4>3, <5>1 DEF there
      <4>5. there + 1 \in 1 .. size
        <5>1. off[next] = there + Len(q[next]) /\ off[next] <= size
          BY <1>7, <4>1 DEF there, size
        <5> QED
          BY <2>1, <4>3, <5>1
      <4> QED
        BY <1>8, <2>6, <3>3, <4>4, <4>5 DEF size, start
    <3> QED
      BY <3>2, <3>3
  <2> QED
    BY <2>1, <2>7, <2>8, <2>9, <1>8, <1>10 DEF len, size
<1>12. first[N + 1] = Len(s) + 1
  <2>1. N \in 1 .. N
    BY <1>1
  <2>2. first[N + 1] = Len(flat) + 2
    BY <1>7, <1>10, <2>1, Zenon
  <2>3. Len(s) = Len(flat) + 1 /\ Len(flat) \in Nat
    BY <1>8
  <2> QED
    BY <2>2, <2>3
<1>13. Layout(fields, s, first)
  BY <1>10, <1>11, <1>12 DEF Layout, N
<1> QED
  BY <1>4, <1>9, <1>13 DEF s

(* The reading order of the characters of a cell: pos says where in the    *)
(* line each of them starts, p and e are where the cell begins and ends.   *)
PlainAt(s, t, p, e, pos) ==
    /\ pos[0] = p /\ pos[Len(t)] = e
    /\ \A m \in 1 .. Len(t) :
         pos[m] = pos[m - 1] + 1 /\ s[pos[m - 1]] = t[m] /\ t[m] \notin {Comma, Quote}
WrappedAt(s, t, p, e, pos) ==
    /\ s[p] = Quote /\ pos[0] = p + 1 /\ pos[Len(t)] + 1 = e /\ s[e - 1] = Quote
    /\ \A m \in 1 .. Len(t) :
         /\ t[m] = Quote => /\ pos[m] = pos[m - 1] + 2
                            /\ s[pos[m - 1]] = Quote /\ s[pos[m - 1] + 1] = Quote
         /\ t[m] # Quote => pos[m] = pos[m - 1] + 1 /\ s[pos[m - 1]] = t[m]
CellAt(s, t, p, e, pos) ==
    /\ pos \in [0 .. Len(t) -> Nat \ {0}] /\ \A m \in 0 .. Len(t) : pos[m] <= e
    /\ PlainAt(s, t, p, e, pos) \/ WrappedAt(s, t, p, e, pos)

RowAt(s, row, first, pos) ==
    /\ first \in [1 .. Len(row) + 1 -> Nat \ {0}] /\ first[1] = 1
    /\ first[Len(row) + 1] = Len(s) + 1
    /\ \A k \in 1 .. Len(row) :
         /\ first[k] < first[k + 1] /\ first[k + 1] <= Len(s) + 1
         /\ CellAt(s, row[k], first[k], first[k + 1] - 1, pos[k])
         /\ s[first[k + 1] - 1] = IF k = Len(row) THEN Newline ELSE Comma

(* The characters of a text in the text with its quotes doubled.           *)
DoublesTo(t, b, d) ==
    /\ d \in [0 .. Len(t) -> Nat] /\ d[0] = 0 /\ d[Len(t)] = Len(b)
    /\ \A m \in 1 .. Len(t) :
         /\ d[m] <= Len(b)
         /\ t[m] = Quote => /\ d[m] = d[m - 1] + 2
                            /\ b[d[m - 1] + 1] = Quote /\ b[d[m - 1] + 2] = Quote
         /\ t[m] # Quote => d[m] = d[m - 1] + 1 /\ b[d[m - 1] + 1] = t[m]

LEMMA DoubledSpread ==
    ASSUME NEW t \in Seq(Inner)
    PROVE  Doubled(t) \in Seq(Inner) /\ \E d : DoublesTo(t, Doubled(t), d)
<1> DEFINE q == [k \in DOMAIN t |-> IF t[k] = Quote THEN <<Quote, Quote>> ELSE <<t[k]>>]
           flat == Doubled(t)
           N == Len(t)
<1>1. N \in Nat /\ DOMAIN t = 1 .. N /\ \A k \in 1 .. N : t[k] \in Inner
  BY LenProperties, ElementOfSeq
<1>2. \A k \in 1 .. N : /\ t[k] = Quote => q[k] = <<Quote, Quote>>
                        /\ t[k] # Quote => q[k] = <<t[k]>>
  BY <1>1
<1>3. \A k \in 1 .. N : q[k] \in Seq(Inner)
  BY <1>1, <1>2, PiecesApart
<1>4. q \in [1 .. N -> Seq(Inner)]
  BY <1>1, <1>3
<1>5. flat = FlattenSeq(q)
  BY DEF Doubled
<1> HIDE DEF q, flat, N
<1>6. q \in Seq(Seq(Inner)) /\ Len(q) = N
  BY <1>1, <1>4, FunctionIsSeq
<1>7. CASE N = 0
  <2>1. q = <<>>
    BY <1>6, <1>7
  <2>2. flat = <<>>
    BY <1>5, <2>1 DEF FlattenSeq
  <2> DEFINE d == [m \in 0 .. N |-> 0]
  <2>3. DoublesTo(t, flat, d)
    <3>1. d \in [0 .. N -> Nat] /\ d[0] = 0 /\ d[N] = 0 /\ Len(flat) = 0 /\ 1 .. N = {}
      BY <1>7, <2>2
    <3> HIDE DEF d
    <3> QED
      BY <3>1 DEF DoublesTo, N
  <2> QED
    BY <2>2, <2>3 DEF flat
<1>8. CASE N # 0
  <2>1. q # <<>>
    BY <1>1, <1>6, <1>8
  <2>2. flat \in Seq(Inner) /\ \E off : Spread(q, flat, off)
    BY <1>5, <1>6, <2>1, FlattenPlaces, Zenon
  <2>3. PICK off : Spread(q, flat, off)
    BY <2>2
  <2>4. /\ off \in [0 .. N -> Nat] /\ off[0] = 0 /\ off[N] = Len(flat)
        /\ \A n \in 1 .. N : /\ off[n] = off[n - 1] + Len(q[n]) /\ off[n] <= Len(flat)
                             /\ \A j \in 1 .. Len(q[n]) : flat[off[n - 1] + j] = q[n][j]
    BY <1>6, <2>3 DEF Spread
  <2>5. ASSUME NEW m \in 1 .. N
        PROVE  /\ t[m] = Quote => /\ off[m] = off[m - 1] + 2
                                  /\ flat[off[m - 1] + 1] = Quote /\ flat[off[m - 1] + 2] = Quote
               /\ t[m] # Quote => off[m] = off[m - 1] + 1 /\ flat[off[m - 1] + 1] = t[m]
    <3>1. /\ off[m] = off[m - 1] + Len(q[m])
          /\ \A j \in 1 .. Len(q[m]) : flat[off[m - 1] + j] = q[m][j]
      BY <2>4
    <3>2. CASE t[m] = Quote
      <4>1. q[m] = <<Quote, Quote>>
        BY <1>2, <3>2
      <4>2. Len(q[m]) = 2 /\ q[m][1] = Quote /\ q[m][2] = Quote /\ 1 \in 1 .. 2 /\ 2 \in 1 .. 2
        BY <4>1
      <4> QED
        BY <3>1, <3>2, <4>2
    <3>3. CASE t[m] # Quote
      <4>1. q[m] = <<t[m]>>
        BY <1>2, <3>3
      <4>2. Len(q[m]) = 1 /\ q[m][1] = t[m] /\ 1 \in 1 .. 1
        BY <4>1
      <4> QED
        BY <3>1, <3>3, <4>2
    <3> QED
      BY <3>2, <3>3
  <2>6. DoublesTo(t, flat, off)
    BY <2>4, <2>5 DEF DoublesTo, N
  <2> QED
    BY <2>2, <2>6 DEF flat
<1> QED
  BY <1>7, <1>8

Spelled(s, p, w) == \A j \in 1 .. Len(w) : s[p + j - 1] = w[j]
InQuotes(t) == <<Quote>> \o Doubled(t) \o <<Quote>>

LEMMA PlainField ==
    ASSUME NEW t \in Seq(Inner), ~Has(t, {Comma, Quote}), NEW s, NEW p \in Nat \ {0},
           Spelled(s, p, t)
    PROVE  \E pos : CellAt(s, t, p, p + Len(t), pos) /\ PlainAt(s, t, p, p + Len(t), pos)
<1> DEFINE N == Len(t)
           pos == [m \in 0 .. N |-> p + m]
<1>1. N \in Nat /\ DOMAIN t = 1 .. N
  BY LenProperties
<1>2. pos \in [0 .. N -> Nat \ {0}] /\ \A m \in 0 .. N : pos[m] = p + m /\ pos[m] <= p + N
  BY <1>1
<1>3. pos[0] = p /\ pos[N] = p + N
  BY <1>1
<1>4. ASSUME NEW m \in 1 .. N
      PROVE  pos[m] = pos[m - 1] + 1 /\ s[pos[m - 1]] = t[m] /\ t[m] \notin {Comma, Quote}
  <2>1. m \in 0 .. N /\ m - 1 \in 0 .. N
    BY <1>1
  <2>2. pos[m] = p + m /\ pos[m - 1] = p + (m - 1)
    BY <1>2, <2>1
  <2>3. p + m = p + (m - 1) + 1 /\ p + (m - 1) = p + m - 1
    BY <1>1
  <2>4. t[m] \notin {Comma, Quote}
    BY <1>1 DEF Has
  <2> HIDE DEF pos
  <2>5. s[p + m - 1] = t[m]
    BY DEF Spelled, N
  <2> QED
    BY <2>2, <2>3, <2>4, <2>5
<1> HIDE DEF pos
<1>5. PlainAt(s, t, p, p + Len(t), pos)
  BY <1>3, <1>4 DEF PlainAt
<1>6. CellAt(s, t, p, p + Len(t), pos)
  BY <1>2, <1>5 DEF CellAt
<1> QED
  BY <1>5, <1>6

LEMMA WrappedField ==
    ASSUME NEW t \in Seq(Inner), NEW s, NEW p \in Nat \ {0}, Spelled(s, p, InQuotes(t))
    PROVE  /\ InQuotes(t) \in Seq(Inner)
           /\ \E pos : CellAt(s, t, p, p + Len(InQuotes(t)), pos)
<1> DEFINE w == InQuotes(t)
           b == Doubled(t)
           o == <<Quote>> \o b
           N == Len(t)
           size == Len(b)
<1>1. N \in Nat
  BY LenProperties
<1>2. b \in Seq(Inner) /\ \E d : DoublesTo(t, b, d)
  BY DoubledSpread
<1>3. PICK d : DoublesTo(t, b, d)
  BY <1>2
<1>4. /\ o \in Seq(Inner) /\ Len(o) = size + 1 /\ size \in Nat /\ o[1] = Quote
      /\ \A k \in 1 .. size : o[1 + k] = b[k]
  <2>1. Quote \in Inner /\ o = <<Quote>> \o b
    BY PiecesApart
  <2> HIDE DEF o, b
  <2> QED
    BY <1>2, <2>1, Prepended DEF size
<1>5. /\ w \in Seq(Inner) /\ Len(w) = Len(o) + 1 /\ w[Len(o) + 1] = Quote
      /\ \A k \in 1 .. Len(o) : w[k] = o[k]
  <2>1. Quote \in Inner /\ w = o \o <<Quote>>
    BY PiecesApart DEF InQuotes
  <2> HIDE DEF o, b, w
  <2> QED
    BY <1>4, <2>1, Ended
<1> HIDE DEF o, b, w, size, N
<1>6. /\ Len(w) = size + 2 /\ w[1] = Quote /\ w[size + 2] = Quote
      /\ \A k \in 1 .. size : w[k + 1] = b[k]
  <2>1. Len(o) + 1 = size + 2 /\ 1 \in 1 .. Len(o) /\ \A k \in 1 .. size : 1 + k \in 1 .. Len(o) /\ 1 + k = k + 1
    BY <1>4
  <2> QED
    BY <1>4, <1>5, <2>1
<1>7. s[p] = Quote /\ s[p + size + 1] = Quote /\ \A k \in 1 .. size : s[p + k] = b[k]
  <2>1. /\ 1 \in 1 .. Len(w) /\ p + 1 - 1 = p
        /\ size + 2 \in 1 .. Len(w) /\ p + (size + 2) - 1 = p + size + 1
        /\ \A k \in 1 .. size : k + 1 \in 1 .. Len(w) /\ p + (k + 1) - 1 = p + k
    BY <1>4, <1>6
  <2>2. \A k \in 1 .. Len(w) : s[p + k - 1] = w[k]
    BY DEF Spelled, w
  <2>3. /\ s[p + 1 - 1] = w[1] /\ s[p + (size + 2) - 1] = w[size + 2]
        /\ \A k \in 1 .. size : s[p + (k + 1) - 1] = w[k + 1]
    BY <2>1, <2>2
  <2> QED
    BY <1>6, <2>1, <2>3
<1>8. /\ d \in [0 .. N -> Nat] /\ d[0] = 0 /\ d[N] = size
      /\ \A m \in 1 .. N : d[m] <= size
      /\ \A m \in 1 .. N : t[m] = Quote => /\ d[m] = d[m - 1] + 2
                                           /\ b[d[m - 1] + 1] = Quote /\ b[d[m - 1] + 2] = Quote
      /\ \A m \in 1 .. N : t[m] # Quote => d[m] = d[m - 1] + 1 /\ b[d[m - 1] + 1] = t[m]
  BY <1>3 DEF DoublesTo, N, size
<1> DEFINE pos == [m \in 0 .. N |-> p + 1 + d[m]]
           e == p + Len(w)
<1>9. e = p + size + 2 /\ e - 1 = p + size + 1 /\ e \in Nat
  <2>1. size \in Nat /\ e = p + (size + 2)
    BY <1>4, <1>6
  <2> HIDE DEF e
  <2> QED
    BY <2>1
<1>10. pos \in [0 .. N -> Nat \ {0}] /\ pos[0] = p + 1 /\ pos[N] + 1 = e
  <2>1. \A m \in 0 .. N : p + 1 + d[m] \in Nat \ {0}
    <3>1. \A m \in 0 .. N : d[m] \in Nat
      BY <1>8, Zenon
    <3> QED
      BY <3>1
  <2>2. 0 \in 0 .. N /\ N \in 0 .. N
    BY <1>1
  <2>3. pos[0] = p + 1 + 0 /\ pos[N] = p + 1 + size
    BY <1>8, <2>2
  <2>4. pos \in [0 .. N -> Nat \ {0}]
    BY <2>1
  <2> HIDE DEF e, pos
  <2>5. p + 1 + 0 = p + 1 /\ p + 1 + size + 1 = e
    BY <1>4, <1>9
  <2> QED
    BY <2>3, <2>4, <2>5
<1>11. \A m \in 0 .. N : pos[m] <= e
  <2> TAKE m \in 0 .. N
  <2>1. d[m] <= size /\ d[m] \in Nat
    <3>1. d[m] \in Nat
      BY <1>8, Zenon
    <3>2. CASE m = 0
      BY <1>4, <1>8, <3>2
    <3>3. CASE m # 0
      <4>1. m \in 1 .. N
        BY <1>1, <3>3
      <4> QED
        BY <1>8, <3>1, <4>1, Zenon
    <3> QED
      BY <3>2, <3>3
  <2>2. pos[m] = p + 1 + d[m]
    OBVIOUS
  <2> HIDE DEF pos, e
  <2> QED
    BY <1>4, <1>9, <2>1, <2>2
<1>12. ASSUME NEW m \in 1 .. N
       PROVE  /\ t[m] = Quote => /\ pos[m] = pos[m - 1] + 2
                                 /\ s[pos[m - 1]] = Quote /\ s[pos[m - 1] + 1] = Quote
              /\ t[m] # Quote => pos[m] = pos[m - 1] + 1 /\ s[pos[m - 1]] = t[m]
  <2> DEFINE x == d[m - 1]
             y == d[m]
  <2>1. m - 1 \in 0 .. N /\ m \in 0 .. N
    BY <1>1
  <2>2. x \in Nat /\ y \in Nat /\ y <= size /\ pos[m - 1] = p + 1 + x /\ pos[m] = p + 1 + y
    BY <1>8, <2>1
  <2>3. /\ t[m] = Quote => y = x + 2 /\ b[x + 1] = Quote /\ b[x + 2] = Quote
        /\ t[m] # Quote => y = x + 1 /\ b[x + 1] = t[m]
    BY <1>8
  <2> HIDE DEF x, y, pos, e
  <2>4. CASE t[m] = Quote
    <3>1. /\ x + 1 \in 1 .. size /\ x + 2 \in 1 .. size /\ p + 1 + y = p + 1 + x + 2
          /\ p + (x + 1) = p + 1 + x /\ p + (x + 2) = p + 1 + x + 1
      BY <1>4, <2>2, <2>3, <2>4
    <3>2. s[p + (x + 1)] = b[x + 1] /\ s[p + (x + 2)] = b[x + 2]
      BY <1>7, <3>1
    <3> QED
      BY <2>2, <2>3, <2>4, <3>1, <3>2
  <2>5. CASE t[m] # Quote
    <3>1. x + 1 \in 1 .. size /\ p + 1 + y = p + 1 + x + 1 /\ p + (x + 1) = p + 1 + x
      BY <1>4, <2>2, <2>3, <2>5
    <3>2. s[p + (x + 1)] = b[x + 1]
      BY <1>7, <3>1
    <3> QED
      BY <2>2, <2>3, <2>5, <3>1, <3>2
  <2> QED
    BY <2>4, <2>5
<1> HIDE DEF pos
<1>13. s[e - 1] = Quote
  BY <1>7, <1>9
<1> HIDE DEF e
<1>14. WrappedAt(s, t, p, e, pos)
  BY <1>7, <1>10, <1>12, <1>13 DEF WrappedAt, N
<1>15. CellAt(s, t, p, e, pos)
  BY <1>10, <1>11, <1>14 DEF CellAt, N
<1> QED
  BY <1>5, <1>15 DEF e, w

LEMMA FieldAt ==
    ASSUME NEW t \in Seq(Inner)
    PROVE  /\ WriteField(t) \in Seq(Inner)
           /\ \A s : \A p \in Nat \ {0} : Spelled(s, p, WriteField(t)) =>
                \E pos : CellAt(s, t, p, p + Len(WriteField(t)), pos)
<1>1. DOMAIN t = 1 .. Len(t) /\ \A k \in DOMAIN t : t[k] \in Inner
  BY LenProperties, ElementOfSeq
<1>2. Has(t, {Comma, Quote, Newline}) <=> Has(t, {Comma, Quote})
  BY <1>1, PiecesApart DEF Has, Inner
<1>3. CASE Has(t, {Comma, Quote})
  <2>1. WriteField(t) = InQuotes(t)
    BY <1>2, <1>3 DEF WriteField, InQuotes
  <2>2. InQuotes(t) \in Seq(Inner)
    BY DoubledSpread, PiecesApart DEF InQuotes
  <2> QED
    BY <2>1, <2>2, WrappedField
<1>4. CASE ~Has(t, {Comma, Quote})
  <2>1. WriteField(t) = t
    BY <1>2, <1>4 DEF WriteField
  <2> QED
    BY <1>4, <2>1, PlainField
<1> QED
  BY <1>3, <1>4

LEMMA RowLaidOut ==
    ASSUME NEW row \in Seq(Seq(Inner)), row # <<>>
    PROVE  LineOf(WriteRow(row)) /\ \E first, pos : RowAt(WriteRow(row), row, first, pos)
<1> DEFINE N == Len(row)
           fields == [k \in DOMAIN row |-> WriteField(row[k])]
           s == WriteRow(row)
<1>1. N \in Nat \ {0} /\ DOMAIN row = 1 .. N /\ \A k \in 1 .. N : row[k] \in Seq(Inner)
  BY LenProperties, ElementOfSeq, EmptySeq
<1>2. \A k \in 1 .. N : fields[k] = WriteField(row[k]) /\ fields[k] \in Seq(Inner)
  BY <1>1, FieldAt
<1>3. fields \in [1 .. N -> Seq(Inner)]
  BY <1>1, <1>2
<1>4. s = Joined(fields) \o <<Newline>>
  BY DEF WriteRow
<1> HIDE DEF fields, s, N
<1>5. fields \in Seq(Seq(Inner)) /\ Len(fields) = N
  BY <1>1, <1>3, FunctionIsSeq
<1>6. fields # <<>>
  BY <1>1, <1>5
<1>7. LineOf(s) /\ \E first : Layout(fields, s, first)
  BY <1>4, <1>5, <1>6, JoinedLayout
<1>8. PICK first : Layout(fields, s, first)
  BY <1>7
<1>9. /\ first \in [1 .. N + 1 -> Nat \ {0}] /\ first[1] = 1 /\ first[N + 1] = Len(s) + 1
      /\ \A k \in 1 .. N :
           /\ first[k + 1] = first[k] + Len(fields[k]) + 1 /\ first[k + 1] <= Len(s) + 1
           /\ \A j \in 1 .. Len(fields[k]) : s[first[k] + j - 1] = fields[k][j]
           /\ s[first[k] + Len(fields[k])] = IF k = N THEN Newline ELSE Comma
  BY <1>5, <1>8 DEF Layout
<1>10. ASSUME NEW k \in 1 .. N
       PROVE  /\ first[k] < first[k + 1] /\ first[k + 1] <= Len(s) + 1
              /\ s[first[k + 1] - 1] = IF k = N THEN Newline ELSE Comma
              /\ \E pos : CellAt(s, row[k], first[k], first[k + 1] - 1, pos)
  <2> DEFINE p == first[k]
             e == first[k + 1]
             len == Len(fields[k])
  <2>1. p \in Nat \ {0} /\ e \in Nat /\ len \in Nat /\ e = p + len + 1
    <3>1. k \in 1 .. N + 1 /\ k + 1 \in 1 .. N + 1
      BY <1>1
    <3>2. len \in Nat
      BY <1>2, LenProperties
    <3> QED
      BY <1>9, <3>1, <3>2
  <2>2. Spelled(s, p, WriteField(row[k]))
    BY <1>2, <1>9 DEF Spelled
  <2>3. \E pos : CellAt(s, row[k], p, p + len, pos)
    <3>1. len = Len(WriteField(row[k]))
      BY <1>2
    <3>2. row[k] \in Seq(Inner) /\ p \in Nat \ {0}
      BY <1>1, <2>1
    <3> HIDE DEF p, len
    <3> QED
      BY <2>2, <3>1, <3>2, FieldAt
  <2>4. e <= Len(s) + 1 /\ s[p + len] = IF k = N THEN Newline ELSE Comma
    BY <1>9
  <2> HIDE DEF p, e, len
  <2>5. p + len = e - 1 /\ p < e
    BY <2>1
  <2>6. \E pos : CellAt(s, row[k], p, e - 1, pos)
    BY <2>3, <2>5
  <2>7. s[e - 1] = IF k = N THEN Newline ELSE Comma
    BY <2>4, <2>5
  <2> QED
    BY <2>4, <2>5, <2>6, <2>7 DEF p, e
<1> DEFINE pos == [k \in 1 .. N |-> CHOOSE o : CellAt(s, row[k], first[k], first[k + 1] - 1, o)]
<1>11. \A k \in 1 .. N : CellAt(s, row[k], first[k], first[k + 1] - 1, pos[k])
  <2> TAKE k \in 1 .. N
  <2>1. pos[k] = CHOOSE o : CellAt(s, row[k], first[k], first[k + 1] - 1, o)
    OBVIOUS
  <2> HIDE DEF pos
  <2> QED
    BY <1>10, <2>1, Zenon
<1> HIDE DEF pos
<1>12. RowAt(s, row, first, pos)
  BY <1>9, <1>10, <1>11 DEF RowAt, N
<1> QED
  BY <1>7, <1>12 DEF s

-----------------------------------------------------------------------------
(* Reading a cell                                                          *)
-----------------------------------------------------------------------------
(* How far parse_csv_line is in the cell that holds the text t.            *)
InCell(s, t, p, e, pos) ==
    /\ Len(text) <= Len(t) /\ \A j \in 1 .. Len(text) : text[j] = t[j]
    /\ \/ PlainAt(s, t, p, e, pos) /\ i = pos[Len(text)] /\ ~in_quotes
       \/ /\ WrappedAt(s, t, p, e, pos)
          /\ \/ i = p /\ Len(text) = 0 /\ ~in_quotes
             \/ i = pos[Len(text)] /\ in_quotes
             \/ i = e /\ Len(text) = Len(t) /\ ~in_quotes

AtCell(s, t, e) ==
    /\ TypeOK /\ line = s /\ LineOf(s) /\ t \in Seq(Inner) /\ Len(t) < MaxValueLen
    /\ e \in 1 .. Len(s) /\ s[e] \in {Comma, Newline}

(* What is ahead: the end of the cell; a character of it; the quote that   *)
(* opens it; a quote of it; the quote that closes it.                      *)
Ending(s, t, e) == i = e /\ text = t /\ ~in_quotes
Character(s, t, e, pos) ==
    /\ Len(text) < Len(t) /\ s[i] = t[Len(text) + 1] /\ s[i] \in Inner /\ s[i] # Quote
    /\ s[i] = Comma => in_quotes
    /\ i < e /\ i + 1 = pos[Len(text) + 1]
Opening(s, t, p, e, pos) ==
    s[i] = Quote /\ ~in_quotes /\ Len(text) = 0 /\ i < e /\ i + 1 = pos[0]
Escaped(s, t, e, pos) ==
    /\ Len(text) < Len(t) /\ t[Len(text) + 1] = Quote /\ in_quotes
    /\ s[i] = Quote /\ s[i + 1] = Quote /\ i + 1 < e /\ i + 2 = pos[Len(text) + 1]
Closing(s, t, e) == s[i] = Quote /\ in_quotes /\ Len(text) = Len(t) /\ i + 1 = e

LEMMA WhatIsAhead ==
    ASSUME NEW s, NEW t, NEW p, NEW e, NEW pos, AtCell(s, t, e), CellAt(s, t, p, e, pos),
           InCell(s, t, p, e, pos)
    PROVE  \/ Ending(s, t, e)
           \/ /\ PlainAt(s, t, p, e, pos) /\ ~in_quotes
              /\ Character(s, t, e, pos)
           \/ /\ WrappedAt(s, t, p, e, pos)
              /\ \/ in_quotes /\ Character(s, t, e, pos)
                 \/ Opening(s, t, p, e, pos)
                 \/ Escaped(s, t, e, pos)
                 \/ Closing(s, t, e)
<1> DEFINE m == Len(text)
           N == Len(t)
<1>1. /\ m \in Nat /\ N \in Nat /\ e \in Nat /\ i \in Nat /\ m <= N /\ t \in Seq(Inner)
      /\ text \in Seq(Characters)
  BY LenProperties DEF AtCell, TypeOK, Cell, InCell
<1>2. /\ \A k \in 0 .. N : pos[k] \in Nat \ {0} /\ pos[k] <= e
      /\ \A k \in 1 .. N : t[k] \in Inner
  BY <1>1, ElementOfSeq DEF CellAt
<1>3. ASSUME m = N PROVE text = t
  <2>1. text \in Seq(Characters \cup Inner) /\ t \in Seq(Characters \cup Inner)
    BY <1>1, SeqMonotonic
  <2>2. Len(text) = Len(t) /\ \A k \in 1 .. Len(text) : text[k] = t[k]
    BY <1>3 DEF InCell
  <2> QED
    BY <2>1, <2>2, SeqEqual
<1> DEFINE n == m + 1
<1>4. m < N => /\ n \in 1 .. N /\ n - 1 = m /\ m \in 0 .. N /\ n \in 0 .. N
               /\ pos[n] \in Nat /\ pos[n] <= e /\ pos[m] \in Nat /\ t[n] \in Inner
  <2> SUFFICES ASSUME m < N PROVE n \in 1 .. N /\ n - 1 = m /\ m \in 0 .. N /\ n \in 0 .. N
    BY <1>2
  <2> QED
    BY <1>1
<1>5. m = N \/ m < N
  BY <1>1
<1>6. CASE PlainAt(s, t, p, e, pos) /\ i = pos[m] /\ ~in_quotes
  <2>1. CASE m = N
    <3>1. i = e
      BY <1>6, <2>1 DEF PlainAt
    <3> QED
      BY <1>3, <1>6, <2>1, <3>1 DEF Ending
  <2>2. CASE m < N
    <3>1. pos[n] = pos[m] + 1 /\ s[pos[m]] = t[n] /\ t[n] \notin {Comma, Quote}
      BY <1>4, <1>6, <2>2 DEF PlainAt
    <3>2. i < e /\ i + 1 = pos[n]
      BY <1>1, <1>4, <1>6, <2>2, <3>1
    <3>3. s[i] = t[n] /\ s[i] \in Inner /\ s[i] # Quote /\ s[i] # Comma
      BY <1>4, <1>6, <2>2, <3>1
    <3>4. Character(s, t, e, pos)
      BY <2>2, <3>2, <3>3 DEF Character
    <3> QED
      BY <1>6, <3>4
  <2> QED
    BY <1>5, <2>1, <2>2
<1>7. CASE WrappedAt(s, t, p, e, pos)
  <2>1. \/ i = p /\ m = 0 /\ ~in_quotes
        \/ i = pos[m] /\ in_quotes
        \/ i = e /\ m = N /\ ~in_quotes
        \/ PlainAt(s, t, p, e, pos) /\ i = pos[m] /\ ~in_quotes
    BY DEF InCell
  <2>2. CASE i = p /\ m = 0 /\ ~in_quotes
    <3>1. s[i] = Quote /\ pos[0] = i + 1 /\ pos[0] <= e
      <4>1. 0 \in 0 .. N
        BY <1>1
      <4> QED
        BY <1>2, <1>7, <2>2, <4>1 DEF WrappedAt
    <3>2. Opening(s, t, p, e, pos)
      BY <1>1, <2>2, <3>1 DEF Opening
    <3> QED
      BY <1>7, <3>2
  <2>3. CASE i = pos[m] /\ in_quotes
    <3>1. CASE m = N
      <4>1. i + 1 = e /\ s[e - 1] = Quote
        BY <1>7, <2>3, <3>1 DEF WrappedAt
      <4>2. s[i] = Quote
        BY <1>1, <4>1
      <4>3. Closing(s, t, e)
        BY <2>3, <3>1, <4>1, <4>2 DEF Closing
      <4> QED
        BY <1>7, <4>3
    <3>2. CASE m < N
      <4>1. /\ t[n] = Quote => /\ pos[n] = i + 2 /\ s[i] = Quote /\ s[i + 1] = Quote
            /\ t[n] # Quote => pos[n] = i + 1 /\ s[i] = t[n]
        BY <1>4, <1>7, <2>3, <3>2 DEF WrappedAt
      <4>2. CASE t[n] = Quote
        <5>1. i + 1 < e
          BY <1>1, <1>4, <3>2, <4>1, <4>2
        <5>2. Escaped(s, t, e, pos)
          BY <2>3, <3>2, <4>1, <4>2, <5>1 DEF Escaped
        <5> QED
          BY <1>7, <5>2
      <4>3. CASE t[n] # Quote
        <5>1. i < e
          BY <1>1, <1>4, <3>2, <4>1, <4>3
        <5>2. Character(s, t, e, pos)
          BY <1>4, <2>3, <3>2, <4>1, <4>3, <5>1 DEF Character
        <5> QED
          BY <1>7, <2>3, <5>2
      <4> QED
        BY <4>2, <4>3
    <3> QED
      BY <1>5, <3>1, <3>2
  <2>4. CASE i = e /\ m = N /\ ~in_quotes
    BY <1>3, <2>4 DEF Ending
  <2> QED
    BY <1>6, <2>1, <2>2, <2>3, <2>4
<1> QED
  BY <1>6, <1>7 DEF InCell

LEMMA Taken ==
    ASSUME TypeOK, NEW t \in Seq(Inner), Len(t) < MaxValueLen, Len(text) < Len(t),
           \A j \in 1 .. Len(text) : text[j] = t[j], NEW n, Take(t[Len(text) + 1], n)
    PROVE  /\ UNCHANGED <<source, line, pc, in_quotes, cells>>
           /\ i' = i + n /\ Len(text') = Len(text) + 1 /\ Len(text') <= Len(t)
           /\ \A j \in 1 .. Len(text') : text'[j] = t[j]
<1> DEFINE m == Len(text)
           ch == t[m + 1]
<1>1. m \in Nat /\ Len(t) \in Nat /\ text \in Seq(Characters) /\ MaxValueLen \in Nat
  BY LineAssumption, LenProperties DEF TypeOK, Cell
<1>2. Room
  BY <1>1 DEF Room
<1>3. /\ text' = Append(text, ch) /\ i' = i + n
      /\ UNCHANGED <<source, line, pc, in_quotes, cells>>
  BY <1>2 DEF Take
<1> HIDE DEF ch
<1>4. text \in Seq(Characters \cup {ch}) /\ ch \in Characters \cup {ch}
  BY <1>1, SeqMonotonic
<1>5. text' = text \o <<ch>>
  BY <1>3, <1>4
<1>6. Len(text') = m + 1 /\ text'[m + 1] = ch /\ \A k \in 1 .. m : text'[k] = text[k]
  BY <1>4, <1>5, Ended
<1>7. \A j \in 1 .. m + 1 : j \in 1 .. m \/ j = m + 1
  BY <1>1
<1>8. \A j \in 1 .. Len(text') : text'[j] = t[j]
  BY <1>6, <1>7 DEF ch
<1>9. Len(text') <= Len(t)
  BY <1>1, <1>6
<1> QED
  BY <1>3, <1>6, <1>8, <1>9

LEMMA CellSteps ==
    ASSUME NEW s, NEW t, NEW p, NEW e, NEW pos, AtCell(s, t, e), CellAt(s, t, p, e, pos),
           InCell(s, t, p, e, pos), pc = "reading"
    PROVE  /\ AtEnd \/ ReadComma => Ending(s, t, e)
           /\ ReadEscapedQuote \/ ReadQuote \/ ReadCharacter =>
                 InCell(s, t, p, e, pos)' /\ UNCHANGED <<source, line, pc, cells>>
<1> DEFINE m == Len(text)
           N == Len(t)
<1>1. /\ TypeOK /\ line = s /\ m \in Nat /\ N \in Nat /\ e \in 1 .. Len(s) /\ i \in Nat \ {0}
      /\ s[e] \in {Comma, Newline} /\ Len(s) \in Nat /\ DOMAIN s = 1 .. Len(s)
      /\ t \in Seq(Inner) /\ Len(t) < MaxValueLen
      /\ \A j \in 1 .. Len(text) : text[j] = t[j]
  BY LenProperties DEF AtCell, TypeOK, Cell, InCell, LineOf, Text
<1>2. s[e] # Quote /\ Comma # Quote /\ Quote \notin LineEnds
  BY <1>1, PiecesApart DEF Inner
<1>3. i < e => i \in DOMAIN line /\ i + 1 <= Len(line)
  BY <1>1
<1>4. CASE Ending(s, t, e)
  <2>1. s[i] # Quote /\ ~in_quotes /\ (s[i] = Comma \/ s[i] \in LineEnds) /\ i \in DOMAIN line
    BY <1>1, <1>2, <1>4, PiecesApart DEF Ending
  <2>2. ~ReadEscapedQuote /\ ~ReadQuote
    BY <1>1, <2>1 DEF ReadEscapedQuote, ReadQuote, EscapedQuoteAhead
  <2>3. ~ReadCharacter
    BY <1>1, <2>1 DEF ReadCharacter, Reading, AtEnd
  <2> QED
    BY <1>4, <2>2, <2>3
<1>5. ASSUME Character(s, t, e, pos),
             \/ PlainAt(s, t, p, e, pos) /\ ~in_quotes
             \/ WrappedAt(s, t, p, e, pos) /\ in_quotes
      PROVE  /\ ~(AtEnd \/ ReadComma \/ ReadEscapedQuote \/ ReadQuote)
             /\ ReadCharacter => InCell(s, t, p, e, pos)' /\ UNCHANGED <<source, line, pc, cells>>
  <2>1. /\ m < N /\ s[i] = t[m + 1] /\ s[i] \notin LineEnds /\ s[i] # Quote
        /\ s[i] = Comma => in_quotes
        /\ i \in DOMAIN line /\ i + 1 = pos[m + 1]
    BY <1>3, <1>5 DEF Character, Inner
  <2>2. ~(AtEnd \/ ReadComma \/ ReadEscapedQuote \/ ReadQuote)
    BY <1>1, <2>1 DEF AtEnd, ReadComma, ReadEscapedQuote, EscapedQuoteAhead, ReadQuote
  <2>3. ASSUME ReadCharacter
        PROVE  InCell(s, t, p, e, pos)' /\ UNCHANGED <<source, line, pc, cells>>
    <3>1. Take(t[m + 1], 1)
      BY <1>1, <2>1, <2>3 DEF ReadCharacter
    <3>2. /\ UNCHANGED <<source, line, pc, in_quotes, cells>>
          /\ i' = i + 1 /\ Len(text') = m + 1 /\ Len(text') <= N
          /\ \A j \in 1 .. Len(text') : text'[j] = t[j]
      BY <1>1, <2>1, <3>1, Taken
    <3>3. i' = pos[Len(text')] /\ in_quotes' = in_quotes
      BY <2>1, <3>2
    <3>4. InCell(s, t, p, e, pos)'
      BY <1>5, <3>2, <3>3 DEF InCell, PlainAt, WrappedAt
    <3> QED
      BY <3>2, <3>4
  <2> QED
    BY <2>2, <2>3
<1>6. ASSUME WrappedAt(s, t, p, e, pos), Opening(s, t, p, e, pos)
      PROVE  /\ ~(AtEnd \/ ReadComma \/ ReadEscapedQuote \/ ReadCharacter)
             /\ ReadQuote => InCell(s, t, p, e, pos)' /\ UNCHANGED <<source, line, pc, cells>>
  <2>1. s[i] = Quote /\ ~in_quotes /\ m = 0 /\ i \in DOMAIN line /\ i + 1 = pos[0]
    BY <1>3, <1>6 DEF Opening
  <2>2. ~(AtEnd \/ ReadComma \/ ReadEscapedQuote \/ ReadCharacter)
    BY <1>1, <1>2, <2>1 DEF AtEnd, ReadComma, ReadEscapedQuote, EscapedQuoteAhead, ReadCharacter
  <2>3. ASSUME ReadQuote
        PROVE  InCell(s, t, p, e, pos)' /\ UNCHANGED <<source, line, pc, cells>>
    <3>1. /\ in_quotes' = ~in_quotes /\ i' = i + 1 /\ UNCHANGED <<source, line, pc, cells, text>>
      BY <2>3 DEF ReadQuote
    <3>2. in_quotes' /\ i' = pos[Len(text')] /\ text' = text
      BY <2>1, <3>1
    <3>3. InCell(s, t, p, e, pos)'
      BY <1>6, <3>2 DEF InCell, WrappedAt, PlainAt
    <3> QED
      BY <3>1, <3>3
  <2> QED
    BY <2>2, <2>3
<1>7. ASSUME WrappedAt(s, t, p, e, pos), Escaped(s, t, e, pos)
      PROVE  /\ ~(AtEnd \/ ReadComma \/ ReadQuote \/ ReadCharacter)
             /\ ReadEscapedQuote => InCell(s, t, p, e, pos)' /\ UNCHANGED <<source, line, pc, cells>>
  <2>1. /\ m < N /\ t[m + 1] = Quote /\ in_quotes /\ s[i] = Quote /\ s[i + 1] = Quote
        /\ i + 1 < e /\ i + 2 = pos[m + 1]
    BY <1>7 DEF Escaped
  <2>2. i \in DOMAIN line /\ i + 1 <= Len(line)
    BY <1>1, <2>1
  <2>3. ~(AtEnd \/ ReadComma \/ ReadQuote \/ ReadCharacter)
    BY <1>1, <1>2, <2>1, <2>2 DEF AtEnd, ReadComma, ReadQuote, EscapedQuoteAhead, ReadCharacter
  <2>4. ASSUME ReadEscapedQuote
        PROVE  InCell(s, t, p, e, pos)' /\ UNCHANGED <<source, line, pc, cells>>
    <3>1. Take(t[m + 1], 2)
      BY <2>1, <2>4 DEF ReadEscapedQuote
    <3>2. /\ UNCHANGED <<source, line, pc, in_quotes, cells>>
          /\ i' = i + 2 /\ Len(text') = m + 1 /\ Len(text') <= N
          /\ \A j \in 1 .. Len(text') : text'[j] = t[j]
      BY <1>1, <2>1, <3>1, Taken
    <3>3. i' = pos[Len(text')] /\ in_quotes'
      BY <2>1, <3>2
    <3>4. InCell(s, t, p, e, pos)'
      BY <1>7, <3>2, <3>3 DEF InCell, WrappedAt, PlainAt
    <3> QED
      BY <3>2, <3>4
  <2> QED
    BY <2>3, <2>4
<1>8. ASSUME WrappedAt(s, t, p, e, pos), Closing(s, t, e)
      PROVE  /\ ~(AtEnd \/ ReadComma \/ ReadEscapedQuote \/ ReadCharacter)
             /\ ReadQuote => InCell(s, t, p, e, pos)' /\ UNCHANGED <<source, line, pc, cells>>
  <2>1. s[i] = Quote /\ in_quotes /\ m = N /\ i + 1 = e /\ s[i + 1] # Quote
    BY <1>2, <1>8 DEF Closing
  <2>2. i \in DOMAIN line
    BY <1>1, <1>3, <2>1
  <2>3. ~(AtEnd \/ ReadComma \/ ReadEscapedQuote \/ ReadCharacter)
    BY <1>1, <1>2, <2>1, <2>2 DEF AtEnd, ReadComma, ReadEscapedQuote, EscapedQuoteAhead, ReadCharacter
  <2>4. ASSUME ReadQuote
        PROVE  InCell(s, t, p, e, pos)' /\ UNCHANGED <<source, line, pc, cells>>
    <3>1. /\ in_quotes' = ~in_quotes /\ i' = i + 1 /\ UNCHANGED <<source, line, pc, cells, text>>
      BY <2>4 DEF ReadQuote
    <3>2. ~in_quotes' /\ i' = e /\ text' = text /\ Len(text') = Len(t)
      BY <2>1, <3>1
    <3>3. InCell(s, t, p, e, pos)'
      BY <1>8, <3>2 DEF InCell, WrappedAt, PlainAt
    <3> QED
      BY <3>1, <3>3
  <2> QED
    BY <2>3, <2>4
<1> QED
  BY <1>4, <1>5, <1>6, <1>7, <1>8, WhatIsAhead

-----------------------------------------------------------------------------
(* What was written                                                        *)
-----------------------------------------------------------------------------
Names == source.cells
Known == source \in Rows \cup Headers \cup {Foreign}
Whole == source.kind \in {"row", "header"} /\ Fits(Names)
NoQuotes(names) == \A k \in DOMAIN names : ~Has(names[k], {Quote})
(* What is read as it was written.                                         *)
Faithful == Whole /\ (source.kind = "row" \/ NoQuotes(Names))
Written == IF source.kind = "row" THEN WriteRow(Names) ELSE HeaderBytes(Names)

LEMMA SourceFacts ==
    ASSUME Known, Whole
    PROVE  /\ Names \in Seq(Seq(Inner)) /\ Names # <<>> /\ DOMAIN Names = 1 .. Len(Names)
           /\ Len(Names) \in Nat \ {0} /\ Len(Names) <= MaxColumns
           /\ \A k \in 1 .. Len(Names) : Names[k] \in Seq(Inner) /\ Len(Names[k]) < MaxValueLen
           /\ source.kind = "header" => Names \in HeaderSources
<1> DEFINE Bare == Piece \ (LineEnds \cup {Comma})
<1>1. \/ source.kind = "row" /\ Names \in RowSources
      \/ source.kind = "header" /\ Names \in HeaderSources
  BY DEF Known, Whole, Rows, Headers, Foreign, Names
<1>2. RowSources \subseteq Seq(Seq(Inner)) /\ HeaderSources \subseteq Seq(Seq(Bare))
  BY LineAssumption DEF Inner
<1>3. Seq(Bare) \subseteq Seq(Inner)
  <2>1. Bare \subseteq Inner
    BY DEF Inner
  <2> HIDE DEF Bare
  <2> QED
    BY <2>1, SeqMonotonic
<1> HIDE DEF Bare
<1>4. Names \in Seq(Seq(Inner))
  BY <1>1, <1>2, <1>3, SeqMonotonic
<1>5. Len(Names) \in 1 .. MaxColumns /\ \A k \in DOMAIN Names : Len(Names[k]) < MaxValueLen
  BY DEF Whole, Fits
<1>6. Names # <<>> /\ DOMAIN Names = 1 .. Len(Names) /\ Len(Names) \in Nat \ {0}
  BY <1>4, <1>5, LenProperties
<1>7. \A k \in 1 .. Len(Names) : Names[k] \in Seq(Inner)
  BY <1>4, ElementOfSeq
<1> HIDE DEF Names
<1>8. source.kind = "header" => Names \in HeaderSources
  BY <1>1
<1>9. Len(Names) <= MaxColumns
  BY <1>5, LineAssumption
<1> QED
  BY <1>4, <1>5, <1>6, <1>7, <1>8, <1>9

LEMMA PlainHeader ==
    ASSUME NEW names \in HeaderSources, names \in Seq(Seq(Inner)), NoQuotes(names)
    PROVE  HeaderBytes(names) = WriteRow(names)
<1>1. /\ DOMAIN names = 1 .. Len(names) /\ names \in [1 .. Len(names) -> Seq(Inner)]
      /\ names \in Seq(Seq(Piece \ (LineEnds \cup {Comma})))
  BY LenProperties, LineAssumption
<1>2. ASSUME NEW k \in DOMAIN names PROVE WriteField(names[k]) = names[k]
  <2> DEFINE t == names[k]
  <2>1. t \in Seq(Piece \ (LineEnds \cup {Comma})) /\ ~Has(t, {Quote})
    BY <1>1, ElementOfSeq DEF NoQuotes
  <2> HIDE DEF t
  <2>2. \A j \in DOMAIN t : t[j] \in Piece \ (LineEnds \cup {Comma})
    BY <2>1, LenProperties, ElementOfSeq
  <2>3. ~Has(t, {Comma, Quote, Newline})
    BY <2>1, <2>2, PiecesApart DEF Has
  <2> QED
    BY <2>3 DEF WriteField, t
<1>3. [k \in DOMAIN names |-> WriteField(names[k])] = names
  BY <1>1, <1>2
<1> QED
  BY <1>3 DEF WriteRow, HeaderBytes

LEMMA WrittenFacts ==
    ASSUME Known, Whole
    PROVE  /\ LineOf(Written)
           /\ Faithful => \E first, pos : RowAt(Written, Names, first, pos)
           /\ source.kind = "header" => \E first : Layout(Names, Written, first)
<1>1. Names \in Seq(Seq(Inner)) /\ Names # <<>> /\ (source.kind = "header" => Names \in HeaderSources)
  BY SourceFacts
<1>2. source.kind \in {"row", "header"}
  BY DEF Whole
<1>3. CASE source.kind = "row"
  BY <1>1, <1>3, RowLaidOut DEF Written
<1>4. CASE source.kind = "header"
  <2>1. Written = Joined(Names) \o <<Newline>>
    BY <1>4 DEF Written, HeaderBytes
  <2>2. LineOf(Written) /\ \E first : Layout(Names, Written, first)
    BY <1>1, <2>1, JoinedLayout
  <2>3. ASSUME Faithful PROVE \E first, pos : RowAt(Written, Names, first, pos)
    <3>1. Written = WriteRow(Names)
      BY <1>1, <1>4, <2>3, PlainHeader DEF Written, Faithful
    <3> QED
      BY <1>1, <3>1, RowLaidOut
  <2> QED
    BY <2>2, <2>3
<1> QED
  BY <1>2, <1>3, <1>4

(* fgets takes the whole of a line that this program wrote, or none of it. *)
LEMMA FetchWhole ==
    ASSUME FetchLine, LineOf(line)
    PROVE  /\ UNCHANGED <<source, line, i, in_quotes, cells, text>>
           /\ IF Len(line) > LineMax THEN pc' = "refused" ELSE pc' = "reading"
<1> DEFINE upto == SelectInSeq(line, LAMBDA ch : ch = Newline)
           got == IF upto = 0 THEN Len(line) ELSE upto
           N == Len(line)
           J == {k \in 1 .. Len(line) : line[k] = Newline}
<1>1. N \in Nat \ {0} /\ line \in Seq(Piece) /\ line[N] = Newline
  BY DEF LineOf, Text
<1>2. J = {N}
  <2>1. \A k \in 1 .. N : k # N => line[k] # Newline
    BY <1>1, PiecesApart DEF LineOf
  <2> QED
    BY <1>1, <2>1
<1>3. upto = Min(J)
  BY <1>2 DEF SelectInSeq
<1>4. Min(J) = N
  BY <1>1, <1>2 DEF Min
<1>5. got = N
  BY <1>1, <1>3, <1>4
<1>6. IF got > LineMax \/ (got = LineMax /\ line[got] # Newline)
      THEN Stop("refused")
      ELSE /\ line' = SubSeq(line, 1, got) /\ pc' = "reading"
           /\ UNCHANGED <<source, i, in_quotes, cells, text>>
  BY DEF FetchLine
<1> HIDE DEF got, upto, J
<1>7. SubSeq(line, 1, N) = line
  BY <1>1, SubSeqFull
<1> QED
  BY <1>1, <1>5, <1>6, <1>7 DEF Stop

-----------------------------------------------------------------------------
(* Reading a row as it was written                                         *)
-----------------------------------------------------------------------------
InRow(s, row, first, pos) ==
    LET n == Len(cells) + 1 IN
    /\ n <= Len(row) /\ \A k \in 1 .. Len(cells) : cells[k] = row[k]
    /\ InCell(s, row[n], first[n], first[n + 1] - 1, pos[n])

RowInv ==
    /\ Known
    /\ pc = "fetch" => i = 1 /\ ~in_quotes
    /\ Whole => /\ line = Written
                /\ pc \in {"reading", "read"} => Len(line) <= LineMax
    /\ Faithful /\ pc = "refused" => Len(line) > LineMax
    /\ Faithful /\ pc = "reading" =>
          \E first, pos : RowAt(line, Names, first, pos) /\ InRow(line, Names, first, pos)
    /\ Faithful /\ pc = "read" => cells = Names

LEMMA CellStart ==
    ASSUME NEW s, NEW t \in Seq(Inner), NEW p, NEW e, NEW pos, CellAt(s, t, p, e, pos),
           text' = <<>>, i' = p, in_quotes' = FALSE
    PROVE  InCell(s, t, p, e, pos)'
<1>1. Len(text') = 0 /\ Len(t) \in Nat /\ 1 .. 0 = {}
  BY LenProperties
<1>2. Len(text') <= Len(t) /\ \A j \in 1 .. Len(text') : text'[j] = t[j]
  BY <1>1
<1>3. CASE PlainAt(s, t, p, e, pos)
  BY <1>1, <1>2, <1>3 DEF InCell, PlainAt
<1>4. CASE WrappedAt(s, t, p, e, pos)
  BY <1>1, <1>2, <1>4 DEF InCell, WrappedAt
<1> QED
  BY <1>3, <1>4 DEF CellAt

LEMMA CellOfRow ==
    ASSUME NEW s, NEW row, NEW first, NEW pos, TypeOK, Known, Whole, Names = row, line = s,
           LineOf(s), RowAt(s, row, first, pos), InRow(s, row, first, pos)
    PROVE  LET n == Len(cells) + 1 IN
           /\ n \in 1 .. Len(row) /\ AtCell(s, row[n], first[n + 1] - 1)
           /\ CellAt(s, row[n], first[n], first[n + 1] - 1, pos[n])
           /\ InCell(s, row[n], first[n], first[n + 1] - 1, pos[n])
<1> DEFINE n == Len(cells) + 1
           e == first[n + 1]
<1>1. /\ Len(row) \in Nat \ {0} /\ Len(cells) \in Nat
      /\ \A k \in 1 .. Len(row) : row[k] \in Seq(Inner) /\ Len(row[k]) < MaxValueLen
  BY SourceFacts, LenProperties DEF TypeOK
<1>2. n <= Len(row)
  BY DEF InRow
<1>3. n \in 1 .. Len(row) /\ n \in Nat
  BY <1>1, <1>2
<1>4. InCell(s, row[n], first[n], first[n + 1] - 1, pos[n])
  BY DEF InRow
<1> HIDE DEF n
<1>5. /\ first[n] < e /\ e <= Len(s) + 1 /\ first[n] \in Nat \ {0} /\ e \in Nat
      /\ s[e - 1] \in {Comma, Newline}
      /\ CellAt(s, row[n], first[n], e - 1, pos[n])
  <2>1. n \in 1 .. Len(row) + 1 /\ n + 1 \in 1 .. Len(row) + 1
    BY <1>1, <1>3
  <2> QED
    BY <1>3, <2>1 DEF RowAt
<1>6. e - 1 \in 1 .. Len(s)
  <2>1. Len(s) \in Nat
    BY DEF LineOf
  <2> HIDE DEF e
  <2> QED
    BY <1>5, <2>1
<1>7. AtCell(s, row[n], e - 1)
  BY <1>1, <1>3, <1>5, <1>6 DEF AtCell
<1> QED
  BY <1>3, <1>4, <1>5, <1>7 DEF n

LEMMA RowSteps ==
    ASSUME NEW s, NEW row, NEW first, NEW pos, TypeOK, Known, Whole, Names = row, line = s,
           LineOf(s), RowAt(s, row, first, pos), InRow(s, row, first, pos), pc = "reading"
    PROVE  /\ ~NoMoreColumns
           /\ ReadEscapedQuote \/ ReadQuote \/ ReadCharacter =>
                 InRow(s, row, first, pos)' /\ UNCHANGED <<source, line, pc>>
           /\ ReadComma => InRow(s, row, first, pos)' /\ UNCHANGED <<source, line, pc>>
           /\ EndOfLine => cells' = row /\ pc' = "read" /\ UNCHANGED <<source, line>>
<1>1. PICK n : n = Len(cells) + 1
  OBVIOUS
<1>2. PICK t, p, e, o, N : t = row[n] /\ p = first[n] /\ e = first[n + 1] - 1 /\ o = pos[n] /\ N = Len(row)
  OBVIOUS
<1>3. n \in 1 .. N /\ AtCell(s, t, e) /\ CellAt(s, t, p, e, o) /\ InCell(s, t, p, e, o)
  BY <1>1, <1>2, CellOfRow
<1>4. /\ N \in Nat \ {0} /\ N <= MaxColumns /\ MaxColumns \in Nat
      /\ \A k \in 1 .. N : row[k] \in Seq(Inner)
      /\ row \in Seq(Seq(Inner))
  BY <1>2, SourceFacts, LineAssumption
<1>5. cells \in Seq(Cell) /\ Len(cells) \in Nat /\ text \in Cell
  BY LenProperties DEF TypeOK
<1>6. Len(cells) < N /\ Len(cells) < MaxColumns /\ ~(Len(cells) >= MaxColumns) /\ Len(cells) = n - 1
  BY <1>1, <1>3, <1>4, <1>5
<1>7. \A k \in 1 .. Len(cells) : cells[k] = row[k]
  BY DEF InRow
<1>8. /\ AtEnd \/ ReadComma => Ending(s, t, e)
      /\ ReadEscapedQuote \/ ReadQuote \/ ReadCharacter =>
            InCell(s, t, p, e, o)' /\ UNCHANGED <<source, line, pc, cells>>
  BY <1>3, CellSteps
<1>9. ~NoMoreColumns
  BY <1>6 DEF NoMoreColumns
<1>10. ASSUME ReadEscapedQuote \/ ReadQuote \/ ReadCharacter
       PROVE  InRow(s, row, first, pos)' /\ UNCHANGED <<source, line, pc>>
  <2>1. InCell(s, t, p, e, o)' /\ UNCHANGED <<source, line, pc, cells>>
    BY <1>8, <1>10
  <2>2. n = Len(cells') + 1
    BY <1>1, <2>1
  <2>3. InRow(s, row, first, pos)'
    BY <1>1, <1>2, <1>3, <1>7, <2>1, <2>2 DEF InRow
  <2> QED
    BY <2>1, <2>3
<1>11. /\ s[e] = IF n = N THEN Newline ELSE Comma
       /\ e \in 1 .. Len(s) /\ s[e] \in {Comma, Newline} /\ t \in Seq(Inner)
       /\ DOMAIN s = 1 .. Len(s)
  BY <1>2, <1>3, LenProperties DEF RowAt, AtCell, LineOf, Text
<1>12. ASSUME Ending(s, t, e), cells' = Append(cells, text)
       PROVE  /\ Len(cells') = n /\ \A k \in 1 .. n : cells'[k] = row[k]
              /\ cells' \in Seq(Cell)
  <2>1. cells' = cells \o <<text>>
    BY <1>5, <1>12
  <2>2. /\ cells' \in Seq(Cell) /\ Len(cells') = Len(cells) + 1
        /\ cells'[Len(cells) + 1] = text /\ \A k \in 1 .. Len(cells) : cells'[k] = cells[k]
    BY <1>5, <2>1, Ended
  <2>3. cells'[n] = row[n]
    BY <1>1, <1>2, <1>12, <2>2 DEF Ending
  <2>4. \A k \in 1 .. n : k = n \/ k \in 1 .. Len(cells)
    BY <1>3, <1>4, <1>6
  <2> QED
    BY <1>1, <1>7, <2>2, <2>3, <2>4
<1>13. ASSUME ReadComma
       PROVE  InRow(s, row, first, pos)' /\ UNCHANGED <<source, line, pc>>
  <2>1. Ending(s, t, e)
    BY <1>8, <1>13
  <2>2. /\ cells' = Append(cells, text) /\ text' = <<>> /\ i' = i + 1 /\ in_quotes' = in_quotes
        /\ UNCHANGED <<source, line, pc>> /\ s[i] = Comma
    BY <1>13 DEF ReadComma
  <2>3. Len(cells') = n /\ \A k \in 1 .. n : cells'[k] = row[k]
    BY <1>12, <2>1, <2>2
  <2>4. n # N
    BY <1>11, <2>1, <2>2, PiecesApart DEF Ending, Inner
  <2>5. n + 1 \in 1 .. N /\ n + 1 <= N /\ n \in 1 .. N
    BY <1>3, <1>4, <2>4
  <2>6. i' = first[n + 1] /\ in_quotes' = FALSE
    <3>1. i' = e + 1 /\ in_quotes' = FALSE
      BY <1>3, <2>1, <2>2 DEF Ending, AtCell, TypeOK
    <3>2. first[n + 1] \in Nat
      <4>1. n + 1 \in 1 .. Len(row) + 1
        BY <1>2, <1>4, <2>5
      <4> QED
        BY <4>1 DEF RowAt
    <3> QED
      BY <1>2, <3>1, <3>2
  <2>7. PICK m : m = n + 1
    OBVIOUS
  <2>8. row[m] \in Seq(Inner) /\ CellAt(s, row[m], first[m], first[m + 1] - 1, pos[m])
    BY <1>2, <1>4, <2>5, <2>7 DEF RowAt
  <2>9. InCell(s, row[m], first[m], first[m + 1] - 1, pos[m])'
    BY <2>2, <2>6, <2>7, <2>8, CellStart
  <2>10. InRow(s, row, first, pos)'
    BY <1>2, <2>3, <2>5, <2>7, <2>9 DEF InRow
  <2> QED
    BY <2>2, <2>10
<1>14. ASSUME EndOfLine
       PROVE  cells' = row /\ pc' = "read" /\ UNCHANGED <<source, line>>
  <2>1. AtEnd /\ cells' = Append(cells, text) /\ pc' = "read" /\ UNCHANGED <<source, line>>
    BY <1>6, <1>14 DEF EndOfLine
  <2>2. Ending(s, t, e)
    BY <1>8, <2>1
  <2>3. s[e] \in LineEnds
    BY <1>11, <2>1, <2>2 DEF AtEnd, Ending
  <2>4. n = N
    BY <1>11, <2>3, PiecesApart DEF Inner
  <2>5. Len(cells') = N /\ cells' \in Seq(Cell) /\ \A k \in 1 .. N : cells'[k] = row[k]
    BY <1>12, <2>1, <2>2, <2>4
  <2>6. cells' = row
    <3>1. row \in [1 .. N -> Seq(Inner)] /\ cells' \in [1 .. N -> Cell]
      BY <1>2, <1>4, <2>5, LenProperties
    <3> QED
      BY <2>5, <3>1
  <2> QED
    BY <2>1, <2>6
<1> QED
  BY <1>9, <1>10, <1>13, <1>14

LEMMA RowInductive ==
    /\ Init => RowInv
    /\ TypeOK /\ NothingYet /\ RowInv /\ [Next]_vars => RowInv'
<1>1. ASSUME Init PROVE RowInv
  <2>1. Known
    BY <1>1 DEF Init, Known
  <2>2. pc = "fetch" /\ i = 1 /\ ~in_quotes
    BY <1>1, Zenon DEF Init
  <2>3. ASSUME Whole PROVE line = Written
    <3>1. \/ source \in Rows /\ line = WriteRow(source.cells)
          \/ source \in Headers /\ line = HeaderBytes(source.cells)
      BY <1>1, <2>3 DEF Init, Whole, Foreign
    <3>2. \A x \in Rows : x.kind = "row"
      BY DEF Rows
    <3>3. \A x \in Headers : x.kind = "header"
      BY DEF Headers
    <3> QED
      BY <3>1, <3>2, <3>3 DEF Written, Names
  <2> QED
    BY <2>1, <2>2, <2>3 DEF RowInv
<1>2. ASSUME TypeOK, NothingYet, RowInv, [Next]_vars PROVE RowInv'
  <2>1. source' = source /\ Names' = Names /\ Known' = Known /\ Whole' = Whole
        /\ Faithful' = Faithful /\ Written' = Written
    <3>1. source' = source
      BY <1>2 DEF Next, vars, FetchLine, NoMoreColumns, ReadEscapedQuote, ReadQuote, ReadComma,
                  ReadCharacter, EndOfLine, Stop, Take
    <3> QED
      BY <3>1 DEF Names, Known, Whole, Faithful, Written, NoQuotes, Rows, Headers, Foreign
  <2>2. CASE ~Whole
    <3>1. ~Faithful
      BY <2>2 DEF Faithful
    <3>2. pc' # "fetch" \/ UNCHANGED <<i, in_quotes, pc>>
      BY <1>2 DEF Next, vars, FetchLine, NoMoreColumns, ReadEscapedQuote, ReadQuote, ReadComma,
                  ReadCharacter, EndOfLine, Stop, Take, Reading
    <3> QED
      BY <1>2, <2>1, <2>2, <3>1, <3>2 DEF RowInv
  <2>3. CASE Whole
    <3>1. /\ Known /\ line = Written /\ LineOf(line)
          /\ Faithful => \E first, pos : RowAt(line, Names, first, pos)
      BY <1>2, <2>3, WrittenFacts DEF RowInv
    <3>2. Len(line) \in Nat /\ LineMax \in Nat
      BY <3>1, LineAssumption DEF LineOf
    <3>3. CASE FetchLine
      <4>1. /\ UNCHANGED <<source, line, i, in_quotes, cells, text>>
            /\ IF Len(line) > LineMax THEN pc' = "refused" ELSE pc' = "reading"
        BY <3>1, <3>3, FetchWhole
      <4>2. i = 1 /\ ~in_quotes /\ cells = <<>> /\ text = <<>>
        BY <1>2, <3>3 DEF RowInv, NothingYet, FetchLine
      <4>3. ASSUME Faithful
            PROVE  \E first, pos : /\ RowAt(line', Names', first, pos)
                                   /\ InRow(line, Names, first, pos)'
        <5>1. PICK s, row : s = line /\ row = Names
          OBVIOUS
        <5>2. PICK first, pos : RowAt(s, row, first, pos)
          BY <3>1, <4>3, <5>1
        <5>3. /\ row \in Seq(Seq(Inner)) /\ Len(row) \in Nat \ {0}
              /\ \A k \in 1 .. Len(row) : row[k] \in Seq(Inner)
          BY <2>3, <3>1, <5>1, SourceFacts
        <5>4. 1 \in 1 .. Len(row) /\ first[1] = 1
          BY <5>2, <5>3 DEF RowAt
        <5>5. row[1] \in Seq(Inner) /\ CellAt(s, row[1], first[1], first[1 + 1] - 1, pos[1])
          BY <5>2, <5>3, <5>4 DEF RowAt
        <5>6. text' = <<>> /\ i' = 1 /\ in_quotes' = FALSE /\ cells' = <<>>
          BY <1>2, <4>1, <4>2 DEF TypeOK
        <5>7. InCell(s, row[1], first[1], first[1 + 1] - 1, pos[1])'
          BY <5>4, <5>5, <5>6, CellStart
        <5>8. InRow(s, row, first, pos)'
          <6>1. Len(cells') = 0 /\ 0 + 1 = 1 /\ 1 <= Len(row) /\ 1 .. 0 = {}
            BY <5>3, <5>6
          <6> QED
            BY <5>7, <6>1 DEF InRow
        <5>9. s = line' /\ row = Names'
          BY <2>1, <4>1, <5>1
        <5> QED
          BY <5>2, <5>8, <5>9
      <4>4. pc' = "reading" => Len(line') <= LineMax
        BY <3>2, <4>1
      <4>5. pc' = "refused" => Len(line') > LineMax
        BY <4>1
      <4>6. pc' \in {"reading", "refused"} /\ line' = Written'
        BY <2>1, <3>1, <4>1
      <4> QED
        BY <2>1, <3>1, <4>3, <4>4, <4>5, <4>6 DEF RowInv
    <3>4. CASE UNCHANGED vars
      BY <1>2, <2>1, <3>4 DEF RowInv, vars, InRow, InCell, PlainAt, WrappedAt
    <3>5. CASE ~Faithful /\ ~FetchLine /\ ~UNCHANGED vars
      <4>1. pc = "reading" /\ line' = line /\ pc' \in {"reading", "read", "refused"}
        BY <1>2, <3>5 DEF Next, NoMoreColumns, ReadEscapedQuote, ReadQuote, ReadComma,
                  ReadCharacter, EndOfLine, Stop, Take, Reading
      <4> QED
        BY <1>2, <2>1, <2>3, <3>5, <4>1 DEF RowInv
    <3>6. CASE Faithful /\ ~FetchLine /\ ~UNCHANGED vars
      <4>1. /\ NoMoreColumns \/ ReadEscapedQuote \/ ReadQuote \/ ReadComma
               \/ ReadCharacter \/ EndOfLine
            /\ pc = "reading"
        BY <1>2, <3>6 DEF Next, NoMoreColumns, ReadEscapedQuote, ReadQuote, ReadComma,
                  ReadCharacter, EndOfLine, Reading
      <4>2. PICK s, row : s = line /\ row = Names
        OBVIOUS
      <4>3. PICK first, pos : RowAt(s, row, first, pos) /\ InRow(s, row, first, pos)
        BY <1>2, <3>6, <4>1, <4>2 DEF RowInv
      <4>4. /\ ~NoMoreColumns
            /\ ReadEscapedQuote \/ ReadQuote \/ ReadCharacter =>
                  InRow(s, row, first, pos)' /\ UNCHANGED <<source, line, pc>>
            /\ ReadComma => InRow(s, row, first, pos)' /\ UNCHANGED <<source, line, pc>>
            /\ EndOfLine => cells' = row /\ pc' = "read" /\ UNCHANGED <<source, line>>
        BY <1>2, <2>3, <3>1, <4>1, <4>2, <4>3, RowSteps
      <4>5. CASE EndOfLine
        BY <1>2, <2>1, <2>3, <3>1, <3>6, <4>1, <4>2, <4>4, <4>5 DEF RowInv
      <4>6. CASE ~EndOfLine
        <5>1. InRow(s, row, first, pos)' /\ UNCHANGED <<source, line, pc>>
          BY <4>1, <4>4, <4>6
        <5>2. s = line' /\ row = Names'
          BY <2>1, <4>2, <5>1
        <5>3. \E fs, ps : RowAt(line', Names', fs, ps) /\ InRow(line, Names, fs, ps)'
          BY <4>3, <5>1, <5>2
        <5> QED
          BY <1>2, <2>1, <2>3, <3>1, <4>1, <5>1, <5>3 DEF RowInv
      <4> QED
        BY <4>5, <4>6
    <3> QED
      BY <3>3, <3>4, <3>5, <3>6
  <2> QED
    BY <2>2, <2>3
<1> QED
  BY <1>1, <1>2

(* A row that INSERT wrote is read back as the cells it was made of,       *)
(* unless its line is longer than the buffer; no other row is refused.     *)
THEOREM RowsReadBackCorrect == Spec => []RowsReadBack
<1>1. ASSUME TypeOK, RowInv PROVE RowsReadBack
  <2> SUFFICES ASSUME pc \in Over, source.kind = "row", Fits(source.cells)
               PROVE  IF Len(WriteRow(source.cells)) <= LineMax
                      THEN pc = "read" /\ cells = source.cells
                      ELSE pc = "refused"
    BY DEF RowsReadBack
  <2>1. Whole /\ Faithful /\ Written = WriteRow(source.cells)
    BY DEF Whole, Faithful, Written, Names
  <2>2. Known /\ line = WriteRow(source.cells)
    BY <1>1, <2>1 DEF RowInv
  <2>3. Len(line) \in Nat /\ LineMax \in Nat
    BY <2>1, <2>2, WrittenFacts, LineAssumption DEF LineOf
  <2>4. /\ pc = "read" => Len(line) <= LineMax /\ cells = source.cells
        /\ pc = "refused" => Len(line) > LineMax
    BY <1>1, <2>1 DEF RowInv, Names
  <2> QED
    BY <2>2, <2>3, <2>4 DEF Over
<1>2. Init => TypeOK /\ NothingYet /\ RowInv
  BY TypeInductive, RowInductive
<1>3. TypeOK /\ NothingYet /\ RowInv /\ [Next]_vars => (TypeOK /\ NothingYet /\ RowInv)'
  BY TypeInductive, RowInductive
<1> QED
  BY <1>1, <1>2, <1>3, PTL DEF Spec

-----------------------------------------------------------------------------
(* A header with a quote in it                                             *)
-----------------------------------------------------------------------------
(* As long as the cells that are read are the names that were written, the *)
(* reader is never behind the place where they would end, and ahead of it  *)
(* as soon as a quote is in one of them: it took two of the line.          *)
Quoted == Has(text, {Quote}) \/ \E k \in 1 .. Len(cells) : Has(cells[k], {Quote})
Late(names, first) ==
    Len(cells) < Len(names) /\ (\A k \in 1 .. Len(cells) : cells[k] = names[k]) =>
        LET least == first[Len(cells) + 1] + Len(text)
        IN  least <= i /\ (Quoted => least < i)

LateInv ==
    Whole /\ source.kind = "header" =>
        /\ pc = "reading" =>
              i <= Len(line) /\ \A first : Layout(Names, line, first) => Late(Names, first)
        /\ pc = "read" /\ cells = Names => NoQuotes(Names)

LEMMA TextGrows ==
    ASSUME TypeOK, NEW ch, text' = Append(text, ch)
    PROVE  /\ Len(text') = Len(text) + 1 /\ Len(text) \in Nat
           /\ Has(text', {Quote}) <=> Has(text, {Quote}) \/ ch = Quote
<1>1. text \in Seq(Characters \cup {ch}) /\ ch \in Characters \cup {ch}
  BY SeqMonotonic DEF TypeOK, Cell
<1>2. text' = text \o <<ch>>
  BY <1>1
<1>3. /\ text' \in Seq(Characters \cup {ch}) /\ Len(text') = Len(text) + 1 /\ Len(text) \in Nat
      /\ text'[Len(text) + 1] = ch /\ \A k \in 1 .. Len(text) : text'[k] = text[k]
  BY <1>1, <1>2, Ended
<1>4. DOMAIN text = 1 .. Len(text) /\ DOMAIN text' = 1 .. Len(text) + 1
  BY <1>1, <1>3, LenProperties
<1>5. /\ Len(text) + 1 \in 1 .. Len(text) + 1
      /\ \A k \in 1 .. Len(text) : k \in 1 .. Len(text) + 1
      /\ \A k \in 1 .. Len(text) + 1 : k \in 1 .. Len(text) \/ k = Len(text) + 1
  BY <1>3
<1>6. Has(text, {Quote}) <=> \E k \in 1 .. Len(text) : text[k] = Quote
  BY <1>4 DEF Has
<1>7. Has(text', {Quote}) <=> \E k \in 1 .. Len(text) + 1 : text'[k] = Quote
  BY <1>4 DEF Has
<1> QED
  BY <1>3, <1>5, <1>6, <1>7

LEMMA CellsGrow ==
    ASSUME TypeOK, cells' = Append(cells, text)
    PROVE  /\ Len(cells') = Len(cells) + 1 /\ Len(cells) \in Nat
           /\ cells'[Len(cells) + 1] = text
           /\ \A k \in 1 .. Len(cells) : cells'[k] = cells[k]
<1>1. cells \in Seq(Cell) /\ text \in Cell
  BY DEF TypeOK
<1>2. cells' = cells \o <<text>>
  BY <1>1
<1> QED
  BY <1>1, <1>2, Ended

LEMMA LateSteps ==
    ASSUME NEW names, NEW first, TypeOK, NEW s, line = s, LineOf(s), names \in Seq(Seq(Inner)),
           Layout(names, s, first), Late(names, first), pc = "reading", i <= Len(s)
    PROVE  /\ ReadEscapedQuote \/ ReadQuote \/ ReadComma \/ ReadCharacter =>
                 (pc' = "reading" => i' <= Len(s) /\ Late(names, first)')
           /\ EndOfLine => (pc' = "read" /\ cells' = names => NoQuotes(names))
<1>1. PICK n, N : n = Len(cells) + 1 /\ N = Len(names)
  OBVIOUS
<1>2. /\ i \in Nat \ {0} /\ Len(text) \in Nat /\ Len(cells) \in Nat /\ n \in Nat /\ N \in Nat
      /\ Len(s) \in Nat \ {0} /\ DOMAIN s = 1 .. Len(s) /\ s[Len(s)] = Newline
      /\ DOMAIN text = 1 .. Len(text)
  BY <1>1, LenProperties DEF TypeOK, Cell, LineOf, Text
<1>3. n <= N => /\ first[n] \in Nat /\ first[n + 1] \in Nat
                /\ first[n + 1] = first[n] + Len(names[n]) + 1 /\ Len(names[n]) \in Nat
  <2> SUFFICES ASSUME n <= N PROVE /\ first[n] \in Nat /\ first[n + 1] \in Nat
                /\ first[n + 1] = first[n] + Len(names[n]) + 1 /\ Len(names[n]) \in Nat
    OBVIOUS
  <2>1. n \in 1 .. N /\ n \in 1 .. N + 1 /\ n + 1 \in 1 .. N + 1
    BY <1>1, <1>2
  <2>2. names[n] \in Seq(Inner)
    BY <1>1, <2>1, ElementOfSeq
  <2> QED
    BY <1>1, <2>1, <2>2, LenProperties DEF Layout
<1>4. ~AtEnd => i + 1 <= Len(s) /\ (s[i + 1] = Quote => i + 2 <= Len(s))
  <2>1. ~AtEnd => i \in 1 .. Len(s) /\ i # Len(s)
    BY <1>2, PiecesApart DEF AtEnd
  <2>2. s[i + 1] = Quote => i + 1 # Len(s)
    BY <1>2, PiecesApart DEF Inner
  <2>3. PICK z : z = Len(s)
    OBVIOUS
  <2>4. i \in Nat /\ z \in Nat
    BY <1>2, <2>3
  <2>5. i \in 1 .. z /\ i # z => i + 1 <= z /\ (i + 1 # z => i + 2 <= z)
    BY <2>4
  <2> QED
    BY <2>1, <2>2, <2>3, <2>5
<1>5. ASSUME Len(cells) < N, \A k \in 1 .. Len(cells) : cells[k] = names[k]
      PROVE  /\ n <= N /\ first[n] + Len(text) <= i /\ (Quoted => first[n] + Len(text) < i)
  <2>1. n <= N
    BY <1>1, <1>2, <1>5
  <2>2. Len(cells) < Len(names) /\ \A k \in 1 .. Len(cells) : cells[k] = names[k]
    BY <1>1, <1>5
  <2>3. /\ first[Len(cells) + 1] + Len(text) <= i
        /\ Quoted => first[Len(cells) + 1] + Len(text) < i
    BY <2>2, Zenon DEF Late
  <2> QED
    BY <1>1, <2>1, <2>3
<1>6. ASSUME ReadEscapedQuote, pc' = "reading"
      PROVE  i' <= Len(s) /\ Late(names, first)'
  <2>1. text' = Append(text, Quote) /\ i' = i + 2 /\ cells' = cells
    BY <1>6 DEF ReadEscapedQuote, Take, Stop
  <2>2. i + 2 <= Len(s)
    BY <1>4, <1>6 DEF ReadEscapedQuote, Reading, EscapedQuoteAhead
  <2>3. Len(text') = Len(text) + 1
    BY <2>1, TextGrows
  <2>4. Late(names, first)'
    <3> SUFFICES ASSUME Len(cells) < N, \A k \in 1 .. Len(cells) : cells[k] = names[k]
                 PROVE  first[n] + Len(text') <= i' /\ first[n] + Len(text') < i'
      BY <1>1, <2>1 DEF Late
    <3>1. first[n] + Len(text) <= i /\ first[n] \in Nat
      BY <1>3, <1>5
    <3>2. PICK x, y, z : x = first[n] /\ y = Len(text) /\ z = Len(text')
      OBVIOUS
    <3>3. /\ x \in Nat /\ y \in Nat /\ i \in Nat /\ i' = i + 2 /\ z = y + 1 /\ x + y <= i
      BY <1>2, <2>1, <2>3, <3>1, <3>2
    <3>4. x + z <= i' /\ x + z < i'
      BY <3>3
    <3> QED
      BY <3>2, <3>4
  <2> QED
    BY <2>1, <2>2, <2>4
<1>7. ASSUME ReadQuote
      PROVE  i' <= Len(s) /\ Late(names, first)'
  <2>1. text' = text /\ i' = i + 1 /\ cells' = cells
    BY <1>7 DEF ReadQuote
  <2>2. i + 1 <= Len(s)
    BY <1>4, <1>7 DEF ReadQuote, Reading
  <2>3. Late(names, first)'
    <3> SUFFICES ASSUME Len(cells) < N, \A k \in 1 .. Len(cells) : cells[k] = names[k]
                 PROVE  first[n] + Len(text') <= i' /\ first[n] + Len(text') < i'
      BY <1>1, <2>1 DEF Late
    <3>1. first[n] + Len(text) <= i /\ first[n] \in Nat
      BY <1>3, <1>5
    <3>2. PICK x, y : x = first[n] /\ y = Len(text)
      OBVIOUS
    <3>3. /\ x \in Nat /\ y \in Nat /\ i \in Nat /\ i' = i + 1 /\ x + y <= i
      BY <1>2, <2>1, <3>1, <3>2
    <3>4. x + y <= i' /\ x + y < i'
      BY <3>3
    <3> QED
      BY <2>1, <3>2, <3>4
  <2> QED
    BY <2>1, <2>2, <2>3
<1>8. ASSUME ReadCharacter, pc' = "reading"
      PROVE  i' <= Len(s) /\ Late(names, first)'
  <2>1. text' = Append(text, line[i]) /\ i' = i + 1 /\ cells' = cells /\ line[i] # Quote
    BY <1>8 DEF ReadCharacter, Take, Stop
  <2>2. i + 1 <= Len(s)
    BY <1>4, <1>8 DEF ReadCharacter, Reading
  <2>3. Len(text') = Len(text) + 1 /\ (Has(text', {Quote}) <=> Has(text, {Quote}))
    BY <2>1, TextGrows
  <2>4. Quoted' <=> Quoted
    BY <2>1, <2>3 DEF Quoted
  <2>5. Late(names, first)'
    <3> SUFFICES ASSUME Len(cells) < N, \A k \in 1 .. Len(cells) : cells[k] = names[k]
                 PROVE  first[n] + Len(text') <= i' /\ (Quoted => first[n] + Len(text') < i')
      BY <1>1, <2>1, <2>4 DEF Late
    <3>1. first[n] + Len(text) <= i /\ (Quoted => first[n] + Len(text) < i) /\ first[n] \in Nat
      BY <1>3, <1>5
    <3>2. PICK x, y, z : x = first[n] /\ y = Len(text) /\ z = Len(text')
      OBVIOUS
    <3> HIDE DEF Quoted
    <3>3. /\ x \in Nat /\ y \in Nat /\ i \in Nat /\ i' = i + 1 /\ z = y + 1
          /\ x + y <= i /\ (Quoted => x + y < i)
      BY <1>2, <2>1, <2>3, <3>1, <3>2
    <3>4. x + z <= i' /\ (Quoted => x + z < i')
      BY <3>3
    <3> QED
      BY <3>2, <3>4
  <2> QED
    BY <2>1, <2>2, <2>5
<1>9. ASSUME cells' = Append(cells, text), \A k \in 1 .. Len(cells') : cells'[k] = names[k],
             Len(cells) < N
      PROVE  /\ Len(cells') = n /\ \A k \in 1 .. Len(cells) : cells[k] = names[k]
             /\ Len(text) = Len(names[n]) /\ first[n + 1] = first[n] + Len(text) + 1
             /\ n <= N /\ first[n] \in Nat
             /\ Quoted <=> \E k \in 1 .. n : Has(names[k], {Quote})
  <2>1. /\ Len(cells') = n /\ cells'[n] = text
        /\ \A k \in 1 .. Len(cells) : cells'[k] = cells[k]
    BY <1>1, <1>9, CellsGrow
  <2>2. /\ n \in 1 .. n /\ \A k \in 1 .. Len(cells) : k \in 1 .. n
        /\ \A k \in 1 .. n : k = n \/ k \in 1 .. Len(cells)
    BY <1>1, <1>2
  <2>3. text = names[n] /\ \A k \in 1 .. Len(cells) : cells[k] = names[k]
    BY <1>9, <2>1, <2>2
  <2>4. n <= N
    BY <1>1, <1>2, <1>9
  <2>5. Quoted <=> \E k \in 1 .. n : Has(names[k], {Quote})
    BY <2>2, <2>3 DEF Quoted
  <2> QED
    BY <1>3, <2>1, <2>3, <2>4, <2>5
<1>10. ASSUME ReadComma
       PROVE  i' <= Len(s) /\ Late(names, first)'
  <2>1. cells' = Append(cells, text) /\ text' = <<>> /\ i' = i + 1
    BY <1>10 DEF ReadComma
  <2>2. i + 1 <= Len(s)
    BY <1>4, <1>10 DEF ReadComma, Reading
  <2>3. Len(cells') = n /\ Len(text') = 0 /\ ~Has(text', {Quote})
    BY <1>1, <2>1, CellsGrow DEF Has
  <2>4. Late(names, first)'
    <3> SUFFICES ASSUME Len(cells') < N, \A k \in 1 .. Len(cells') : cells'[k] = names[k]
                 PROVE  first[n + 1] + 0 <= i' /\ (Quoted' => first[n + 1] + 0 < i')
      BY <1>1, <2>3 DEF Late
    <3>1. Len(cells) < N
      BY <1>1, <1>2, <2>3
    <3>2. /\ \A k \in 1 .. Len(cells) : cells[k] = names[k]
          /\ first[n + 1] = first[n] + Len(text) + 1 /\ first[n] \in Nat
          /\ Quoted <=> \E k \in 1 .. n : Has(names[k], {Quote})
      BY <1>9, <2>1, <3>1
    <3>3. Quoted' => Quoted
      BY <2>3, <3>2 DEF Quoted
    <3>4. first[n] + Len(text) <= i /\ (Quoted => first[n] + Len(text) < i)
      BY <1>5, <3>1, <3>2
    <3>5. PICK x, y, z : x = first[n] /\ y = Len(text) /\ z = first[n + 1]
      OBVIOUS
    <3> HIDE DEF Quoted
    <3>6. x \in Nat /\ y \in Nat /\ i \in Nat /\ i' = i + 1 /\ z = x + y + 1
      BY <1>2, <2>1, <3>2, <3>5
    <3>7. x + y <= i /\ (Quoted' => x + y < i)
      BY <3>3, <3>4, <3>5
    <3>8. z + 0 <= i' /\ (Quoted' => z + 0 < i')
      BY <3>6, <3>7
    <3> QED
      BY <3>5, <3>8
  <2> QED
    BY <2>1, <2>2, <2>4
<1>11. ASSUME EndOfLine, pc' = "read", cells' = names
       PROVE  NoQuotes(names)
  <2>1. cells' = Append(cells, text)
    BY <1>11 DEF EndOfLine, Stop
  <2>2. Len(cells') = n /\ n = N
    BY <1>1, <1>11, <2>1, CellsGrow
  <2>3. Len(cells) < N
    BY <1>1, <1>2, <2>2
  <2>4. /\ \A k \in 1 .. Len(cells) : cells[k] = names[k]
        /\ first[n + 1] = first[n] + Len(text) + 1 /\ first[n] \in Nat
        /\ Quoted <=> \E k \in 1 .. n : Has(names[k], {Quote})
    BY <1>9, <1>11, <2>1, <2>3
  <2>5. Quoted => first[n] + Len(text) < i
    BY <1>5, <2>3, <2>4
  <2>6. first[n + 1] = Len(s) + 1
    BY <1>1, <2>2 DEF Layout
  <2>7. PICK x, y, z : x = first[n] /\ y = Len(text) /\ z = Len(s)
    OBVIOUS
  <2> HIDE DEF Quoted
  <2>8. ~Quoted
    <3>1. /\ x \in Nat /\ y \in Nat /\ z \in Nat /\ i \in Nat /\ i <= z
          /\ x + y + 1 = z + 1 /\ (Quoted => x + y < i)
      BY <1>2, <2>4, <2>5, <2>6, <2>7
    <3> QED
      BY <3>1
  <2>9. DOMAIN names = 1 .. n
    BY <1>1, <2>2, LenProperties
  <2> QED
    BY <2>4, <2>8, <2>9 DEF NoQuotes
<1> QED
  BY <1>6, <1>7, <1>8, <1>10, <1>11

LEMMA LateInductive ==
    /\ Init => LateInv
    /\ TypeOK /\ NothingYet /\ RowInv /\ LateInv /\ [Next]_vars => LateInv'
<1>1. Init => LateInv
  BY DEF Init, LateInv
<1>2. ASSUME TypeOK, NothingYet, RowInv, LateInv, [Next]_vars PROVE LateInv'
  <2>1. /\ source' = source /\ Names' = Names /\ Whole' = Whole
    <3>1. source' = source
      BY <1>2 DEF Next, vars, FetchLine, NoMoreColumns, ReadEscapedQuote, ReadQuote, ReadComma,
                  ReadCharacter, EndOfLine, Stop, Take
    <3> QED
      BY <3>1 DEF Names, Whole
  <2> SUFFICES ASSUME Whole, source.kind = "header"
               PROVE  /\ pc' = "reading" =>
                            /\ i' <= Len(line')
                            /\ \A first : Layout(Names', line', first) => Late(Names, first)'
                      /\ pc' = "read" /\ cells' = Names' => NoQuotes(Names')
    BY <2>1 DEF LateInv
  <2>2. Known /\ line = Written /\ LineOf(line)
    BY <1>2, WrittenFacts DEF RowInv
  <2>3. PICK s, names : s = line /\ names = Names
    OBVIOUS
  <2>4. names \in Seq(Seq(Inner)) /\ LineOf(s) /\ Len(s) \in Nat \ {0}
    BY <2>2, <2>3, SourceFacts DEF LineOf
  <2>5. CASE FetchLine
    <3>1. UNCHANGED <<source, line, i, in_quotes, cells, text>> /\ pc' # "read"
      BY <2>2, <2>5, FetchWhole
    <3>2. i' = 1 /\ cells' = <<>> /\ text' = <<>>
      BY <1>2, <2>5, <3>1 DEF RowInv, NothingYet, FetchLine
    <3>3. ASSUME NEW first, Layout(names, s, first) PROVE Late(names, first)'
      <4>1. Len(cells') = 0 /\ Len(text') = 0 /\ 0 + 1 = 1 /\ first[1] + 0 = 1
        BY <3>2, <3>3 DEF Layout
      <4>2. ~Quoted'
        <5>1. ~Has(text', {Quote}) /\ 1 .. Len(cells') = {}
          BY <3>2, <4>1 DEF Has
        <5> QED
          BY <5>1 DEF Quoted
      <4> QED
        BY <3>2, <4>1, <4>2 DEF Late
    <3>4. i' <= Len(line') /\ line' = s /\ Names' = names
      BY <2>1, <2>3, <2>4, <3>1, <3>2
    <3>5. \A first : Layout(Names', line', first) => Late(Names, first)'
      BY <2>1, <3>3, <3>4 DEF Late
    <3> QED
      BY <3>1, <3>4, <3>5
  <2>6. CASE UNCHANGED vars
    BY <1>2, <2>1, <2>6 DEF LateInv, vars, Late, Quoted
  <2>7. CASE ~FetchLine /\ ~UNCHANGED vars
    <3>1. /\ NoMoreColumns \/ ReadEscapedQuote \/ ReadQuote \/ ReadComma
             \/ ReadCharacter \/ EndOfLine
          /\ pc = "reading" /\ line' = line
      BY <1>2, <2>7 DEF Next, NoMoreColumns, ReadEscapedQuote, ReadQuote, ReadComma,
                ReadCharacter, EndOfLine, Reading, Stop, Take
    <3>2. i <= Len(s) /\ \A first : Layout(names, s, first) => Late(names, first)
      BY <1>2, <2>3, <3>1 DEF LateInv, Late
    <3>3. \A first : Layout(names, s, first) =>
            /\ ReadEscapedQuote \/ ReadQuote \/ ReadComma \/ ReadCharacter =>
                  (pc' = "reading" => i' <= Len(s) /\ Late(names, first)')
            /\ EndOfLine => (pc' = "read" /\ cells' = names => NoQuotes(names))
      BY <1>2, <2>3, <2>4, <3>1, <3>2, LateSteps
    <3>4. \E first : Layout(names, s, first)
      BY <2>2, <2>3, WrittenFacts
    <3>5. CASE NoMoreColumns
      BY <3>5 DEF NoMoreColumns, Stop
    <3>6. CASE EndOfLine
      <4>1. pc' # "reading"
        BY <3>6 DEF EndOfLine, Stop
      <4> QED
        BY <2>1, <2>3, <3>3, <3>4, <3>6, <4>1
    <3>7. CASE ReadEscapedQuote \/ ReadQuote \/ ReadComma \/ ReadCharacter
      <4>1. pc' # "read"
        BY <3>1, <3>7 DEF ReadEscapedQuote, ReadQuote, ReadComma, ReadCharacter, Stop, Take
      <4>2. pc' = "reading" => i' <= Len(s) /\ \A first : Layout(names, s, first) => Late(names, first)'
        BY <3>3, <3>4, <3>7
      <4>3. line' = s /\ Names' = names
        BY <2>1, <2>3, <3>1
      <4>4. ASSUME pc' = "reading"
            PROVE  \A first : Layout(Names', line', first) => Late(Names, first)'
        BY <4>2, <4>3, <4>4 DEF Late
      <4> QED
        BY <4>1, <4>2, <4>3, <4>4
    <3> QED
      BY <3>1, <3>5, <3>6, <3>7
  <2> QED
    BY <1>2, <2>5, <2>6, <2>7
<1> QED
  BY <1>1, <1>2

(* The header that the first INSERT writes is the one the second finds     *)
(* exactly if no column name holds a quote.                                *)
THEOREM HeadersReadBackCorrect == Spec => []HeadersReadBack
<1>1. ASSUME TypeOK, RowInv, LateInv PROVE HeadersReadBack
  <2> SUFFICES ASSUME pc \in Over, source.kind = "header", Fits(source.cells),
                      Len(HeaderBytes(source.cells)) <= LineMax
               PROVE  pc = "read" /\ cells = source.cells <=> NoQuotes(source.cells)
    BY DEF HeadersReadBack, NoQuotes
  <2>1. Whole /\ Written = HeaderBytes(source.cells)
    BY DEF Whole, Written, Names
  <2>2. Known /\ line = HeaderBytes(source.cells)
    BY <1>1, <2>1 DEF RowInv
  <2>3. Len(line) \in Nat /\ LineMax \in Nat
    BY <2>1, <2>2, WrittenFacts, LineAssumption DEF LineOf
  <2>4. ASSUME NoQuotes(source.cells) PROVE pc = "read" /\ cells = source.cells
    <3>1. Faithful
      BY <2>1, <2>4 DEF Faithful, Names
    <3>2. /\ pc = "read" => cells = source.cells
          /\ pc = "refused" => Len(line) > LineMax
      BY <1>1, <3>1 DEF RowInv, Names
    <3> QED
      BY <2>2, <2>3, <3>2 DEF Over
  <2>5. ASSUME pc = "read", cells = source.cells PROVE NoQuotes(source.cells)
    BY <1>1, <2>1, <2>5 DEF LateInv, Names
  <2> QED
    BY <2>4, <2>5
<1>2. Init => TypeOK /\ NothingYet /\ RowInv /\ LateInv
  BY TypeInductive, RowInductive, LateInductive
<1>3. TypeOK /\ NothingYet /\ RowInv /\ LateInv /\ [Next]_vars
        => (TypeOK /\ NothingYet /\ RowInv /\ LateInv)'
  BY TypeInductive, RowInductive, LateInductive
<1> QED
  BY <1>1, <1>2, <1>3, PTL DEF Spec

-----------------------------------------------------------------------------
(* Where a line is split                                                   *)
-----------------------------------------------------------------------------
QuotesIn(s, n) == Cardinality({k \in 1 .. n : s[k] = Quote})
Splits(s, n) == s[n] = Comma /\ QuotesIn(s, n) % 2 = 0
SplitsBefore(s, n) == {k \in 1 .. n - 1 : Splits(s, k)}
(* The number of the cell that starts behind e.                            *)
Rank(P, e) == Cardinality({d \in {0} \cup P : d <= e})

LEMMA QuotesNext ==
    ASSUME NEW s, NEW n \in Nat
    PROVE  /\ QuotesIn(s, n) \in Nat /\ QuotesIn(s, 0) = 0
           /\ s[n + 1] = Quote => QuotesIn(s, n + 1) = QuotesIn(s, n) + 1
           /\ s[n + 1] # Quote => QuotesIn(s, n + 1) = QuotesIn(s, n)
<1> DEFINE Q(m) == {k \in 1 .. m : s[k] = Quote}
<1>1. \A m : QuotesIn(s, m) = Cardinality(Q(m))
  BY DEF QuotesIn
<1>2. Q(0) = {}
  BY 1 .. 0 = {}
<1>3. /\ s[n + 1] = Quote => Q(n + 1) = Q(n) \cup {n + 1}
      /\ s[n + 1] # Quote => Q(n + 1) = Q(n)
  <2>1. 1 .. n + 1 = (1 .. n) \cup {n + 1}
    OBVIOUS
  <2> QED
    BY <2>1
<1>4. n + 1 \notin Q(n)
  OBVIOUS
<1>5. IsFiniteSet(Q(n))
  <2>1. PICK I : I = 1 .. n /\ IsFiniteSet(I)
    BY FS_Interval
  <2>2. Q(n) \in SUBSET I
    BY <2>1
  <2> HIDE DEF Q
  <2> QED
    BY <2>1, <2>2, FS_Subset
<1> HIDE DEF Q
<1>6. Cardinality(Q(n)) \in Nat /\ Cardinality(Q(0)) = 0
  BY <1>2, <1>5, FS_CardinalityType, FS_EmptySet
<1>7. Cardinality(Q(n) \cup {n + 1}) = Cardinality(Q(n)) + 1
  BY <1>4, <1>5, FS_AddElement
<1> QED
  BY <1>1, <1>3, <1>6, <1>7

LEMMA RankFacts ==
    ASSUME NEW n \in Nat \ {0}, NEW P \in SUBSET (1 .. n - 1), NEW e \in {0} \cup P
    PROVE  /\ Cardinality(P) \in Nat /\ Cardinality({0} \cup P) = Cardinality(P) + 1
           /\ Cardinality(P \cup {n}) = Cardinality(P) + 1
           /\ Rank(P, e) \in 1 .. Cardinality(P) + 1
           /\ (\E f \in P : e < f) => Rank(P, e) \in 1 .. Cardinality(P)
           /\ (\A d \in P : d <= e) => Rank(P, e) = Cardinality(P) + 1
           /\ Rank(P \cup {n}, e) = Rank(P, e)
<1> DEFINE A == {0} \cup P
           R == {d \in A : d <= e}
<1>1. IsFiniteSet(P) /\ Cardinality(P) \in Nat
  <2>1. PICK I : I = 1 .. n - 1 /\ IsFiniteSet(I)
    BY FS_Interval
  <2> QED
    BY <2>1, FS_Subset, FS_CardinalityType
<1>2. \A d \in P : d \in Nat /\ d < n /\ d # 0
  OBVIOUS
<1>3. 0 \notin P /\ n \notin P
  BY <1>2
<1>4. /\ IsFiniteSet(A) /\ Cardinality(A) = Cardinality(P) + 1
      /\ Cardinality(P \cup {n}) = Cardinality(P) + 1
  <2>1. A = P \cup {0}
    OBVIOUS
  <2> QED
    BY <1>1, <1>3, <2>1, FS_AddElement
<1>5. \A d \in A : d \in Nat /\ d < n
  BY <1>2
<1>6. e \in R
  BY <1>5
<1>7. /\ R \in SUBSET A /\ Rank(P, e) = Cardinality(R)
      /\ Rank(P \cup {n}, e) = Cardinality({d \in A \cup {n} : d <= e})
  <2>1. {0} \cup (P \cup {n}) = A \cup {n}
    OBVIOUS
  <2> QED
    BY <2>1 DEF Rank
<1>8. {d \in A \cup {n} : d <= e} = R
  <2>1. ~(n <= e)
    BY <1>5
  <2> QED
    BY <2>1
<1>9. (\A d \in P : d <= e) => R = A
  <2>1. 0 <= e
    BY <1>5
  <2> QED
    BY <2>1
<1>10. \A f \in P : e < f => f \in A /\ f \notin R
  BY <1>5
<1> HIDE DEF A, R
<1>11. IsFiniteSet(R) /\ Cardinality(R) \in Nat /\ Cardinality(R) <= Cardinality(A) /\ Cardinality(R) # 0
  BY <1>4, <1>6, <1>7, FS_Subset, FS_CardinalityType, FS_EmptySet
<1>12. ASSUME NEW f \in P, e < f PROVE Cardinality(R) + 1 <= Cardinality(A)
  <2>1. f \notin R /\ R \cup {f} \in SUBSET A
    BY <1>7, <1>10, <1>12
  <2>2. Cardinality(R \cup {f}) = Cardinality(R) + 1
    BY <1>11, <2>1, FS_AddElement
  <2> QED
    BY <1>4, <2>1, <2>2, FS_Subset
<1>13. PICK a, p, r : a = Cardinality(A) /\ p = Cardinality(P) /\ r = Cardinality(R)
  OBVIOUS
<1>14. /\ a = p + 1 /\ p \in Nat /\ r \in Nat /\ r <= a /\ r # 0
       /\ (\E f \in P : e < f) => r + 1 <= a
       /\ (\A d \in P : d <= e) => r = a
  BY <1>1, <1>4, <1>9, <1>11, <1>12, <1>13
<1>15. r \in 1 .. p + 1 /\ (r + 1 <= a => r \in 1 .. p)
  BY <1>14
<1> QED
  BY <1>4, <1>7, <1>8, <1>13, <1>14, <1>15 DEF A

LEMMA RankInside ==
    ASSUME NEW n \in Nat \ {0}, NEW P \in SUBSET (1 .. n - 1), NEW e \in {0} \cup P,
           NEW f \in P, e < f
    PROVE  Rank(P, e) \in 1 .. Cardinality(P)
BY RankFacts

LEMMA RankLast ==
    ASSUME NEW n \in Nat \ {0}, NEW P \in SUBSET (1 .. n - 1), NEW e \in {0} \cup P,
           \A d \in P : d <= e
    PROVE  Rank(P, e) = Cardinality(P) + 1
BY RankFacts

LEMMA RankNext ==
    ASSUME NEW n \in Nat \ {0}, NEW P \in SUBSET (1 .. n - 1), NEW e \in {0} \cup P
    PROVE  Rank(P \cup {n}, e) = Rank(P, e)
BY RankFacts

LEMMA SubSeqNext ==
    ASSUME NEW S, NEW s \in Seq(S), NEW n \in 1 .. Len(s), NEW e \in 0 .. n - 1
    PROVE  /\ SubSeq(s, e + 1, n) = Append(SubSeq(s, e + 1, n - 1), s[n])
           /\ SubSeq(s, e + 1, n - 1) \in Seq(S) /\ s[n] \in S
<1> DEFINE whole == SubSeq(s, e + 1, n)
           part == SubSeq(s, e + 1, n - 1)
           right == Append(part, s[n])
<1>1. Len(s) \in Nat /\ n \in Nat /\ e \in Nat /\ e < n /\ n <= Len(s)
  BY LenProperties
<1>2. s[n] \in S /\ \A k \in e + 1 .. n : s[k] \in S
  BY <1>1, ElementOfSeq
<1>3. /\ whole \in Seq(S) /\ Len(whole) = n - e
      /\ \A k \in 1 .. n - e : whole[k] = s[e + k]
  <2>1. Len(whole) = n - e
    BY <1>1
  <2> QED
    BY <1>1, <1>2, <2>1, SubSeqProperties
<1>4. /\ part \in Seq(S) /\ Len(part) = n - 1 - e
      /\ \A k \in 1 .. n - 1 - e : part[k] = s[e + k]
  <2>1. Len(part) = n - 1 - e
    BY <1>1
  <2> QED
    BY <1>1, <1>2, <2>1, SubSeqProperties
<1> HIDE DEF whole, part
<1>5. /\ right \in Seq(S) /\ Len(right) = n - 1 - e + 1 /\ right[n - 1 - e + 1] = s[n]
      /\ \A k \in 1 .. n - 1 - e : right[k] = part[k]
  BY <1>2, <1>4, AppendProperties
<1>6. ASSUME NEW k \in 1 .. n - e PROVE whole[k] = right[k]
  <2>1. CASE k = n - e
    <3>1. n - 1 - e + 1 = k /\ e + k = n
      BY <1>1, <2>1
    <3> QED
      BY <1>3, <1>5, <3>1
  <2>2. CASE k # n - e
    <3>1. k \in 1 .. n - 1 - e
      BY <1>1, <2>2
    <3> QED
      BY <1>3, <1>4, <1>5, <3>1
  <2> QED
    BY <2>1, <2>2
<1> HIDE DEF right
<1>7. whole = right
  <2>1. n - e = n - 1 - e + 1
    BY <1>1
  <2>2. \A k \in 1 .. Len(whole) : whole[k] = right[k]
    BY <1>3, <1>6
  <2> QED
    BY <1>3, <1>5, <2>1, <2>2, SeqEqual
<1> QED
  BY <1>2, <1>4, <1>7 DEF whole, part, right

LEMMA UnquotedNext ==
    ASSUME NEW S, NEW t \in Seq(S), NEW ch \in S
    PROVE  /\ ch = Quote => Unquoted(Append(t, ch)) = Unquoted(t)
           /\ ch # Quote => Unquoted(Append(t, ch)) = Unquoted(t) \o <<ch>>
<1> DEFINE Kept(c) == IF c = Quote THEN <<>> ELSE <<c>>
           Q(u) == [k \in DOMAIN u |-> Kept(u[k])]
           u2 == Append(t, ch)
<1>1. \A c \in S : Kept(c) \in Seq(S)
  OBVIOUS
<1>2. /\ Len(t) \in Nat /\ DOMAIN t = 1 .. Len(t) /\ \A k \in 1 .. Len(t) : t[k] \in S
  BY LenProperties, ElementOfSeq
<1>3. /\ u2 \in Seq(S) /\ Len(u2) = Len(t) + 1 /\ u2[Len(t) + 1] = ch
      /\ \A k \in 1 .. Len(t) : u2[k] = t[k]
  BY AppendProperties
<1>4. DOMAIN u2 = 1 .. Len(t) + 1 /\ \A k \in 1 .. Len(t) + 1 : u2[k] \in S
  BY <1>3, LenProperties, ElementOfSeq
<1>5. Unquoted(t) = FlattenSeq(Q(t)) /\ Unquoted(u2) = FlattenSeq(Q(u2))
  BY DEF Unquoted
<1> HIDE DEF Kept, u2
<1>6. Q(t) \in [1 .. Len(t) -> Seq(S)] /\ Q(u2) \in [1 .. Len(t) + 1 -> Seq(S)]
  BY <1>1, <1>2, <1>4
<1>7. PICK q, r : q = Q(t) /\ r = Q(u2)
  OBVIOUS
<1>8. /\ q \in Seq(Seq(S)) /\ Len(q) = Len(t)
      /\ r \in Seq(Seq(S)) /\ Len(r) = Len(t) + 1
  BY <1>2, <1>6, <1>7, FunctionIsSeq
<1>9. /\ \A k \in 1 .. Len(t) : r[k] = q[k]
      /\ r[Len(t) + 1] = Kept(ch)
  <2>1. \A k \in 1 .. Len(t) : k \in 1 .. Len(t) + 1
    BY <1>2
  <2>2. Len(t) + 1 \in 1 .. Len(t) + 1
    BY <1>2
  <2> QED
    BY <1>2, <1>3, <1>4, <1>7, <2>1, <2>2
<1> HIDE DEF Q
<1>10. r = Append(q, Kept(ch))
  <2>1. PICK z : z = Append(q, Kept(ch))
    OBVIOUS
  <2>2. /\ z \in Seq(Seq(S)) /\ Len(z) = Len(t) + 1 /\ z[Len(t) + 1] = Kept(ch)
        /\ \A k \in 1 .. Len(t) : z[k] = q[k]
    BY <1>1, <1>8, <2>1, AppendProperties
  <2>3. \A k \in 1 .. Len(r) : r[k] = z[k]
    <3>1. \A k \in 1 .. Len(r) : k \in 1 .. Len(t) \/ k = Len(t) + 1
      BY <1>2, <1>8
    <3> QED
      BY <1>9, <2>2, <3>1
  <2> QED
    BY <1>8, <2>1, <2>2, <2>3, SeqEqual
<1>11. FlattenSeq(r) = FlattenSeq(q) \o Kept(ch)
  BY <1>1, <1>8, <1>10, FlattenAppend
<1>12. FlattenSeq(q) \o <<>> = FlattenSeq(q)
  <2>1. FlattenSeq(q) \in Seq(S)
    <3>1. CASE q = <<>>
      BY <3>1 DEF FlattenSeq
    <3>2. CASE q # <<>>
      BY <1>8, <3>2, FlattenPlaces
    <3> QED
      BY <3>1, <3>2
  <2> QED
    BY <2>1, ConcatEmptySeq
<1>13. Unquoted(u2) = Unquoted(t) \o Kept(ch)
  BY <1>5, <1>7, <1>11
<1> QED
  BY <1>5, <1>7, <1>12, <1>13 DEF Kept, u2

(* What is in the cells c and in the one begun, t, stands in the line s    *)
(* between the commas that split it, up to the character n.                *)
BetweenThose(P, s, n, c, t) ==
    /\ Len(c) = Cardinality(P)
    /\ \A e \in {0} \cup P, f \in P :
          e < f /\ (\A d \in P : d <= e \/ f <= d) =>
             Unquoted(c[Rank(P, e)]) = Unquoted(SubSeq(s, e + 1, f - 1))
    /\ \A e \in {0} \cup P :
          (\A d \in P : d <= e) => Unquoted(t) = Unquoted(SubSeq(s, e + 1, n - 1))
Between(s, n, c, t) == BetweenThose(SplitsBefore(s, n), s, n, c, t)

LEMMA SplitsNext ==
    ASSUME NEW s, NEW n \in Nat \ {0}
    PROVE  /\ SplitsBefore(s, n) \in SUBSET (1 .. n - 1)
           /\ Splits(s, n) => SplitsBefore(s, n + 1) = SplitsBefore(s, n) \cup {n}
           /\ ~Splits(s, n) => SplitsBefore(s, n + 1) = SplitsBefore(s, n)
<1>1. 1 .. n + 1 - 1 = (1 .. n - 1) \cup {n}
  OBVIOUS
<1>2. SplitsBefore(s, n) \in SUBSET (1 .. n - 1)
  BY DEF SplitsBefore
<1>3. \A k : k \in SplitsBefore(s, n + 1) <=> (k \in 1 .. n - 1 \/ k = n) /\ Splits(s, k)
  <2>1. \A k : k \in 1 .. n + 1 - 1 <=> k \in 1 .. n - 1 \/ k = n
    OBVIOUS
  <2>2. PICK m : m = n + 1 - 1
    OBVIOUS
  <2>3. SplitsBefore(s, n + 1) = {k \in 1 .. m : Splits(s, k)}
    BY <2>2 DEF SplitsBefore
  <2>4. \A k : k \in 1 .. m <=> k \in 1 .. n - 1 \/ k = n
    BY <2>1, <2>2
  <2> QED
    BY <2>3, <2>4, Zenon
<1>4. \A k : k \in SplitsBefore(s, n) <=> k \in 1 .. n - 1 /\ Splits(s, k)
  BY Zenon DEF SplitsBefore
<1>5. Splits(s, n) => SplitsBefore(s, n + 1) = SplitsBefore(s, n) \cup {n}
  BY <1>3, <1>4, Zenon
<1>6. ~Splits(s, n) => SplitsBefore(s, n + 1) = SplitsBefore(s, n)
  BY <1>3, <1>4, Zenon
<1> QED
  BY <1>2, <1>5, <1>6

(* A character that splits nothing is added to the cell begun.             *)
LEMMA BetweenGrows ==
    ASSUME NEW S, NEW s \in Seq(S), NEW n \in 1 .. Len(s), ~Splits(s, n),
           NEW c, NEW t, NEW u, Between(s, n, c, t),
           s[n] = Quote => Unquoted(u) = Unquoted(t),
           s[n] # Quote => Unquoted(u) = Unquoted(t) \o <<s[n]>>
    PROVE  Between(s, n + 1, c, u)
<1> DEFINE P == SplitsBefore(s, n)
<1>1. n \in Nat \ {0} /\ P \in SUBSET (1 .. n - 1) /\ SplitsBefore(s, n + 1) = P
  BY SplitsNext, LenProperties
<1>2. /\ Len(c) = Cardinality(P)
      /\ \A e \in {0} \cup P, f \in P :
            e < f /\ (\A d \in P : d <= e \/ f <= d) =>
               Unquoted(c[Rank(P, e)]) = Unquoted(SubSeq(s, e + 1, f - 1))
      /\ \A e \in {0} \cup P :
            (\A d \in P : d <= e) => Unquoted(t) = Unquoted(SubSeq(s, e + 1, n - 1))
  BY DEF Between, BetweenThose
<1> HIDE DEF P
<1>3. ASSUME NEW e \in {0} \cup P, \A d \in P : d <= e
      PROVE  Unquoted(u) = Unquoted(SubSeq(s, e + 1, n + 1 - 1))
  <2>1. e \in 0 .. n - 1 /\ n + 1 - 1 = n
    BY <1>1
  <2>2. PICK v : v = SubSeq(s, e + 1, n - 1)
    OBVIOUS
  <2>3. SubSeq(s, e + 1, n) = Append(v, s[n]) /\ v \in Seq(S) /\ s[n] \in S
    BY <2>1, <2>2, SubSeqNext
  <2>4. Unquoted(t) = Unquoted(v)
    BY <1>2, <1>3, <2>2
  <2>5. /\ s[n] = Quote => Unquoted(Append(v, s[n])) = Unquoted(v)
        /\ s[n] # Quote => Unquoted(Append(v, s[n])) = Unquoted(v) \o <<s[n]>>
    BY <2>3, UnquotedNext
  <2> QED
    BY <2>1, <2>3, <2>4, <2>5
<1>4. BetweenThose(P, s, n + 1, c, u)
  BY <1>2, <1>3 DEF BetweenThose
<1> QED
  BY <1>1, <1>4 DEF Between

(* A comma that splits ends the cell begun.                                *)
LEMMA BetweenSplits ==
    ASSUME NEW S, NEW s \in Seq(S), NEW n \in 1 .. Len(s), Splits(s, n),
           NEW C, NEW c \in Seq(C), NEW t \in C, Between(s, n, c, t)
    PROVE  Between(s, n + 1, Append(c, t), <<>>)
<1> DEFINE P == SplitsBefore(s, n)
           more == Append(c, t)
<1>1. n \in Nat \ {0} /\ P \in SUBSET (1 .. n - 1) /\ SplitsBefore(s, n + 1) = P \cup {n}
  BY SplitsNext, LenProperties
<1>2. /\ Len(c) = Cardinality(P)
      /\ \A e \in {0} \cup P, f \in P :
            e < f /\ (\A d \in P : d <= e \/ f <= d) =>
               Unquoted(c[Rank(P, e)]) = Unquoted(SubSeq(s, e + 1, f - 1))
      /\ \A e \in {0} \cup P :
            (\A d \in P : d <= e) => Unquoted(t) = Unquoted(SubSeq(s, e + 1, n - 1))
  BY DEF Between, BetweenThose
<1>3. /\ more \in Seq(C) /\ Len(more) = Len(c) + 1 /\ more[Len(c) + 1] = t
      /\ \A k \in 1 .. Len(c) : more[k] = c[k]
  BY AppendProperties
<1> HIDE DEF P, more
<1>4. \A d \in P : d \in Nat /\ d < n
  BY <1>1
<1>5. Cardinality(P) \in Nat /\ Cardinality(P \cup {n}) = Cardinality(P) + 1
  BY <1>1, RankFacts
<1>6. ASSUME NEW e \in {0} \cup (P \cup {n}), NEW f \in P \cup {n}, e < f,
             \A d \in P \cup {n} : d <= e \/ f <= d
      PROVE  Unquoted(more[Rank(P \cup {n}, e)]) = Unquoted(SubSeq(s, e + 1, f - 1))
  <2>1. e \in {0} \cup P
    <3>1. e # n
      BY <1>4, <1>6
    <3> QED
      BY <3>1
  <2>2. Rank(P \cup {n}, e) = Rank(P, e)
    BY <1>1, <2>1, RankNext
  <2>3. CASE f \in P
    <3>1. \A d \in P : d <= e \/ f <= d
      BY <1>6
    <3>2. Rank(P, e) \in 1 .. Len(c)
      <4>1. Rank(P, e) \in 1 .. Cardinality(P)
        BY <1>1, <1>6, <2>1, <2>3, RankInside
      <4> QED
        BY <1>2, <4>1
    <3>3. more[Rank(P, e)] = c[Rank(P, e)]
      BY <1>3, <3>2
    <3> QED
      BY <1>2, <1>6, <2>1, <2>2, <2>3, <3>1, <3>3
  <2>4. CASE f = n
    <3>1. \A d \in P : d <= e
      BY <1>4, <1>6, <2>4
    <3>2. Rank(P, e) = Len(c) + 1
      <4>1. Rank(P, e) = Cardinality(P) + 1
        BY <1>1, <2>1, <3>1, RankLast
      <4> QED
        BY <1>2, <4>1
    <3>3. Unquoted(t) = Unquoted(SubSeq(s, e + 1, n - 1))
      BY <1>2, <2>1, <3>1
    <3> QED
      BY <1>3, <2>2, <2>4, <3>2, <3>3
  <2> QED
    BY <2>3, <2>4
<1>7. ASSUME NEW e \in {0} \cup (P \cup {n}), \A d \in P \cup {n} : d <= e
      PROVE  Unquoted(<<>>) = Unquoted(SubSeq(s, e + 1, n + 1 - 1))
  <2>1. e = n
    <3>1. n <= e
      BY <1>7
    <3> QED
      BY <1>1, <1>4, <3>1
  <2>2. SubSeq(s, n + 1, n + 1 - 1) = <<>>
    <3>1. n + 1 - 1 = n /\ n + 1 \in Int /\ n \in Int /\ n + 1 > n
      BY <1>1
    <3> QED
      BY <3>1, SubSeqEmpty
  <2> QED
    BY <2>1, <2>2
<1>8. Len(more) = Cardinality(P \cup {n})
  BY <1>2, <1>3, <1>5
<1>9. PICK P2 : P2 = P \cup {n}
  OBVIOUS
<1>10. BetweenThose(P2, s, n + 1, more, <<>>)
  <2>1. Len(more) = Cardinality(P2)
    BY <1>8, <1>9
  <2>2. \A e \in {0} \cup P2, f \in P2 :
            e < f /\ (\A d \in P2 : d <= e \/ f <= d) =>
               Unquoted(more[Rank(P2, e)]) = Unquoted(SubSeq(s, e + 1, f - 1))
    BY <1>6, <1>9, Zenon
  <2>3. \A e \in {0} \cup P2 :
            (\A d \in P2 : d <= e) =>
               Unquoted(<<>>) = Unquoted(SubSeq(s, e + 1, n + 1 - 1))
    BY <1>7, <1>9, Zenon
  <2> QED
    BY <2>1, <2>2, <2>3 DEF BetweenThose
<1> QED
  BY <1>1, <1>9, <1>10 DEF Between, more

(* Nothing is in the cells of a line of which nothing was read.            *)
LEMMA BetweenNothing ==
    ASSUME NEW s
    PROVE  Between(s, 1, <<>>, <<>>)
<1>1. SplitsBefore(s, 1) = {} /\ 1 .. 1 - 1 = {}
  BY DEF SplitsBefore
<1>2. Cardinality({}) = 0 /\ Len(<<>>) = 0
  BY FS_EmptySet
<1>3. SubSeq(s, 0 + 1, 1 - 1) = <<>>
  BY SubSeqEmpty
<1> QED
  BY <1>1, <1>2, <1>3 DEF Between, BetweenThose

(* The cells with the one begun are those between the commas.              *)
Parted(P, s, n, all) ==
    /\ Len(all) = Cardinality({0} \cup P)
    /\ \A e \in {0} \cup P, f \in P \cup {n} :
          e < f /\ (\A d \in P \cup {n} : d <= e \/ f <= d) =>
             Unquoted(all[Rank(P, e)]) = Unquoted(SubSeq(s, e + 1, f - 1))

LEMMA BetweenAll ==
    ASSUME NEW s, NEW n \in Nat \ {0}, NEW C, NEW c \in Seq(C), NEW t \in C, Between(s, n, c, t)
    PROVE  Parted(SplitsBefore(s, n), s, n, Append(c, t))
<1> DEFINE P == SplitsBefore(s, n)
           all == Append(c, t)
<1>1. P \in SUBSET (1 .. n - 1)
  BY SplitsNext
<1>2. /\ Len(c) = Cardinality(P)
      /\ \A e \in {0} \cup P, f \in P :
            e < f /\ (\A d \in P : d <= e \/ f <= d) =>
               Unquoted(c[Rank(P, e)]) = Unquoted(SubSeq(s, e + 1, f - 1))
      /\ \A e \in {0} \cup P :
            (\A d \in P : d <= e) => Unquoted(t) = Unquoted(SubSeq(s, e + 1, n - 1))
  BY DEF Between, BetweenThose
<1>3. /\ Len(all) = Len(c) + 1 /\ all[Len(c) + 1] = t
      /\ \A k \in 1 .. Len(c) : all[k] = c[k]
  BY AppendProperties
<1> HIDE DEF P, all
<1>4. \A d \in P : d \in Nat /\ d < n
  BY <1>1
<1>5. Len(all) = Cardinality({0} \cup P)
  BY <1>1, <1>2, <1>3, RankFacts
<1>6. ASSUME NEW e \in {0} \cup P, NEW f \in P \cup {n}, e < f,
             \A d \in P \cup {n} : d <= e \/ f <= d
      PROVE  Unquoted(all[Rank(P, e)]) = Unquoted(SubSeq(s, e + 1, f - 1))
  <2>1. CASE f \in P
    <3>1. \A d \in P : d <= e \/ f <= d
      BY <1>6
    <3>2. Rank(P, e) \in 1 .. Len(c)
      <4>1. Rank(P, e) \in 1 .. Cardinality(P)
        BY <1>1, <1>6, <2>1, RankInside
      <4> QED
        BY <1>2, <4>1
    <3>3. all[Rank(P, e)] = c[Rank(P, e)]
      BY <1>3, <3>2
    <3> QED
      BY <1>2, <1>6, <2>1, <3>1, <3>3
  <2>2. CASE f = n
    <3>1. \A d \in P : d <= e
      BY <1>4, <1>6, <2>2
    <3>2. Rank(P, e) = Len(c) + 1
      <4>1. Rank(P, e) = Cardinality(P) + 1
        BY <1>1, <3>1, RankLast
      <4> QED
        BY <1>2, <4>1
    <3> QED
      BY <1>2, <1>3, <2>2, <3>1, <3>2
  <2> QED
    BY <2>1, <2>2
<1> QED
  BY <1>5, <1>6 DEF Parted, P, all

-----------------------------------------------------------------------------
(* Reading any line                                                        *)
-----------------------------------------------------------------------------
LEMMA LineWritten == Init => line \in Text /\ Known
<1> SUFFICES ASSUME Init PROVE line \in Text /\ Known
  OBVIOUS
<1>1. CASE source = Foreign /\ line \in ForeignLines
  BY <1>1, LineAssumption DEF Known
<1>2. CASE ~(source = Foreign /\ line \in ForeignLines)
  <2>1. /\ Known
        /\ \/ Names \in RowSources /\ line = WriteRow(Names)
           \/ Names \in HeaderSources /\ line = HeaderBytes(Names)
    BY <1>2 DEF Init, Known, Names, Rows, Headers
  <2>2. Names \in Seq(Seq(Inner))
    <3> DEFINE Bare == Piece \ (LineEnds \cup {Comma})
    <3>1. RowSources \subseteq Seq(Seq(Inner)) /\ HeaderSources \subseteq Seq(Seq(Bare))
      BY LineAssumption DEF Inner
    <3>2. Bare \subseteq Inner
      BY DEF Inner
    <3> HIDE DEF Bare
    <3>3. Seq(Seq(Bare)) \subseteq Seq(Seq(Inner))
      BY <3>2, SeqMonotonic
    <3> QED
      BY <2>1, <3>1, <3>3
  <2>3. CASE Names = <<>>
    <3>1. /\ [k \in DOMAIN Names |-> WriteField(Names[k])] = <<>>
          /\ \A q : q = <<>> => Joined(q) = FlattenSeq(<<>>)
      BY <2>3 DEF Joined
    <3>2. FlattenSeq(<<>>) = <<>>
      BY DEF FlattenSeq
    <3>3. line = <<>> \o <<Newline>>
      BY <2>1, <2>3, <3>1, <3>2 DEF WriteRow, HeaderBytes
    <3>4. Newline \in Piece
      BY LineAssumption DEF LineEnds
    <3> QED
      BY <2>1, <3>3, <3>4 DEF Text
  <2>4. CASE Names # <<>>
    <3>1. LineOf(WriteRow(Names))
      BY <2>2, <2>4, RowLaidOut
    <3>2. LineOf(HeaderBytes(Names))
      BY <2>2, <2>4, JoinedLayout DEF HeaderBytes
    <3> QED
      BY <2>1, <3>1, <3>2 DEF LineOf
  <2> QED
    BY <2>3, <2>4
<1> QED
  BY <1>1, <1>2

LEMMA LineFetched ==
    ASSUME line \in Text, FetchLine
    PROVE  /\ line' \in Text /\ UNCHANGED <<i, in_quotes, cells, text>>
           /\ pc = "fetch" /\ pc' # "read"
<1> DEFINE I == {k \in 1 .. Len(line) : line[k] = Newline}
           upto == SelectInSeq(line, LAMBDA ch : ch = Newline)
           got == IF upto = 0 THEN Len(line) ELSE upto
<1>1. Len(line) \in Nat
  BY LenProperties DEF Text
<1>2. upto = IF I # {} THEN Min(I) ELSE 0
  BY DEF SelectInSeq
<1>3. upto \in 0 .. Len(line)
  <2>1. CASE I = {}
    BY <1>1, <1>2, <2>1
  <2>2. CASE I # {}
    <3>1. I \in SUBSET Nat
      BY <1>1
    <3>2. upto = Min(I)
      BY <1>2, <2>2
    <3>3. Min(I) \in I
      BY <2>2, <3>1, MinProperties
    <3>4. upto \in I
      BY <3>2, <3>3
    <3> HIDE DEF upto
    <3> QED
      BY <1>1, <3>4
  <2> QED
    BY <2>1, <2>2
<1> HIDE DEF upto
<1>4. got \in 0 .. Len(line)
  BY <1>1, <1>3
<1>5. /\ pc = "fetch"
      /\ IF got > LineMax \/ (got = LineMax /\ line[got] # Newline)
         THEN Stop("refused")
         ELSE /\ line' = SubSeq(line, 1, got) /\ pc' = "reading"
              /\ UNCHANGED <<source, i, in_quotes, cells, text>>
  BY DEF FetchLine, upto
<1> HIDE DEF got
<1>6. SubSeq(line, 1, got) \in Text
  <2>1. \A k \in 1 .. got : line[k] \in Piece
    BY <1>1, <1>4, ElementOfSeq DEF Text
  <2>2. got \in Int
    BY <1>4
  <2> QED
    BY <2>1, <2>2, SubSeqProperties DEF Text
<1> QED
  BY <1>5, <1>6 DEF Stop

QuotesAgree ==
    \/ in_quotes /\ QuotesIn(line, i - 1) % 2 = 1
    \/ ~in_quotes /\ QuotesIn(line, i - 1) % 2 = 0

SplitInv ==
    /\ line \in Text
    /\ pc = "fetch" => i = 1 /\ ~in_quotes /\ cells = <<>> /\ text = <<>>
    /\ i <= Len(line) + 1 /\ QuotesAgree
    /\ pc # "read" => Between(line, i, cells, text)
    /\ pc = "read" => \E c \in Seq(Cell), t \in Cell :
                        cells = Append(c, t) /\ Between(line, i, c, t)

LEMMA Parity ==
    ASSUME NEW q \in Nat
    PROVE  /\ q % 2 = 1 <=> (q + 1) % 2 = 0
           /\ q % 2 = 0 <=> (q + 1) % 2 = 1
           /\ q % 2 = 1 <=> (q + 2) % 2 = 1
           /\ q % 2 = 0 <=> (q + 2) % 2 = 0
           /\ 0 % 2 = 0
OBVIOUS

(* What stands before a character that is read.                            *)
LEMMA AtCharacter ==
    ASSUME TypeOK, SplitInv, pc = "reading", ~AtEnd
    PROVE  /\ i \in 1 .. Len(line) /\ i + 1 <= Len(line) + 1 /\ Len(line) \in Nat
           /\ QuotesIn(line, i - 1) \in Nat /\ QuotesIn(line, i + 1 - 1) = QuotesIn(line, i)
           /\ line[i] = Quote => QuotesIn(line, i) = QuotesIn(line, i - 1) + 1
           /\ line[i] # Quote => QuotesIn(line, i) = QuotesIn(line, i - 1)
           /\ Comma # Quote /\ Between(line, i, cells, text)
<1>1. i \in DOMAIN line /\ Len(line) \in Nat /\ DOMAIN line = 1 .. Len(line)
  BY LenProperties DEF AtEnd, SplitInv, Text
<1>2. i \in 1 .. Len(line) /\ i - 1 \in Nat /\ i - 1 + 1 = i /\ i + 1 - 1 = i
  BY <1>1
<1>3. Comma # Quote
  BY PiecesApart
<1> QED
  BY <1>1, <1>2, <1>3, QuotesNext DEF SplitInv

LEMMA ReadQuoteSplit ==
    ASSUME TypeOK, SplitInv, ReadQuote
    PROVE  SplitInv'
<1>1. /\ pc = "reading" /\ ~AtEnd /\ line[i] = Quote /\ in_quotes' = ~in_quotes /\ i' = i + 1
      /\ pc' = pc /\ line' = line /\ cells' = cells /\ text' = text
  BY DEF ReadQuote, Reading
<1>2. /\ i \in 1 .. Len(line) /\ i + 1 <= Len(line) + 1 /\ Comma # Quote
      /\ QuotesIn(line, i - 1) \in Nat /\ QuotesIn(line, i + 1 - 1) = QuotesIn(line, i - 1) + 1
      /\ Between(line, i, cells, text)
  BY <1>1, AtCharacter
<1>3. QuotesAgree'
  <2>1. PICK q : q = QuotesIn(line, i - 1) /\ q \in Nat /\ q + 1 = QuotesIn(line', i' - 1)
    BY <1>1, <1>2
  <2>2. (in_quotes /\ q % 2 = 1) \/ (~in_quotes /\ q % 2 = 0)
    BY <2>1 DEF SplitInv, QuotesAgree
  <2>3. (q % 2 = 1 => (q + 1) % 2 = 0) /\ (q % 2 = 0 => (q + 1) % 2 = 1)
    BY <2>1, Parity
  <2>4. (in_quotes' /\ (q + 1) % 2 = 1) \/ (~in_quotes' /\ (q + 1) % 2 = 0)
    BY <1>1, <2>2, <2>3, Zenon
  <2> QED
    BY <2>1, <2>4 DEF QuotesAgree
<1>4. ~Splits(line, i)
  BY <1>1, <1>2 DEF Splits
<1>5. Between(line, i + 1, cells, text)
  BY <1>1, <1>2, <1>4, BetweenGrows DEF SplitInv, Text
<1> QED
  BY <1>1, <1>2, <1>3, <1>5 DEF SplitInv

LEMMA ReadEscapedQuoteSplit ==
    ASSUME TypeOK, SplitInv, ReadEscapedQuote
    PROVE  SplitInv'
<1>1. /\ pc = "reading" /\ ~AtEnd /\ in_quotes /\ line[i] = Quote
      /\ i + 1 <= Len(line) /\ line[i + 1] = Quote
  BY DEF ReadEscapedQuote, Reading, EscapedQuoteAhead
<1>2. /\ i \in 1 .. Len(line) /\ i + 1 <= Len(line) + 1 /\ Len(line) \in Nat /\ Comma # Quote
      /\ QuotesIn(line, i - 1) \in Nat /\ QuotesIn(line, i) = QuotesIn(line, i - 1) + 1
      /\ Between(line, i, cells, text)
  BY <1>1, AtCharacter
<1>3. CASE Room
  <2>1. /\ text' = Append(text, Quote) /\ i' = i + 2
        /\ in_quotes' = in_quotes /\ pc' = pc /\ line' = line /\ cells' = cells
    BY <1>3 DEF ReadEscapedQuote, Take
  <2>2. /\ i + 1 \in 1 .. Len(line) /\ i + 1 + 1 = i + 2 /\ i + 2 <= Len(line) + 1
        /\ i + 2 - 1 = i + 1 /\ i \in Nat
    BY <1>1, <1>2
  <2>3. QuotesIn(line, i + 2 - 1) = QuotesIn(line, i - 1) + 2
    <3>1. QuotesIn(line, i + 1) = QuotesIn(line, i) + 1
      BY <1>1, <2>2, QuotesNext
    <3> QED
      BY <1>2, <2>2, <3>1
  <2>4. QuotesAgree'
    BY <1>1, <1>2, <2>1, <2>3, Parity DEF SplitInv, QuotesAgree
  <2>5. ~Splits(line, i) /\ ~Splits(line, i + 1)
    BY <1>1, <1>2 DEF Splits
  <2>6. Unquoted(Append(text, Quote)) = Unquoted(text)
    <3>1. text \in Seq(Characters) /\ Quote \in Characters
      BY DEF TypeOK, Cell, Characters
    <3> QED
      BY <3>1, UnquotedNext
  <2>7. Between(line, i + 1, cells, Append(text, Quote))
    BY <1>1, <1>2, <2>5, <2>6, BetweenGrows DEF SplitInv, Text
  <2>8. Between(line, i + 1 + 1, cells, Append(text, Quote))
    BY <1>1, <2>2, <2>5, <2>7, BetweenGrows DEF SplitInv, Text
  <2> QED
    BY <1>1, <2>1, <2>2, <2>4, <2>8 DEF SplitInv
<1>4. CASE ~Room
  BY <1>1, <1>4 DEF ReadEscapedQuote, Take, Stop, SplitInv, QuotesAgree
<1> QED
  BY <1>3, <1>4

LEMMA ReadCharacterSplit ==
    ASSUME TypeOK, SplitInv, ReadCharacter
    PROVE  SplitInv'
<1>1. /\ pc = "reading" /\ ~AtEnd /\ line[i] # Quote /\ (line[i] = Comma => in_quotes)
  BY DEF ReadCharacter, Reading
<1>2. /\ i \in 1 .. Len(line) /\ i + 1 <= Len(line) + 1
      /\ QuotesIn(line, i - 1) \in Nat /\ QuotesIn(line, i + 1 - 1) = QuotesIn(line, i)
      /\ QuotesIn(line, i) = QuotesIn(line, i - 1) /\ Between(line, i, cells, text)
  BY <1>1, AtCharacter
<1>3. CASE Room
  <2>1. /\ text' = Append(text, line[i]) /\ i' = i + 1
        /\ in_quotes' = in_quotes /\ pc' = pc /\ line' = line /\ cells' = cells
    BY <1>3 DEF ReadCharacter, Take
  <2>2. QuotesAgree'
    BY <1>1, <1>2, <2>1 DEF SplitInv, QuotesAgree
  <2>3. ~Splits(line, i)
    BY <1>1, <1>2 DEF Splits, SplitInv, QuotesAgree
  <2>4. Unquoted(Append(text, line[i])) = Unquoted(text) \o <<line[i]>>
    <3>1. text \in Seq(Characters) /\ line[i] \in Characters
      BY <1>2, LenProperties DEF TypeOK, Cell, Characters, SplitInv, Text
    <3> QED
      BY <1>1, <3>1, UnquotedNext
  <2>5. Between(line, i + 1, cells, Append(text, line[i]))
    BY <1>1, <1>2, <2>3, <2>4, BetweenGrows DEF SplitInv, Text
  <2> QED
    BY <1>1, <1>2, <2>1, <2>2, <2>5 DEF SplitInv
<1>4. CASE ~Room
  BY <1>1, <1>4 DEF ReadCharacter, Take, Stop, SplitInv, QuotesAgree
<1> QED
  BY <1>3, <1>4

LEMMA ReadCommaSplit ==
    ASSUME TypeOK, SplitInv, ReadComma
    PROVE  SplitInv'
<1>1. /\ pc = "reading" /\ ~AtEnd /\ line[i] = Comma /\ ~in_quotes
      /\ cells' = Append(cells, text) /\ text' = <<>> /\ i' = i + 1
      /\ in_quotes' = in_quotes /\ pc' = pc /\ line' = line
  BY DEF ReadComma, Reading
<1>2. /\ i \in 1 .. Len(line) /\ i + 1 <= Len(line) + 1 /\ Comma # Quote
      /\ QuotesIn(line, i + 1 - 1) = QuotesIn(line, i)
      /\ Between(line, i, cells, text)
  BY <1>1, AtCharacter
<1>3. QuotesIn(line, i) = QuotesIn(line, i - 1)
  BY <1>1, <1>2, AtCharacter
<1>4. QuotesAgree'
  BY <1>1, <1>2, <1>3 DEF SplitInv, QuotesAgree
<1>5. Splits(line, i)
  BY <1>1, <1>3 DEF Splits, SplitInv, QuotesAgree
<1>6. Between(line, i + 1, Append(cells, text), <<>>)
  <2>1. line \in Seq(Piece) /\ cells \in Seq(Cell) /\ text \in Cell
    BY DEF SplitInv, Text, TypeOK
  <2> QED
    BY <1>2, <1>5, <2>1, BetweenSplits
<1> QED
  BY <1>1, <1>2, <1>4, <1>6 DEF SplitInv

LEMMA SplitInductive ==
    /\ Init => SplitInv
    /\ TypeOK /\ SplitInv /\ [Next]_vars => SplitInv'
<1>1. ASSUME Init PROVE SplitInv
  <2>1. /\ pc = "fetch" /\ i = 1 /\ ~in_quotes /\ cells = <<>> /\ text = <<>>
        /\ line \in Text /\ Len(line) \in Nat
    BY <1>1, LineWritten, LenProperties DEF Init, Text
  <2>2. QuotesAgree
    <3>1. QuotesIn(line, i - 1) = 0
      BY <2>1, QuotesNext
    <3> QED
      BY <2>1, <3>1, Parity DEF QuotesAgree
  <2>3. Between(line, 1, <<>>, <<>>)
    BY BetweenNothing
  <2> QED
    BY <2>1, <2>2, <2>3 DEF SplitInv
<1>2. ASSUME TypeOK, SplitInv, [Next]_vars PROVE SplitInv'
  <2>1. CASE FetchLine
    <3>1. /\ line' \in Text /\ Len(line') \in Nat /\ pc = "fetch" /\ pc' # "read"
          /\ i' = i /\ in_quotes' = in_quotes /\ cells' = cells /\ text' = text
      BY <1>2, <2>1, LineFetched, LenProperties DEF SplitInv, Text
    <3>2. i = 1 /\ ~in_quotes /\ cells = <<>> /\ text = <<>>
      BY <1>2, <3>1 DEF SplitInv
    <3>3. QuotesAgree'
      <4>1. QuotesIn(line', i' - 1) = 0
        BY <3>1, <3>2, QuotesNext
      <4> QED
        BY <3>1, <3>2, <4>1, Parity DEF QuotesAgree
    <3>4. Between(line', 1, <<>>, <<>>)
      BY BetweenNothing
    <3> QED
      BY <3>1, <3>2, <3>3, <3>4 DEF SplitInv
  <2>2. CASE NoMoreColumns
    BY <1>2, <2>2 DEF NoMoreColumns, Stop, SplitInv, QuotesAgree
  <2>3. CASE EndOfLine
    <3>1. CASE pc' = "refused"
      BY <1>2, <2>3, <3>1 DEF EndOfLine, Stop, SplitInv, QuotesAgree
    <3>2. CASE pc' # "refused"
      <4>1. /\ pc = "reading" /\ pc' = "read" /\ cells' = Append(cells, text)
            /\ UNCHANGED <<line, i, in_quotes>>
        BY <2>3, <3>2 DEF EndOfLine, Stop
      <4>2. Cell' = Cell /\ cells \in Seq(Cell) /\ text \in Cell
        BY <1>2, <4>1 DEF TypeOK, Cell, Characters
      <4>3. Between(line, i, cells, text)
        BY <1>2, <4>1 DEF SplitInv
      <4>4. QuotesAgree' /\ line' \in Text /\ i' <= Len(line') + 1
        BY <1>2, <4>1 DEF SplitInv, QuotesAgree
      <4>5. \E c \in Seq(Cell'), t \in Cell' :
               cells' = Append(c, t) /\ Between(line', i', c, t)
        BY <4>1, <4>2, <4>3
      <4> QED
        BY <4>1, <4>4, <4>5 DEF SplitInv
    <3> QED
      BY <3>1, <3>2
  <2>4. CASE UNCHANGED vars
    BY <1>2, <2>4 DEF vars, SplitInv, QuotesAgree, Cell, Characters
  <2> QED
    BY <1>2, <2>1, <2>2, <2>3, <2>4, ReadQuoteSplit, ReadEscapedQuoteSplit, ReadCharacterSplit,
       ReadCommaSplit DEF Next
<1> QED
  BY <1>1, <1>2

(* A comma separates cells if and only if an even number of quotes stands  *)
(* before it, and apart from quotes every character before the first line  *)
(* end belongs to the cell it stands in: on every line of every file.      *)
THEOREM CellsCorrect == Spec => []CellsAreBetweenSeparators
<1>1. ASSUME TypeOK, SplitInv PROVE CellsAreBetweenSeparators
  <2> SUFFICES ASSUME pc # "fetch"
               PROVE  LET starts == {0} \cup Separators
                          ends == Separators \cup {i}
                      IN  /\ Len(Begun) = Cardinality(starts)
                          /\ \A e \in starts, f \in ends :
                               e < f /\ (\A d \in ends : d <= e \/ f <= d) =>
                                 Unquoted(Begun[Cardinality({d \in starts : d <= e})])
                                    = Unquoted(SubSeq(line, e + 1, f - 1))
                          /\ (in_quotes <=> Quotes(i - 1) % 2 = 1)
    BY DEF CellsAreBetweenSeparators
  <2>1. /\ Separators = SplitsBefore(line, i) /\ Quotes(i - 1) = QuotesIn(line, i - 1)
        /\ \A e : Cardinality({d \in {0} \cup Separators : d <= e}) = Rank(Separators, e)
    BY DEF Separators, SplitsBefore, Splits, Quotes, QuotesIn, Rank
  <2>2. PICK c \in Seq(Cell), t \in Cell : Begun = Append(c, t) /\ Between(line, i, c, t)
    BY <1>1 DEF SplitInv, Begun, TypeOK
  <2>3. i \in Nat \ {0} /\ in_quotes \in BOOLEAN
    BY <1>1 DEF TypeOK
  <2>4. in_quotes <=> Quotes(i - 1) % 2 = 1
    BY <1>1, <2>1 DEF SplitInv, QuotesAgree
  <2>5. PICK P, all : P = Separators /\ all = Begun
    OBVIOUS
  <2>6. Parted(P, line, i, all)
    <3>1. P = SplitsBefore(line, i) /\ all = Append(c, t)
      BY <2>1, <2>2, <2>5
    <3>2. Parted(SplitsBefore(line, i), line, i, Append(c, t))
      BY <2>2, <2>3, BetweenAll
    <3> QED
      BY <3>1, <3>2
  <2>7. ASSUME NEW e \in {0} \cup P, NEW f \in P \cup {i}, e < f,
               \A d \in P \cup {i} : d <= e \/ f <= d
        PROVE  Unquoted(all[Cardinality({d \in {0} \cup P : d <= e})])
                  = Unquoted(SubSeq(line, e + 1, f - 1))
    BY <2>6, <2>7 DEF Rank, Parted
  <2> QED
    BY <2>4, <2>5, <2>6, <2>7 DEF Parted
<1>2. Init => TypeOK /\ NothingYet /\ SplitInv
  BY TypeInductive, SplitInductive
<1>3. TypeOK /\ NothingYet /\ SplitInv /\ [Next]_vars => (TypeOK /\ NothingYet /\ SplitInv)'
  BY TypeInductive, SplitInductive
<1> QED
  BY <1>1, <1>2, <1>3, PTL DEF Spec
=============================================================================
