--------------------------- MODULE StorageProofs ----------------------------
(***************************************************************************)
(* What the reader of CSV lines makes of the lines the writer wrote, of    *)
(* their first parts and of lines joined to such a part; type correctness  *)
(* of Storage for every instance; on the dependable ones, that the file    *)
(* holds what the INSERTs were told it holds and that the readers see it;  *)
(* what is left of that where writes are cut short or files do not open;   *)
(* where the reads do not fail, that every step of every run is a step of  *)
(* Table or leaves it alone; and that the rows keep their types and a      *)
(* length that can be read.                                                *)
(***************************************************************************)
EXTENDS StorageProps, ExecutorProofs

-----------------------------------------------------------------------------
(* Sets of sequences                                                       *)
-----------------------------------------------------------------------------
(* Induction, for sets of sequences.                                       *)
LEMMA AppendInduction ==
    ASSUME NEW S, NEW T, <<>> \in T,
           \A w \in Seq(S), e \in S : w \in T => Append(w, e) \in T
    PROVE  \A w \in Seq(S) : w \in T
<1> DEFINE N == {n \in Nat : \A w \in Seq(S) : Len(w) = n => w \in T}
<1>1. 0 \in N
  BY EmptySeq
<1>2. ASSUME NEW n \in Nat, n \in N PROVE n + 1 \in N
  <2> SUFFICES ASSUME NEW w \in Seq(S), Len(w) = n + 1 PROVE w \in T
    OBVIOUS
  <2>1. w # <<>>
    BY EmptySeq
  <2>2. PICK v \in Seq(S), e \in S : w = Append(v, e)
    BY <2>1, SequenceEmptyOrAppend
  <2>3. Len(v) = n
    <3>1. Len(w) = Len(v) + 1 /\ Len(v) \in Nat
      BY <2>2, AppendProperties, LenProperties
    <3> QED
      BY <3>1
  <2> QED
    BY <1>2, <2>2, <2>3
<1> HIDE DEF N
<1>3. \A n \in Nat : n \in N
  BY <1>1, <1>2, Induction
<1> QED
  BY <1>3, LenProperties DEF N

-----------------------------------------------------------------------------
(* Reading                                                                 *)
-----------------------------------------------------------------------------
(* The function Scan defines: the states behind n bytes and fewer.         *)
Scans(state, bytes, n, at) ==
    at = [k \in 0 .. n |->
            IF k = 0 THEN state ELSE [<<at[k - 1]>> EXCEPT ![1] = ReadByte(@, bytes[k])][1]]

LEMMA ReadOnce ==
    ASSUME NEW state, NEW ch
    PROVE  [<<state>> EXCEPT ![1] = ReadByte(@, ch)][1] = ReadByte(state, ch)
<1> DEFINE q == <<state>>
<1>1. DOMAIN q = 1 .. 1 /\ q[1] = state
  OBVIOUS
<1> HIDE DEF q
<1>2. 1 \in DOMAIN q
  BY <1>1
<1>3. [q EXCEPT ![1] = ReadByte(q[1], ch)][1] = ReadByte(q[1], ch)
  BY <1>2
<1> QED
  BY <1>1, <1>3 DEF q

LEMMA ScansExists ==
    ASSUME NEW state, NEW bytes
    PROVE  \A n \in Nat : \E at : Scans(state, bytes, n, at)
<1> DEFINE T == {n \in Nat : \E at : Scans(state, bytes, n, at)}
           next(s, k) == [<<s>> EXCEPT ![1] = ReadByte(@, bytes[k])][1]
<1>1. 0 \in T
  <2> DEFINE first == [k \in 0 .. 0 |-> state]
  <2>1. first = [k \in 0 .. 0 |-> IF k = 0 THEN state ELSE next(first[k - 1], k)]
    <3>1. \A k \in 0 .. 0 : k = 0
      OBVIOUS
    <3> QED
      BY <3>1
  <2> HIDE DEF first
  <2>2. Scans(state, bytes, 0, first)
    BY <2>1, Zenon DEF Scans
  <2> QED
    BY <2>2
<1>2. ASSUME NEW n \in Nat, n \in T PROVE n + 1 \in T
  <2>1. PICK g : Scans(state, bytes, n, g)
    BY <1>2
  <2>2. g = [k \in 0 .. n |-> IF k = 0 THEN state ELSE next(g[k - 1], k)]
    BY <2>1, Zenon DEF Scans
  <2> HIDE DEF next
  <2> DEFINE h == [k \in 0 .. n + 1 |-> IF k \in 0 .. n THEN g[k] ELSE next(g[k - 1], k)]
  <2>3. \A k \in 0 .. n : h[k] = g[k] /\ k \in 0 .. n + 1
    OBVIOUS
  <2>4. \A k \in 0 .. n + 1 : k # 0 => k - 1 \in 0 .. n
    OBVIOUS
  <2>5. \A k \in 0 .. n + 1 : h[k] = IF k = 0 THEN state ELSE next(h[k - 1], k)
    <3> TAKE k \in 0 .. n + 1
    <3>1. CASE k \in 0 .. n
      <4>1. g[k] = IF k = 0 THEN state ELSE next(g[k - 1], k)
        BY <2>2, <3>1
      <4> QED
        BY <2>3, <2>4, <3>1, <4>1
    <3>2. CASE k \notin 0 .. n
      <4>1. h[k] = next(g[k - 1], k) /\ k # 0
        BY <3>2
      <4> QED
        BY <2>3, <2>4, <4>1
    <3> QED
      BY <3>1, <3>2
  <2>6. h = [k \in 0 .. n + 1 |-> h[k]]
    OBVIOUS
  <2> HIDE DEF h
  <2>7. h = [k \in 0 .. n + 1 |-> IF k = 0 THEN state ELSE next(h[k - 1], k)]
    BY <2>5, <2>6
  <2>8. Scans(state, bytes, n + 1, h)
    BY <2>7, Zenon DEF Scans, next
  <2> QED
    BY <2>8
<1> HIDE DEF T
<1>3. \A n \in Nat : n \in T
  BY <1>1, <1>2, Induction
<1> QED
  BY <1>3 DEF T

LEMMA ScanSteps ==
    ASSUME NEW state, NEW bytes, Len(bytes) \in Nat
    PROVE  /\ Scan(state, bytes)[0] = state
           /\ \A n \in 1 .. Len(bytes) :
                 Scan(state, bytes)[n] = ReadByte(Scan(state, bytes)[n - 1], bytes[n])
<1> DEFINE at[n \in 0 .. Len(bytes)] ==
              IF n = 0 THEN state ELSE [<<at[n - 1]>> EXCEPT ![1] = ReadByte(@, bytes[n])][1]
<1>1. \E g : Scans(state, bytes, Len(bytes), g)
  BY ScansExists
<1>2. Scans(state, bytes, Len(bytes), at)
  BY <1>1, Zenon DEF Scans, at
<1>3. Scan(state, bytes) = at
  BY DEF Scan
<1> HIDE DEF at
<1>4. \A n \in 0 .. Len(bytes) :
        at[n] = IF n = 0 THEN state ELSE [<<at[n - 1]>> EXCEPT ![1] = ReadByte(@, bytes[n])][1]
  BY <1>2, Zenon DEF Scans
<1>5. \A n \in 0 .. Len(bytes) :
        at[n] = IF n = 0 THEN state ELSE ReadByte(at[n - 1], bytes[n])
  BY <1>4, ReadOnce, Zenon
<1> QED
  BY <1>3, <1>5

LEMMA AfterNone ==
    ASSUME NEW state PROVE After(state, <<>>) = state
<1>1. Len(<<>>) = 0
  OBVIOUS
<1> QED
  BY <1>1, ScanSteps DEF After

LEMMA AfterMore ==
    ASSUME NEW S, NEW w \in Seq(S), NEW ch \in S, NEW state
    PROVE  After(state, Append(w, ch)) = ReadByte(After(state, w), ch)
<1> DEFINE v == Append(w, ch)
           f == Scan(state, v)
           g == Scan(state, w)
<1>1. /\ Len(w) \in Nat /\ Len(v) = Len(w) + 1 /\ v[Len(w) + 1] = ch
      /\ \A k \in 1 .. Len(w) : v[k] = w[k]
  BY AppendProperties, LenProperties
<1>2. f[0] = state /\ \A n \in 1 .. Len(v) : f[n] = ReadByte(f[n - 1], v[n])
  <2>1. Len(v) \in Nat
    BY <1>1
  <2> HIDE DEF v
  <2> QED
    BY <2>1, ScanSteps
<1>3. g[0] = state /\ \A n \in 1 .. Len(w) : g[n] = ReadByte(g[n - 1], w[n])
  BY <1>1, ScanSteps
<1>4. After(state, v) = f[Len(v)] /\ After(state, w) = g[Len(w)]
  BY DEF After
<1> HIDE DEF v, f, g
<1> DEFINE T == {n \in Nat : n <= Len(w) => f[n] = g[n]}
<1>5. 0 \in T
  BY <1>2, <1>3
<1>6. ASSUME NEW n \in Nat, n \in T PROVE n + 1 \in T
  <2> SUFFICES ASSUME n + 1 <= Len(w) PROVE f[n + 1] = g[n + 1]
    OBVIOUS
  <2>1. /\ n + 1 \in 1 .. Len(w) /\ n + 1 \in 1 .. Len(v) /\ (n + 1) - 1 = n /\ n <= Len(w)
    BY <1>1
  <2>2. f[n] = g[n]
    BY <1>6, <2>1
  <2>3. f[n + 1] = ReadByte(f[n], v[n + 1]) /\ g[n + 1] = ReadByte(g[n], w[n + 1])
    BY <1>2, <1>3, <2>1
  <2> QED
    BY <1>1, <2>1, <2>2, <2>3
<1> HIDE DEF T
<1>7. \A n \in Nat : n \in T
  BY <1>5, <1>6, Induction
<1>8. f[Len(w)] = g[Len(w)]
  BY <1>1, <1>7 DEF T
<1>9. f[Len(v)] = ReadByte(f[Len(w)], ch)
  <2>1. Len(v) \in 1 .. Len(v) /\ Len(v) - 1 = Len(w)
    BY <1>1
  <2> QED
    BY <1>1, <1>2, <2>1
<1> QED
  BY <1>4, <1>8, <1>9 DEF v

LEMMA AfterConcat ==
    ASSUME NEW S, NEW v \in Seq(S), NEW w \in Seq(S), NEW state
    PROVE  After(state, v \o w) = After(After(state, v), w)
<1> DEFINE T == {u \in Seq(S) : After(state, v \o u) = After(After(state, v), u)}
<1>1. <<>> \in T
  BY AfterNone, ConcatEmptySeq, EmptySeq
<1>2. ASSUME NEW u \in Seq(S), NEW e \in S, u \in T PROVE Append(u, e) \in T
  <2>1. Append(u, e) \in Seq(S) /\ v \o u \in Seq(S)
    BY AppendProperties, ConcatProperties
  <2>2. v \o Append(u, e) = Append(v \o u, e)
    <3>1. <<e>> \in Seq(S) /\ Append(u, e) = u \o <<e>> /\ Append(v \o u, e) = (v \o u) \o <<e>>
      BY <2>1, AppendIsConcat
    <3> QED
      BY <3>1, ConcatAssociative
  <2>3. After(state, Append(v \o u, e)) = ReadByte(After(state, v \o u), e)
    BY <2>1, AfterMore
  <2>4. After(After(state, v), Append(u, e)) = ReadByte(After(After(state, v), u), e)
    BY AfterMore
  <2> QED
    BY <1>2, <2>1, <2>2, <2>3, <2>4
<1> HIDE DEF T
<1>3. \A u \in Seq(S) : u \in T
  BY <1>1, <1>2, AppendInduction
<1> QED
  BY <1>3 DEF T

ReaderState == [mode : Modes, cells : {c \in Seq(Text) : c # <<>>}]

LEMMA ByteFacts ==
    /\ Comma \in Piece /\ Quote \in Piece /\ Comma # Quote
    /\ Newline \in LineEnds /\ Newline \in Byte /\ Newline \notin Piece
    /\ \A ch \in Byte : ch \in LineEnds <=> ch \notin Piece
    /\ Comma \notin LineEnds /\ Quote \notin LineEnds
    /\ Text \subseteq Seq(Byte)
<1>1. Text \subseteq Seq(Byte)
  BY SeqMonotonic DEF Text, Byte
<1> QED
  BY <1>1, ByteAssumption DEF Comma, Quote, Newline, Return, LineEnds, Byte

LEMMA GrownText ==
    ASSUME NEW cells \in Seq(Text), cells # <<>>, NEW ch \in Piece
    PROVE  /\ Grown(cells, ch) \in Seq(Text) /\ Grown(cells, ch) # <<>>
           /\ Len(Grown(cells, ch)) = Len(cells)
           /\ Grown(cells, ch)[Len(cells)] = Append(cells[Len(cells)], ch)
           /\ \A k \in 1 .. Len(cells) : k # Len(cells) => Grown(cells, ch)[k] = cells[k]
<1> DEFINE e == Append(cells[Len(cells)], ch)
<1>1. Len(cells) \in Nat \ {0} /\ DOMAIN cells = 1 .. Len(cells)
  BY EmptySeq, LenProperties
<1>2. Len(cells) \in 1 .. Len(cells)
  BY <1>1
<1>3. cells[Len(cells)] \in Text
  BY <1>2, ElementOfSeq
<1>4. e \in Text
  BY <1>3, AppendProperties DEF Text
<1>5. PICK new : new = Grown(cells, ch)
  OBVIOUS
<1>6. new = [cells EXCEPT ![Len(cells)] = e]
  BY <1>5 DEF Grown
<1> HIDE DEF e
<1>7. /\ new \in Seq(Text) /\ Len(new) = Len(cells)
      /\ \A j \in 1 .. Len(cells) : new[j] = IF j = Len(cells) THEN e ELSE cells[j]
  BY <1>2, <1>4, <1>6, ExceptSeq
<1>8. new # <<>>
  BY <1>1, <1>7, EmptySeq
<1> QED
  BY <1>1, <1>2, <1>5, <1>7, <1>8 DEF e

LEMMA NextModeType ==
    ASSUME NEW mode \in Modes, NEW ch PROVE NextMode(mode, ch) \in Modes
<1> QED
  BY DEF NextMode, Modes

(* What one byte does to the cells.                                        *)
LEMMA ReadByteFacts ==
    ASSUME NEW state, NEW ch
    PROVE  /\ ReadByte(state, ch).mode = NextMode(state.mode, ch)
           /\ Separates(state.mode, ch) => ReadByte(state, ch).cells = Append(state.cells, <<>>)
           /\ Belongs(state.mode, ch) => ReadByte(state, ch).cells = Grown(state.cells, ch)
           /\ ~Separates(state.mode, ch) /\ ~Belongs(state.mode, ch) =>
                 ReadByte(state, ch).cells = state.cells
<1> DEFINE cells == CASE Separates(state.mode, ch) -> Append(state.cells, <<>>)
                      [] Belongs(state.mode, ch) -> Grown(state.cells, ch)
                      [] OTHER -> state.cells
<1>1. ReadByte(state, ch).mode = NextMode(state.mode, ch) /\ ReadByte(state, ch).cells = cells
  BY DEF ReadByte
<1>2. Belongs(state.mode, ch) => ~Separates(state.mode, ch)
  BY DEF Belongs
<1> QED
  BY <1>1, <1>2, Zenon

LEMMA ReadByteType ==
    ASSUME NEW state \in ReaderState, NEW ch \in Byte
    PROVE  /\ ReadByte(state, ch) \in ReaderState
           /\ Len(ReadByte(state, ch).cells) >= Len(state.cells)
<1> DEFINE c == state.cells
           new == ReadByte(state, ch).cells
<1>1. state.mode \in Modes /\ c \in Seq(Text) /\ c # <<>> /\ Len(c) \in Nat
  BY LenProperties DEF ReaderState
<1>2. new \in Seq(Text) /\ new # <<>> /\ Len(new) >= Len(c)
  <2> HIDE DEF c, new
  <2>1. CASE Separates(state.mode, ch)
    <3>1. new = Append(c, <<>>) /\ <<>> \in Text
      BY <2>1, ReadByteFacts, EmptySeq DEF c, new, Text
    <3>2. new \in Seq(Text) /\ new # <<>> /\ Len(new) = Len(c) + 1
      BY <1>1, <3>1, AppendProperties
    <3> QED
      BY <1>1, <3>2
  <2>2. CASE Belongs(state.mode, ch)
    <3>1. new = Grown(c, ch) /\ ch \in Piece
      BY <2>2, ReadByteFacts, ByteFacts DEF c, new, Belongs
    <3>2. new \in Seq(Text) /\ new # <<>> /\ Len(new) = Len(c)
      BY <1>1, <3>1, GrownText
    <3> QED
      BY <1>1, <3>2
  <2>3. CASE ~Separates(state.mode, ch) /\ ~Belongs(state.mode, ch)
    <3>1. new = c
      BY <2>3, ReadByteFacts DEF c, new
    <3> QED
      BY <1>1, <3>1
  <2> QED
    BY <2>1, <2>2, <2>3
<1>3. NextMode(state.mode, ch) \in Modes
  BY <1>1, NextModeType
<1>4. ReadByte(state, ch) = [mode |-> NextMode(state.mode, ch), cells |-> new]
  BY DEF ReadByte
<1> HIDE DEF new, c
<1>5. ReadByte(state, ch) \in ReaderState
  BY <1>2, <1>3, <1>4 DEF ReaderState
<1> QED
  BY <1>2, <1>5 DEF new, c

LEMMA AfterType ==
    ASSUME NEW bytes \in Seq(Byte), NEW state \in ReaderState
    PROVE  After(state, bytes) \in ReaderState
<1> DEFINE T == {w \in Seq(Byte) : After(state, w) \in ReaderState}
<1>1. <<>> \in T
  BY AfterNone, EmptySeq
<1>2. ASSUME NEW w \in Seq(Byte), NEW e \in Byte, w \in T PROVE Append(w, e) \in T
  <2>1. After(state, Append(w, e)) = ReadByte(After(state, w), e)
    BY AfterMore
  <2>2. After(state, Append(w, e)) \in ReaderState
    BY <1>2, <2>1, ReadByteType
  <2> QED
    BY <2>2, AppendProperties
<1> HIDE DEF T
<1>3. \A w \in Seq(Byte) : w \in T
  BY <1>1, <1>2, AppendInduction
<1> QED
  BY <1>3 DEF T

LEMMA LineStartType == LineStart \in ReaderState
<1>1. <<>> \in Text
  BY EmptySeq DEF Text
<1>2. << <<>> >> \in Seq(Text) /\ << <<>> >> # <<>>
  BY <1>1
<1> QED
  BY <1>2 DEF LineStart, ReaderState, Modes

LEMMA CellsType ==
    ASSUME NEW l \in Seq(Byte)
    PROVE  /\ CellsOf(l) \in Seq(Text) /\ CellsOf(l) # <<>>
           /\ Len(CellsOf(l)) \in Nat \ {0} /\ DOMAIN CellsOf(l) = 1 .. Len(CellsOf(l))
<1>1. After(LineStart, l) \in ReaderState
  BY AfterType, LineStartType
<1>2. CellsOf(l) \in Seq(Text) /\ CellsOf(l) # <<>>
  BY <1>1 DEF CellsOf, ReaderState
<1> QED
  BY <1>2, EmptySeq, LenProperties

(* Readers that go on from states whose cells differ in number or in the   *)
(* first cell of the second only read the same cells behind it.  A quote   *)
(* right behind a quoted part does not keep them apart, at the first cell. *)
Shifted(d, s1, s2) ==
    /\ s1.mode = s2.mode \/ (s1.mode = "closed" /\ s2.mode = "plain" /\ Len(s2.cells) = 1)
    /\ Len(s1.cells) = Len(s2.cells) + d
    /\ \A k \in 2 .. Len(s2.cells) : s1.cells[k + d] = s2.cells[k]

LEMMA ShiftedStep ==
    ASSUME NEW d \in Nat, NEW s1 \in ReaderState, NEW s2 \in ReaderState, Shifted(d, s1, s2),
           NEW ch \in Byte
    PROVE  Shifted(d, ReadByte(s1, ch), ReadByte(s2, ch))
<1> DEFINE c1 == s1.cells
           c2 == s2.cells
           n1 == ReadByte(s1, ch).cells
           n2 == ReadByte(s2, ch).cells
<1>1. /\ s1.mode \in Modes /\ c1 \in Seq(Text) /\ c1 # <<>> /\ Len(c1) \in Nat \ {0}
      /\ s2.mode \in Modes /\ c2 \in Seq(Text) /\ c2 # <<>> /\ Len(c2) \in Nat \ {0}
  BY EmptySeq DEF ReaderState
<1>2. /\ Len(c1) = Len(c2) + d /\ \A k \in 2 .. Len(c2) : c1[k + d] = c2[k]
      /\ s1.mode = s2.mode \/ (s1.mode = "closed" /\ s2.mode = "plain" /\ Len(c2) = 1)
  BY DEF Shifted
<1>3. NextMode(s1.mode, ch) = NextMode(s2.mode, ch) /\ (Separates(s1.mode, ch) <=> Separates(s2.mode, ch))
  <2>1. CASE s1.mode = s2.mode
    BY <2>1
  <2>2. CASE s1.mode = "closed" /\ s2.mode = "plain"
    BY <2>2 DEF NextMode, Separates
  <2> QED
    BY <1>2, <2>1, <2>2
<1>4. ReadByte(s1, ch).mode = ReadByte(s2, ch).mode
  BY <1>3, ReadByteFacts
<1>5. Len(n1) = Len(n2) + d /\ \A k \in 2 .. Len(n2) : n1[k + d] = n2[k]
  <2> HIDE DEF c1, c2, n1, n2
  <2>1. CASE Separates(s1.mode, ch)
    <3>1. n1 = Append(c1, <<>>) /\ n2 = Append(c2, <<>>) /\ <<>> \in Text
      BY <1>3, <2>1, ReadByteFacts, EmptySeq DEF c1, c2, n1, n2, Text
    <3>2. /\ Len(n1) = Len(c1) + 1 /\ n1[Len(c1) + 1] = <<>>
          /\ \A k \in 1 .. Len(c1) : n1[k] = c1[k]
      BY <1>1, <3>1, AppendProperties
    <3>3. /\ Len(n2) = Len(c2) + 1 /\ n2[Len(c2) + 1] = <<>>
          /\ \A k \in 1 .. Len(c2) : n2[k] = c2[k]
      BY <1>1, <3>1, AppendProperties
    <3>4. ASSUME NEW k \in 2 .. Len(n2) PROVE n1[k + d] = n2[k]
      <4>1. CASE k = Len(c2) + 1
        BY <1>1, <1>2, <3>2, <3>3, <4>1
      <4>2. CASE k \in 2 .. Len(c2)
        <5>1. k + d \in 1 .. Len(c1) /\ k \in 1 .. Len(c2)
          BY <1>1, <1>2, <4>2
        <5> QED
          BY <1>2, <3>2, <3>3, <4>2, <5>1
      <4> QED
        BY <1>1, <3>3, <4>1, <4>2
    <3> QED
      BY <1>1, <1>2, <3>2, <3>3, <3>4
  <2>2. CASE ~Separates(s1.mode, ch)
    <3>1. \/ n1 = c1
          \/ n1 = Grown(c1, ch) /\ ch \in Piece /\ Belongs(s1.mode, ch)
      BY <2>2, ReadByteFacts, ByteFacts DEF c1, n1, Belongs
    <3>2. \/ n2 = c2
          \/ n2 = Grown(c2, ch) /\ ch \in Piece /\ Belongs(s2.mode, ch)
      BY <1>3, <2>2, ReadByteFacts, ByteFacts DEF c2, n2, Belongs
    <3>3. /\ Len(n1) = Len(c1) /\ \A k \in 1 .. Len(c1) : k # Len(c1) => n1[k] = c1[k]
          /\ n1[Len(c1)] = c1[Len(c1)] \/ n1[Len(c1)] = Append(c1[Len(c1)], ch)
      <4>1. CASE n1 = c1
        BY <4>1
      <4>2. CASE n1 = Grown(c1, ch) /\ ch \in Piece
        BY <1>1, <4>2, GrownText
      <4> QED
        BY <3>1, <4>1, <4>2
    <3>4. /\ Len(n2) = Len(c2) /\ \A k \in 1 .. Len(c2) : k # Len(c2) => n2[k] = c2[k]
      <4>1. CASE n2 = c2
        BY <4>1
      <4>2. CASE n2 = Grown(c2, ch) /\ ch \in Piece
        BY <1>1, <4>2, GrownText
      <4> QED
        BY <3>2, <4>1, <4>2
    <3>5. ASSUME Len(c2) # 1 PROVE n1[Len(c1)] = n2[Len(c2)]
      <4>0. c1[Len(c1)] = c2[Len(c2)]
        <5>1. PICK m : m = Len(c2)
          OBVIOUS
        <5>2. m \in Nat \ {0} /\ m # 1 /\ m + d = Len(c1)
          BY <1>1, <1>2, <3>5, <5>1
        <5>3. m \in 2 .. m
          BY <5>2
        <5> QED
          BY <1>2, <5>1, <5>2, <5>3
      <4>1. s1.mode = s2.mode
        BY <1>2, <3>5
      <4>2. CASE Belongs(s1.mode, ch)
        <5>1. n1 = Grown(c1, ch) /\ n2 = Grown(c2, ch) /\ ch \in Piece
          BY <4>1, <4>2, ReadByteFacts, ByteFacts DEF Belongs, c1, c2, n1, n2
        <5>2. n1[Len(c1)] = Append(c1[Len(c1)], ch)
          BY <1>1, <5>1, GrownText
        <5>3. n2[Len(c2)] = Append(c2[Len(c2)], ch)
          BY <1>1, <5>1, GrownText
        <5> QED
          BY <4>0, <5>2, <5>3
      <4>3. CASE ~Belongs(s1.mode, ch)
        <5>1. n1 = c1 /\ n2 = c2
          BY <2>2, <4>1, <4>3, ReadByteFacts DEF c1, c2, n1, n2
        <5> QED
          BY <4>0, <5>1
      <4> QED
        BY <4>2, <4>3
    <3>6. ASSUME NEW k \in 2 .. Len(n2) PROVE n1[k + d] = n2[k]
      <4>1. CASE k = Len(c2)
        BY <1>1, <1>2, <3>4, <3>5, <4>1
      <4>2. CASE k # Len(c2)
        <5>1. /\ k + d \in 1 .. Len(c1) /\ k + d # Len(c1)
              /\ k \in 1 .. Len(c2) /\ k \in 2 .. Len(c2)
          BY <1>1, <1>2, <3>4, <4>2
        <5> QED
          BY <1>2, <3>3, <3>4, <5>1
      <4> QED
        BY <4>1, <4>2
    <3> QED
      BY <1>2, <3>3, <3>4, <3>6
  <2> QED
    BY <2>1, <2>2
<1> QED
  BY <1>4, <1>5 DEF Shifted

LEMMA ShiftedAfter ==
    ASSUME NEW d \in Nat, NEW s1 \in ReaderState, NEW s2 \in ReaderState, Shifted(d, s1, s2),
           NEW bytes \in Seq(Byte)
    PROVE  Shifted(d, After(s1, bytes), After(s2, bytes))
<1> DEFINE T == {w \in Seq(Byte) : Shifted(d, After(s1, w), After(s2, w))}
<1>1. <<>> \in T
  BY AfterNone, EmptySeq
<1>2. ASSUME NEW w \in Seq(Byte), NEW e \in Byte, w \in T PROVE Append(w, e) \in T
  <2>1. /\ After(s1, Append(w, e)) = ReadByte(After(s1, w), e)
        /\ After(s2, Append(w, e)) = ReadByte(After(s2, w), e)
    BY AfterMore
  <2>2. After(s1, w) \in ReaderState /\ After(s2, w) \in ReaderState
    BY AfterType
  <2>3. Shifted(d, After(s1, Append(w, e)), After(s2, Append(w, e)))
    BY <1>2, <2>1, <2>2, ShiftedStep
  <2> QED
    BY <2>3, AppendProperties
<1> HIDE DEF T
<1>3. \A w \in Seq(Byte) : w \in T
  BY <1>1, <1>2, AppendInduction
<1> QED
  BY <1>3 DEF T

-----------------------------------------------------------------------------
(* Writing                                                                 *)
-----------------------------------------------------------------------------
DoubledByte(ch) == IF ch = Quote THEN <<Quote, Quote>> ELSE <<ch>>

LEMMA DoubledMore ==
    ASSUME NEW t \in Text, NEW ch \in Piece
    PROVE  /\ Doubled(t) \in Text
           /\ Doubled(Append(t, ch)) = Doubled(t) \o DoubledByte(ch)
<1> DEFINE q(u) == [k \in DOMAIN u |-> DoubledByte(u[k])]
<1>0. \A u : Doubled(u) = FlattenSeq(q(u))
  BY DEF Doubled, DoubledByte
<1>1. \A e \in Piece : DoubledByte(e) \in Text
  BY DEF DoubledByte, Text
<1>2. ASSUME NEW u \in Text PROVE q(u) \in Seq(Text) /\ Len(q(u)) = Len(u)
  <2>1. DOMAIN u = 1 .. Len(u) /\ Len(u) \in Nat /\ \A k \in 1 .. Len(u) : u[k] \in Piece
    BY LenProperties, ElementOfSeq DEF Text
  <2>2. q(u) \in [1 .. Len(u) -> Text]
    BY <1>1, <2>1
  <2> QED
    BY <2>1, <2>2, FunctionIsSeq
<1>3. Append(t, ch) \in Text
  BY AppendProperties DEF Text
<1>4. q(Append(t, ch)) = Append(q(t), DoubledByte(ch))
  <2> DEFINE v == Append(t, ch)
  <2>1. /\ Len(v) = Len(t) + 1 /\ v[Len(t) + 1] = ch /\ \A k \in 1 .. Len(t) : v[k] = t[k]
        /\ Len(t) \in Nat
    BY AppendProperties, LenProperties DEF Text
  <2>2. DOMAIN v = 1 .. Len(t) + 1 /\ DOMAIN t = 1 .. Len(t)
    BY <1>3, <2>1, LenProperties DEF Text
  <2>3. q(v) \in Seq(Text) /\ Len(q(v)) = Len(t) + 1
    BY <1>2, <1>3, <2>1
  <2>4. q(t) \in Seq(Text) /\ Len(q(t)) = Len(t) /\ DoubledByte(ch) \in Text
    BY <1>1, <1>2
  <2> HIDE DEF v
  <2> DEFINE w == Append(q(t), DoubledByte(ch))
  <2>5. /\ w \in Seq(Text) /\ Len(w) = Len(t) + 1 /\ w[Len(t) + 1] = DoubledByte(ch)
        /\ \A k \in 1 .. Len(t) : w[k] = q(t)[k]
    <3> DEFINE x == q(t)
               y == DoubledByte(ch)
    <3>1. x \in Seq(Text) /\ Len(x) = Len(t) /\ y \in Text /\ w = Append(x, y)
      BY <2>4
    <3> HIDE DEF x, y, w
    <3>2. /\ w \in Seq(Text) /\ Len(w) = Len(t) + 1 /\ w[Len(t) + 1] = y
          /\ \A k \in 1 .. Len(t) : w[k] = x[k]
      BY <3>1, AppendProperties
    <3> QED
      BY <3>2 DEF x, y
  <2>6. \A k \in 1 .. Len(t) + 1 : q(v)[k] = w[k]
    <3> TAKE k \in 1 .. Len(t) + 1
    <3>1. q(v)[k] = DoubledByte(v[k])
      BY <2>2
    <3>2. CASE k = Len(t) + 1
      BY <2>1, <2>5, <3>1, <3>2
    <3>3. CASE k # Len(t) + 1
      <4>1. k \in 1 .. Len(t)
        BY <2>1, <3>3
      <4>2. q(t)[k] = DoubledByte(t[k])
        BY <2>2, <4>1
      <4> QED
        BY <2>1, <2>5, <3>1, <4>1, <4>2
    <3> QED
      BY <3>2, <3>3
  <2> HIDE DEF q, w
  <2>7. q(v) = w
    BY <2>3, <2>5, <2>6, SeqEqual
  <2> QED
    BY <2>7 DEF v, w
<1>5. \A u \in Text : q(u) \in Seq(Seq(Piece))
  BY <1>2 DEF Text
<1>6. FlattenSeq(Append(q(t), DoubledByte(ch))) = FlattenSeq(q(t)) \o DoubledByte(ch)
  <2>1. q(t) \in Seq(Seq(Piece)) /\ DoubledByte(ch) \in Seq(Piece)
    BY <1>1, <1>5 DEF Text
  <2> HIDE DEF q
  <2> QED
    BY <2>1, FlattenAppend
<1> HIDE DEF q
<1>7. Doubled(t) \in Text
  <2>1. PICK u : u = q(t)
    OBVIOUS
  <2>2. u \in Seq(Seq(Piece))
    BY <1>5, <2>1
  <2>3. CASE u = <<>>
    BY <1>0, <2>1, <2>3, EmptySeq DEF FlattenSeq, Text
  <2>4. CASE u # <<>>
    <3>1. FlattenSeq(u) \in Seq(Piece)
      BY <2>2, <2>4, FlattenPlaces
    <3> QED
      BY <1>0, <2>1, <3>1 DEF Text
  <2> QED
    BY <2>3, <2>4
<1> QED
  BY <1>0, <1>4, <1>6, <1>7

(* One byte written, read back in each mode.                               *)
At(mode, cells) == [mode |-> mode, cells |-> cells]

LEMMA GrownLast ==
    ASSUME NEW c \in Seq(Text), NEW u \in Text, NEW ch \in Piece
    PROVE  Grown(Append(c, u), ch) = Append(c, Append(u, ch))
<1>1. PICK s : s = Append(c, u)
  OBVIOUS
<1>2. PICK v : v = Append(u, ch)
  OBVIOUS
<1>3. PICK t : t = Append(c, v)
  OBVIOUS
<1>4. PICK g : g = Grown(s, ch)
  OBVIOUS
<1>5. /\ s \in Seq(Text) /\ s # <<>> /\ Len(s) = Len(c) + 1 /\ Len(c) \in Nat
      /\ s[Len(c) + 1] = u /\ \A k \in 1 .. Len(c) : s[k] = c[k]
  BY <1>1, AppendProperties, LenProperties
<1>6. v \in Text
  BY <1>2, AppendProperties DEF Text
<1>7. /\ t \in Seq(Text) /\ Len(t) = Len(c) + 1
      /\ t[Len(c) + 1] = v /\ \A k \in 1 .. Len(c) : t[k] = c[k]
  BY <1>3, <1>6, AppendProperties
<1>8. /\ g \in Seq(Text) /\ Len(g) = Len(s) /\ g[Len(s)] = Append(s[Len(s)], ch)
      /\ \A k \in 1 .. Len(s) : k # Len(s) => g[k] = s[k]
  BY <1>4, <1>5, GrownText
<1>9. \A k \in 1 .. Len(g) : g[k] = t[k]
  <2> TAKE k \in 1 .. Len(g)
  <2>1. CASE k = Len(c) + 1
    BY <1>2, <1>5, <1>7, <1>8, <2>1
  <2>2. CASE k # Len(c) + 1
    <3>1. k \in 1 .. Len(c) /\ k \in 1 .. Len(s) /\ k # Len(s)
      BY <1>5, <1>8, <2>2
    <3> QED
      BY <1>5, <1>7, <1>8, <3>1
  <2> QED
    BY <2>1, <2>2
<1>10. g = t
  BY <1>5, <1>7, <1>8, <1>9, SeqEqual
<1> QED
  BY <1>1, <1>2, <1>3, <1>4, <1>10

LEMMA ByteRead ==
    ASSUME NEW c \in Seq(Text), NEW u \in Text
    PROVE  /\ \A ch \in Piece \ {Comma, Quote} :
                 ReadByte(At("plain", Append(c, u)), ch) = At("plain", Append(c, Append(u, ch)))
           /\ \A ch \in Piece \ {Quote} :
                 ReadByte(At("quoted", Append(c, u)), ch) = At("quoted", Append(c, Append(u, ch)))
           /\ ReadByte(At("plain", Append(c, u)), Quote) = At("quoted", Append(c, u))
           /\ ReadByte(At("quoted", Append(c, u)), Quote) = At("closed", Append(c, u))
           /\ ReadByte(At("closed", Append(c, u)), Quote)
                 = At("quoted", Append(c, Append(u, Quote)))
<1> DEFINE s == Append(c, u)
<1>0. \A m : At(m, s).mode = m /\ At(m, s).cells = s
  BY DEF At
<1>1. \A ch \in Piece : Grown(s, ch) = Append(c, Append(u, ch))
  BY GrownLast
<1> HIDE DEF s
<1>2. ASSUME NEW m, NEW ch
      PROVE  ReadByte(At(m, s), ch) =
                At(NextMode(m, ch), CASE Separates(m, ch) -> Append(s, <<>>)
                                      [] Belongs(m, ch) -> Grown(s, ch)
                                      [] OTHER -> s)
  BY <1>0 DEF ReadByte, At
<1>3. \A m, ch : Belongs(m, ch) => ReadByte(At(m, s), ch) = At(NextMode(m, ch), Grown(s, ch))
  <2>1. \A m, ch : Belongs(m, ch) => ~Separates(m, ch)
    BY DEF Belongs
  <2> QED
    BY <1>2, <2>1, Zenon
<1>4. \A m, ch : ~Belongs(m, ch) /\ ~Separates(m, ch) => ReadByte(At(m, s), ch) = At(NextMode(m, ch), s)
  BY <1>2, Zenon
<1>5. ASSUME NEW ch \in Piece \ {Comma, Quote}
      PROVE  ReadByte(At("plain", s), ch) = At("plain", Append(c, Append(u, ch)))
  <2>1. ch \notin LineEnds
    BY ByteFacts DEF Byte
  <2>2. Belongs("plain", ch) /\ NextMode("plain", ch) = "plain"
    BY <2>1 DEF Belongs, Separates, NextMode
  <2> QED
    BY <1>1, <1>3, <2>2
<1>6. ASSUME NEW ch \in Piece \ {Quote}
      PROVE  ReadByte(At("quoted", s), ch) = At("quoted", Append(c, Append(u, ch)))
  <2>1. ch \notin LineEnds
    BY ByteFacts DEF Byte
  <2>2. Belongs("quoted", ch) /\ NextMode("quoted", ch) = "quoted"
    BY <2>1 DEF Belongs, Separates, NextMode
  <2> QED
    BY <1>1, <1>3, <2>2
<1>7. ReadByte(At("plain", s), Quote) = At("quoted", s)
  <2>1. /\ ~Belongs("plain", Quote) /\ ~Separates("plain", Quote)
        /\ NextMode("plain", Quote) = "quoted"
    BY ByteFacts DEF Belongs, Separates, NextMode
  <2> QED
    BY <1>4, <2>1
<1>8. ReadByte(At("quoted", s), Quote) = At("closed", s)
  <2>1. /\ ~Belongs("quoted", Quote) /\ ~Separates("quoted", Quote)
        /\ NextMode("quoted", Quote) = "closed"
    BY ByteFacts DEF Belongs, Separates, NextMode
  <2> QED
    BY <1>4, <2>1
<1>9. ReadByte(At("closed", s), Quote) = At("quoted", Append(c, Append(u, Quote)))
  <2>1. Belongs("closed", Quote) /\ NextMode("closed", Quote) = "quoted" /\ Quote \in Piece
    BY ByteFacts DEF Belongs, Separates, NextMode
  <2> QED
    BY <1>1, <1>3, <2>1
<1> QED
  BY <1>5, <1>6, <1>7, <1>8, <1>9 DEF s

(* A comma behind a cell begins another, a line end ends the line.         *)
LEMMA CellEnds ==
    ASSUME NEW c, NEW m \in {"plain", "closed"}
    PROVE  /\ ReadByte(At(m, c), Comma) = At("plain", Append(c, <<>>))
           /\ ReadByte(At(m, c), Newline) = At("over", c)
<1>1. /\ Separates(m, Comma) /\ NextMode(m, Comma) = "plain"
      /\ ~Separates(m, Newline) /\ ~Belongs(m, Newline) /\ NextMode(m, Newline) = "over"
  BY ByteFacts DEF Separates, Belongs, NextMode, Comma, Newline
<1> DEFINE s == At(m, c)
<1>2. s.mode = m /\ s.cells = c
  BY DEF At
<1> HIDE DEF s
<1>3. \A ch : ReadByte(s, ch) = At(ReadByte(s, ch).mode, ReadByte(s, ch).cells)
  BY DEF ReadByte, At
<1>4. ReadByte(s, Comma).mode = "plain" /\ ReadByte(s, Comma).cells = Append(c, <<>>)
  BY <1>1, <1>2, ReadByteFacts
<1>5. ReadByte(s, Newline).mode = "over" /\ ReadByte(s, Newline).cells = c
  BY <1>1, <1>2, ReadByteFacts
<1> QED
  BY <1>3, <1>4, <1>5 DEF s

LEMMA AfterOne ==
    ASSUME NEW state, NEW ch PROVE After(state, <<ch>>) = ReadByte(state, ch)
<1>1. <<>> \in Seq({ch}) /\ ch \in {ch} /\ Append(<<>>, ch) = <<ch>>
  BY EmptySeq
<1>2. After(state, Append(<<>>, ch)) = ReadByte(After(state, <<>>), ch)
  BY <1>1, AfterMore
<1> QED
  BY <1>1, <1>2, AfterNone

LEMMA PlainRead ==
    ASSUME NEW c \in Seq(Text)
    PROVE  \A t \in Text : ~Has(t, {Comma, Quote}) =>
              After(At("plain", Append(c, <<>>)), t) = At("plain", Append(c, t))
<1> DEFINE start == At("plain", Append(c, <<>>))
           T == {t \in Seq(Piece) : ~Has(t, {Comma, Quote}) =>
                                      After(start, t) = At("plain", Append(c, t))}
<1>1. <<>> \in T
  BY AfterNone, EmptySeq
<1>2. ASSUME NEW t \in Seq(Piece), NEW e \in Piece, t \in T PROVE Append(t, e) \in T
  <2>1. Append(t, e) \in Seq(Piece)
    BY AppendProperties
  <2> SUFFICES ASSUME ~Has(Append(t, e), {Comma, Quote})
               PROVE  After(start, Append(t, e)) = At("plain", Append(c, Append(t, e)))
    BY <2>1
  <2>2. ~Has(t, {Comma, Quote}) /\ e \notin {Comma, Quote}
    <3>1. PICK v : v = Append(t, e)
      OBVIOUS
    <3>2. /\ Len(v) = Len(t) + 1 /\ v[Len(t) + 1] = e /\ \A k \in 1 .. Len(t) : v[k] = t[k]
          /\ Len(t) \in Nat /\ DOMAIN t = 1 .. Len(t) /\ DOMAIN v = 1 .. Len(t) + 1
      BY <2>1, <3>1, AppendProperties, LenProperties
    <3>3. \A k \in DOMAIN v : v[k] \notin {Comma, Quote}
      BY <3>1 DEF Has
    <3>4. Len(t) + 1 \in DOMAIN v /\ \A k \in DOMAIN t : k \in DOMAIN v
      BY <3>2
    <3> QED
      BY <3>2, <3>3, <3>4 DEF Has
  <2>3. After(start, t) = At("plain", Append(c, t))
    BY <1>2, <2>2
  <2>4. After(start, Append(t, e)) = ReadByte(After(start, t), e)
    BY AfterMore
  <2>5. t \in Text /\ e \in Piece \ {Comma, Quote}
    BY <2>2 DEF Text
  <2> QED
    BY <2>3, <2>4, <2>5, ByteRead
<1> HIDE DEF T
<1>3. \A t \in Seq(Piece) : t \in T
  BY <1>1, <1>2, AppendInduction
<1> QED
  BY <1>3 DEF T, Text

LEMMA QuotedRead ==
    ASSUME NEW c \in Seq(Text)
    PROVE  \A t \in Text :
              After(At("quoted", Append(c, <<>>)), Doubled(t)) = At("quoted", Append(c, t))
<1> DEFINE start == At("quoted", Append(c, <<>>))
           T == {t \in Seq(Piece) : After(start, Doubled(t)) = At("quoted", Append(c, t))}
<1>1. <<>> \in T
  <2>1. Doubled(<<>>) = <<>>
    BY DEF Doubled, FlattenSeq
  <2> QED
    BY <2>1, AfterNone, EmptySeq
<1>2. ASSUME NEW t \in Seq(Piece), NEW e \in Piece, t \in T PROVE Append(t, e) \in T
  <2>1. Append(t, e) \in Seq(Piece)
    BY AppendProperties
  <2>2. t \in Text
    BY DEF Text
  <2>3. Doubled(t) \in Seq(Piece) /\ Doubled(Append(t, e)) = Doubled(t) \o DoubledByte(e)
    BY <2>2, DoubledMore DEF Text
  <2>4. DoubledByte(e) \in Seq(Piece)
    BY DEF DoubledByte
  <2>5. After(start, Doubled(Append(t, e))) = After(At("quoted", Append(c, t)), DoubledByte(e))
    BY <1>2, <2>3, <2>4, AfterConcat
  <2>6. CASE e # Quote
    <3>1. DoubledByte(e) = <<e>>
      BY <2>6 DEF DoubledByte
    <3>2. After(At("quoted", Append(c, t)), <<e>>) = ReadByte(At("quoted", Append(c, t)), e)
      BY AfterOne
    <3> QED
      BY <2>1, <2>2, <2>5, <2>6, <3>1, <3>2, ByteRead
  <2>7. CASE e = Quote
    <3>1. DoubledByte(e) = <<Quote>> \o <<Quote>> /\ <<Quote>> \in Seq(Piece)
      BY <2>7, ByteFacts DEF DoubledByte
    <3>2. After(At("quoted", Append(c, t)), <<Quote>>) = At("closed", Append(c, t))
      BY <2>2, AfterOne, ByteRead
    <3>3. After(At("closed", Append(c, t)), <<Quote>>) = At("quoted", Append(c, Append(t, Quote)))
      BY <2>2, AfterOne, ByteRead
    <3>4. After(At("quoted", Append(c, t)), <<Quote>> \o <<Quote>>)
             = After(After(At("quoted", Append(c, t)), <<Quote>>), <<Quote>>)
      BY <3>1, AfterConcat
    <3> QED
      BY <2>1, <2>5, <2>7, <3>1, <3>2, <3>3, <3>4
  <2> QED
    BY <2>6, <2>7
<1> HIDE DEF T
<1>3. \A t \in Seq(Piece) : t \in T
  BY <1>1, <1>2, AppendInduction
<1> QED
  BY <1>3 DEF T, Text

(* A field read where a cell begins.                                       *)
LEMMA FieldRead ==
    ASSUME NEW c \in Seq(Text), NEW t \in Text
    PROVE  /\ WriteField(t) \in Text
           /\ \E m \in {"plain", "closed"} :
                 After(At("plain", Append(c, <<>>)), WriteField(t)) = At(m, Append(c, t))
<1> DEFINE start == At("plain", Append(c, <<>>))
<1>1. CASE ~Has(t, {Comma, Quote, Newline})
  <2>1. ~Has(t, {Comma, Quote})
    BY <1>1 DEF Has
  <2>2. WriteField(t) = t
    BY <1>1 DEF WriteField
  <2>3. After(start, t) = At("plain", Append(c, t))
    BY <2>1, PlainRead
  <2> QED
    BY <2>2, <2>3
<1>2. CASE Has(t, {Comma, Quote, Newline})
  <2> DEFINE q == <<Quote>>
             d == Doubled(t)
  <2>1. WriteField(t) = q \o d \o q
    BY <1>2 DEF WriteField
  <2>2. q \in Seq(Piece) /\ d \in Seq(Piece) /\ q \o d \in Seq(Piece) /\ q \o d \o q \in Seq(Piece)
    <3>1. q \in Seq(Piece) /\ d \in Seq(Piece)
      BY DoubledMore, ByteFacts DEF Text
    <3> QED
      BY <3>1, ConcatProperties
  <2>3. After(start, q) = At("quoted", Append(c, <<>>))
    <3>1. <<>> \in Text
      BY EmptySeq DEF Text
    <3>2. ReadByte(start, Quote) = At("quoted", Append(c, <<>>))
      BY <3>1, ByteRead
    <3> QED
      BY <3>2, AfterOne
  <2>4. After(At("quoted", Append(c, <<>>)), d) = At("quoted", Append(c, t))
    BY QuotedRead
  <2>5. After(At("quoted", Append(c, t)), q) = At("closed", Append(c, t))
    BY AfterOne, ByteRead
  <2> HIDE DEF q, d
  <2>6. After(start, q \o d) = After(After(start, q), d)
    BY <2>2, AfterConcat
  <2>7. After(start, (q \o d) \o q) = After(After(start, q \o d), q)
    BY <2>2, AfterConcat
  <2>8. After(start, WriteField(t)) = At("closed", Append(c, t))
    BY <2>1, <2>3, <2>4, <2>5, <2>6, <2>7
  <2> QED
    BY <2>1, <2>2, <2>8 DEF Text
<1> QED
  BY <1>1, <1>2

(* A sequence that is another one but for a last element.                  *)
LEMMA IsAppend ==
    ASSUME NEW S, NEW s \in Seq(S), NEW e \in S, NEW t \in Seq(S), Len(t) = Len(s) + 1,
           t[Len(s) + 1] = e, \A k \in 1 .. Len(s) : t[k] = s[k]
    PROVE  t = Append(s, e)
<1>1. PICK a : a = Append(s, e)
  OBVIOUS
<1>2. /\ a \in Seq(S) /\ Len(a) = Len(s) + 1 /\ a[Len(s) + 1] = e /\ Len(s) \in Nat
      /\ \A k \in 1 .. Len(s) : a[k] = s[k]
  BY <1>1, AppendProperties, LenProperties
<1>3. \A k \in 1 .. Len(t) : t[k] = a[k]
  <2> TAKE k \in 1 .. Len(t)
  <2>1. k = Len(s) + 1 \/ k \in 1 .. Len(s)
    BY <1>2
  <2> QED
    BY <1>2, <2>1
<1> QED
  BY <1>1, <1>2, <1>3, SeqEqual

Between(fields, field) == IF fields = <<>> THEN field ELSE <<Comma>> \o field

LEMMA JoinedMore ==
    ASSUME NEW f \in Seq(Text), NEW e \in Text
    PROVE  /\ Joined(f) \in Text
           /\ Joined(Append(f, e)) = Joined(f) \o Between(f, e)
           /\ Between(f, e) \in Text
<1> DEFINE q(u) == [k \in DOMAIN u |-> IF k = 1 THEN u[k] ELSE <<Comma>> \o u[k]]
<1>0. \A u : Joined(u) = FlattenSeq(q(u))
  BY DEF Joined
<1>1. ASSUME NEW x \in Text PROVE <<Comma>> \o x \in Text
  <2>1. <<Comma>> \in Seq(Piece) /\ x \in Seq(Piece)
    BY ByteFacts DEF Text
  <2> QED
    BY <2>1, ConcatProperties DEF Text
<1>2. ASSUME NEW u \in Seq(Text) PROVE q(u) \in Seq(Text) /\ Len(q(u)) = Len(u)
  <2>1. DOMAIN u = 1 .. Len(u) /\ Len(u) \in Nat /\ \A k \in 1 .. Len(u) : u[k] \in Text
    BY LenProperties, ElementOfSeq
  <2>2. q(u) \in [1 .. Len(u) -> Text]
    BY <1>1, <2>1
  <2> QED
    BY <2>1, <2>2, FunctionIsSeq
<1>3. Between(f, e) \in Text
  BY <1>1 DEF Between
<1>4. q(Append(f, e)) = Append(q(f), Between(f, e))
  <2>1. PICK v : v = Append(f, e)
    OBVIOUS
  <2>2. /\ v \in Seq(Text) /\ Len(v) = Len(f) + 1 /\ v[Len(f) + 1] = e
        /\ \A k \in 1 .. Len(f) : v[k] = f[k]
        /\ Len(f) \in Nat /\ DOMAIN v = 1 .. Len(v) /\ DOMAIN f = 1 .. Len(f)
    BY <2>1, AppendProperties, LenProperties
  <2>3. q(v) \in Seq(Text) /\ Len(q(v)) = Len(f) + 1 /\ q(f) \in Seq(Text) /\ Len(q(f)) = Len(f)
    BY <1>2, <2>2
  <2>4. q(v)[Len(f) + 1] = Between(f, e)
    <3>1. q(v)[Len(f) + 1] = IF Len(f) + 1 = 1 THEN e ELSE <<Comma>> \o e
      BY <2>2
    <3>2. Len(f) + 1 = 1 <=> f = <<>>
      BY <2>2, EmptySeq
    <3> QED
      BY <3>1, <3>2 DEF Between
  <2>5. \A k \in 1 .. Len(f) : q(v)[k] = q(f)[k]
    <3> TAKE k \in 1 .. Len(f)
    <3>1. k \in DOMAIN v /\ k \in DOMAIN f /\ v[k] = f[k]
      BY <2>2
    <3> QED
      BY <3>1
  <2> HIDE DEF q
  <2>6. q(v) = Append(q(f), Between(f, e))
    <3>1. PICK s, t, b : s = q(f) /\ t = q(v) /\ b = Between(f, e)
      OBVIOUS
    <3>2. /\ s \in Seq(Text) /\ t \in Seq(Text) /\ b \in Text /\ Len(t) = Len(s) + 1
          /\ t[Len(s) + 1] = b /\ \A k \in 1 .. Len(s) : t[k] = s[k]
      BY <1>3, <2>3, <2>4, <2>5, <3>1
    <3>3. t = Append(s, b)
      BY <3>2, IsAppend
    <3> QED
      BY <3>1, <3>3
  <2> QED
    BY <2>1, <2>6
<1>5. q(f) \in Seq(Seq(Piece)) /\ Between(f, e) \in Seq(Piece)
  BY <1>2, <1>3 DEF Text
<1> HIDE DEF q
<1>6. FlattenSeq(Append(q(f), Between(f, e))) = FlattenSeq(q(f)) \o Between(f, e)
  BY <1>5, FlattenAppend
<1>7. Joined(f) \in Text
  <2>1. PICK u : u = q(f)
    OBVIOUS
  <2>2. u \in Seq(Seq(Piece))
    BY <1>5, <2>1
  <2>3. CASE u = <<>>
    BY <1>0, <2>1, <2>3, EmptySeq DEF FlattenSeq, Text
  <2>4. CASE u # <<>>
    <3>1. FlattenSeq(u) \in Seq(Piece)
      BY <2>2, <2>4, FlattenPlaces
    <3> QED
      BY <1>0, <2>1, <3>1 DEF Text
  <2> QED
    BY <2>3, <2>4
<1> QED
  BY <1>0, <1>3, <1>4, <1>6, <1>7

Fields(cells) == [k \in DOMAIN cells |-> WriteField(cells[k])]

LEMMA FieldsMore ==
    ASSUME NEW r \in Seq(Text), NEW t \in Text
    PROVE  /\ Fields(r) \in Seq(Text) /\ Len(Fields(r)) = Len(r)
           /\ Fields(Append(r, t)) = Append(Fields(r), WriteField(t))
<1>1. ASSUME NEW u \in Seq(Text) PROVE Fields(u) \in Seq(Text) /\ Len(Fields(u)) = Len(u)
  <2>1. DOMAIN u = 1 .. Len(u) /\ Len(u) \in Nat /\ \A k \in 1 .. Len(u) : u[k] \in Text
    BY LenProperties, ElementOfSeq
  <2>2. \A x \in Text : WriteField(x) \in Text
    BY FieldRead, EmptySeq
  <2>3. Fields(u) \in [1 .. Len(u) -> Text]
    BY <2>1, <2>2 DEF Fields
  <2> QED
    BY <2>1, <2>3, FunctionIsSeq
<1>2. PICK v : v = Append(r, t)
  OBVIOUS
<1>3. /\ v \in Seq(Text) /\ Len(v) = Len(r) + 1 /\ v[Len(r) + 1] = t
      /\ \A k \in 1 .. Len(r) : v[k] = r[k]
      /\ Len(r) \in Nat /\ DOMAIN v = 1 .. Len(v) /\ DOMAIN r = 1 .. Len(r)
  BY <1>2, AppendProperties, LenProperties
<1>4. PICK f, g, w : f = Fields(r) /\ g = Fields(v) /\ w = WriteField(t)
  OBVIOUS
<1>5. f \in Seq(Text) /\ Len(f) = Len(r) /\ g \in Seq(Text) /\ Len(g) = Len(r) + 1
  BY <1>1, <1>3, <1>4
<1>6. w \in Text
  BY <1>4, FieldRead, EmptySeq
<1>7. g[Len(f) + 1] = w
  <2>1. Len(r) + 1 \in DOMAIN v
    BY <1>3
  <2> QED
    BY <1>3, <1>4, <1>5, <2>1 DEF Fields
<1>8. \A k \in 1 .. Len(f) : g[k] = f[k]
  <2> TAKE k \in 1 .. Len(f)
  <2>1. k \in DOMAIN v /\ k \in DOMAIN r /\ v[k] = r[k]
    BY <1>3, <1>5
  <2> QED
    BY <1>4, <2>1 DEF Fields
<1>9. g = Append(f, w)
  BY <1>5, <1>6, <1>7, <1>8, IsAppend
<1> QED
  BY <1>1, <1>2, <1>4, <1>9

(* The cells of a row are read back as they were, and its bytes end cells. *)
LEMMA CellsRead ==
    \A r \in Seq(Text) : r # <<>> =>
        \E m \in {"plain", "closed"} : After(LineStart, Joined(Fields(r))) = At(m, r)
<1> DEFINE T == {r \in Seq(Text) : r # <<>> =>
                   \E m \in {"plain", "closed"} : After(LineStart, Joined(Fields(r))) = At(m, r)}
<1>1. <<>> \in T
  BY EmptySeq
<1>2. ASSUME NEW r \in Seq(Text), NEW t \in Text, r \in T PROVE Append(r, t) \in T
  <2>0. Append(r, t) \in Seq(Text)
    BY AppendProperties
  <2>1. /\ Fields(r) \in Seq(Text) /\ Len(Fields(r)) = Len(r) /\ WriteField(t) \in Text
        /\ Fields(Append(r, t)) = Append(Fields(r), WriteField(t))
    BY FieldsMore, FieldRead, EmptySeq
  <2> DEFINE f == Fields(r)
             e == WriteField(t)
  <2>2. /\ Joined(f) \in Text /\ Between(f, e) \in Text
        /\ Joined(Fields(Append(r, t))) = Joined(f) \o Between(f, e)
    BY <2>1, JoinedMore
  <2>3. PICK m \in {"plain", "closed"} :
           After(At("plain", Append(r, <<>>)), e) = At(m, Append(r, t))
    BY FieldRead
  <2>4. f = <<>> <=> r = <<>>
    BY <2>1, EmptySeq
  <2>5. After(LineStart, Joined(f) \o Between(f, e))
           = After(After(LineStart, Joined(f)), Between(f, e))
    <3>1. Joined(f) \in Seq(Piece) /\ Between(f, e) \in Seq(Piece)
      BY <2>2 DEF Text
    <3> HIDE DEF f, e
    <3> QED
      BY <3>1, AfterConcat
  <2> HIDE DEF f, e
  <2>6. CASE r = <<>>
    <3>1. Joined(f) = <<>>
      BY <2>4, <2>6 DEF Joined, FlattenSeq
    <3>2. After(LineStart, Joined(f)) = At("plain", Append(r, <<>>))
      BY <2>6, <3>1, AfterNone DEF LineStart, At
    <3>3. Between(f, e) = e
      BY <2>4, <2>6 DEF Between
    <3> QED
      BY <2>0, <2>2, <2>3, <2>5, <3>2, <3>3
  <2>7. CASE r # <<>>
    <3>1. PICK m0 \in {"plain", "closed"} : After(LineStart, Joined(f)) = At(m0, r)
      BY <1>2, <2>7 DEF f
    <3>2. Between(f, e) = <<Comma>> \o e /\ <<Comma>> \in Seq(Piece) /\ e \in Seq(Piece)
      BY <2>1, <2>4, <2>7, ByteFacts DEF Between, e, Text
    <3>3. After(At(m0, r), <<Comma>>) = At("plain", Append(r, <<>>))
      BY AfterOne, CellEnds
    <3>4. After(At(m0, r), <<Comma>> \o e) = After(After(At(m0, r), <<Comma>>), e)
      BY <3>2, AfterConcat
    <3> QED
      BY <2>0, <2>2, <2>3, <2>5, <3>1, <3>2, <3>3, <3>4
  <2> QED
    BY <2>6, <2>7
<1> HIDE DEF T
<1>3. \A r \in Seq(Text) : r \in T
  BY <1>1, <1>2, AppendInduction
<1> QED
  BY <1>3 DEF T

(* A text and a newline are a whole line.                                  *)
LEMMA EndedLine ==
    ASSUME NEW t \in Text
    PROVE  /\ t \o <<Newline>> \in Line /\ Whole(t \o <<Newline>>)
           /\ Len(t \o <<Newline>>) = Len(t) + 1 /\ Len(t) \in Nat
           /\ \A k \in 1 .. Len(t) : (t \o <<Newline>>)[k] = t[k] /\ t[k] \in Piece
<1>1. t \in Seq(Byte) /\ Newline \in Byte
  BY ByteFacts
<1>2. PICK l : l = t \o <<Newline>>
  OBVIOUS
<1>3. /\ l \in Seq(Byte) /\ Len(l) = Len(t) + 1 /\ Len(t) \in Nat /\ l[Len(t) + 1] = Newline
      /\ \A k \in 1 .. Len(t) : l[k] = t[k]
  BY <1>1, <1>2, Ended
<1>4. \A k \in 1 .. Len(t) : t[k] \in Piece /\ t[k] # Newline
  <2>1. \A k \in 1 .. Len(t) : t[k] \in Piece
    BY ElementOfSeq DEF Text
  <2> QED
    BY <2>1, ByteFacts
<1>5. l # <<>>
  BY <1>3, EmptySeq
<1>6. \A k \in 1 .. Len(l) - 1 : l[k] # Newline
  <2>1. Len(l) - 1 = Len(t)
    BY <1>3
  <2> QED
    BY <1>3, <1>4, <2>1
<1> QED
  BY <1>2, <1>3, <1>4, <1>5, <1>6 DEF Line, Whole

(* A row is one whole line, and its cells are read back as they were.      *)
LEMMA RowWritten ==
    ASSUME NEW r \in Seq(Text), r # <<>>
    PROVE  /\ WriteRow(r) \in Line /\ Whole(WriteRow(r)) /\ CellsOf(WriteRow(r)) = r
           /\ \A k \in 1 .. Len(WriteRow(r)) - 1 : WriteRow(r)[k] \in Piece
<1>1. PICK t : t = Joined(Fields(r))
  OBVIOUS
<1>2. t \in Text
  <2>1. Fields(r) \in Seq(Text) /\ <<>> \in Text
    BY FieldsMore, EmptySeq DEF Text
  <2> QED
    BY <1>1, <2>1, JoinedMore
<1>3. WriteRow(r) = t \o <<Newline>>
  BY <1>1 DEF WriteRow, Fields
<1>4. PICK m \in {"plain", "closed"} : After(LineStart, t) = At(m, r)
  BY <1>1, CellsRead
<1>5. After(LineStart, t \o <<Newline>>) = At("over", r)
  <2>1. t \in Seq(Byte) /\ <<Newline>> \in Seq(Byte)
    BY <1>2, ByteFacts
  <2>2. After(LineStart, t \o <<Newline>>) = After(After(LineStart, t), <<Newline>>)
    BY <2>1, AfterConcat
  <2>3. After(At(m, r), <<Newline>>) = At("over", r)
    BY AfterOne, CellEnds
  <2> QED
    BY <1>4, <2>2, <2>3
<1>6. CellsOf(WriteRow(r)) = r
  BY <1>3, <1>5 DEF CellsOf, At
<1>7. /\ WriteRow(r) \in Line /\ Whole(WriteRow(r))
      /\ \A k \in 1 .. Len(WriteRow(r)) - 1 : WriteRow(r)[k] \in Piece
  <2>1. PICK l : l = WriteRow(r)
    OBVIOUS
  <2>2. /\ l \in Line /\ Whole(l) /\ Len(l) = Len(t) + 1 /\ Len(t) \in Nat
        /\ \A k \in 1 .. Len(t) : l[k] = t[k] /\ t[k] \in Piece
    BY <1>2, <1>3, <2>1, EndedLine
  <2>3. Len(l) - 1 = Len(t)
    BY <2>2
  <2> QED
    BY <2>1, <2>2, <2>3
<1> QED
  BY <1>6, <1>7

(* The header is one whole line.  Where no name holds a comma or a quote   *)
(* it is written like a row, and the names are read back.                  *)
LEMMA HeaderWritten ==
    ASSUME NEW names \in Seq(Text)
    PROVE  /\ HeaderBytes(names) \in Line /\ Whole(HeaderBytes(names))
           /\ (\A c \in DOMAIN names : ~Has(names[c], {Comma, Quote})) =>
                 HeaderBytes(names) = WriteRow(names)
<1>1. Joined(names) \in Text
  BY JoinedMore, EmptySeq DEF Text
<1>2. HeaderBytes(names) \in Line /\ Whole(HeaderBytes(names))
  BY <1>1, EndedLine DEF HeaderBytes
<1>3. ASSUME \A c \in DOMAIN names : ~Has(names[c], {Comma, Quote})
      PROVE  HeaderBytes(names) = WriteRow(names)
  <2>1. DOMAIN names = 1 .. Len(names) /\ \A c \in DOMAIN names : names[c] \in Text
    BY LenProperties, ElementOfSeq
  <2>2. \A t \in Text : ~Has(t, {Newline})
    BY ByteFacts, ElementOfSeq, LenProperties DEF Has, Text
  <2>3. \A c \in DOMAIN names : ~Has(names[c], {Comma, Quote, Newline})
    BY <1>3, <2>1, <2>2 DEF Has
  <2>4. \A c \in DOMAIN names : WriteField(names[c]) = names[c]
    BY <2>3 DEF WriteField
  <2>5. Fields(names) = names
    BY <2>1, <2>4 DEF Fields
  <2> QED
    BY <2>5 DEF HeaderBytes, WriteRow, Fields
<1> QED
  BY <1>2, <1>3

(* How long fields and rows are.                                           *)
LEMMA FieldLength ==
    ASSUME NEW t \in Text
    PROVE  /\ Len(t) \in Nat /\ Len(WriteField(t)) \in Nat
           /\ Len(WriteField(t)) <= 2 * Len(t) + 2
           /\ ~Has(t, {Comma, Quote}) => WriteField(t) = t
<1> DEFINE T == {u \in Seq(Piece) : Len(Doubled(u)) \in Nat /\ Len(Doubled(u)) <= 2 * Len(u)}
<1>1. <<>> \in T
  <2>1. Doubled(<<>>) = <<>>
    BY DEF Doubled, FlattenSeq
  <2> QED
    BY <2>1, EmptySeq
<1>2. ASSUME NEW u \in Seq(Piece), NEW e \in Piece, u \in T PROVE Append(u, e) \in T
  <2>1. Doubled(u) \in Text /\ Doubled(Append(u, e)) = Doubled(u) \o DoubledByte(e)
    BY DoubledMore DEF Text
  <2>2. DoubledByte(e) \in Seq(Piece) /\ Len(DoubledByte(e)) \in {1, 2}
    BY DEF DoubledByte
  <2>3. PICK d, v : d = Doubled(u) /\ v = Doubled(Append(u, e))
    OBVIOUS
  <2>4. Len(v) = Len(d) + Len(DoubledByte(e)) /\ Len(d) \in Nat
    BY <2>1, <2>2, <2>3, ConcatFacts DEF Text
  <2>5. Len(Append(u, e)) = Len(u) + 1 /\ Append(u, e) \in Seq(Piece) /\ Len(u) \in Nat
    BY AppendProperties, LenProperties
  <2>6. Len(d) <= 2 * Len(u)
    BY <1>2, <2>3
  <2>7. Len(v) \in Nat /\ Len(v) <= 2 * (Len(u) + 1)
    <3>1. PICK i, j, k, m : i = Len(v) /\ j = Len(d) /\ k = Len(DoubledByte(e)) /\ m = Len(u)
      OBVIOUS
    <3>2. i = j + k /\ j \in Nat /\ m \in Nat /\ k \in {1, 2} /\ j <= 2 * m
      BY <2>2, <2>4, <2>5, <2>6, <3>1
    <3>3. i \in Nat /\ i <= 2 * (m + 1)
      BY <3>2
    <3> QED
      BY <3>1, <3>3
  <2> QED
    BY <2>3, <2>5, <2>7
<1> HIDE DEF T
<1>3. \A u \in Seq(Piece) : u \in T
  BY <1>1, <1>2, AppendInduction
<1>4. Len(Doubled(t)) \in Nat /\ Len(Doubled(t)) <= 2 * Len(t) /\ Len(t) \in Nat
  BY <1>3, LenProperties DEF T, Text
<1>5. ~Has(t, {Comma, Quote}) => WriteField(t) = t
  <2>1. ~Has(t, {Newline})
    BY ByteFacts, ElementOfSeq, LenProperties DEF Has, Text
  <2> QED
    BY <2>1 DEF WriteField, Has
<1>6. CASE Has(t, {Comma, Quote, Newline})
  <2> DEFINE q == <<Quote>>
  <2>1. PICK d, w : d = Doubled(t) /\ w = WriteField(t)
    OBVIOUS
  <2>2. q \in Seq(Piece) /\ d \in Seq(Piece) /\ Len(q) = 1
    BY <2>1, DoubledMore, ByteFacts DEF Text
  <2>3. w = (q \o d) \o q
    BY <1>6, <2>1 DEF WriteField
  <2> HIDE DEF q
  <2>4. q \o d \in Seq(Piece) /\ Len(q \o d) = Len(q) + Len(d) /\ Len(d) \in Nat
    BY <2>2, ConcatFacts
  <2>5. Len((q \o d) \o q) = Len(q \o d) + Len(q)
    BY <2>2, <2>4, ConcatFacts
  <2>6. Len(w) = 1 + Len(d) + 1
    BY <2>2, <2>3, <2>4, <2>5
  <2> QED
    BY <1>4, <1>5, <2>1, <2>4, <2>6
<1>7. CASE ~Has(t, {Comma, Quote, Newline})
  <2>1. WriteField(t) = t
    BY <1>7 DEF WriteField
  <2> QED
    BY <1>4, <2>1
<1> QED
  BY <1>4, <1>5, <1>6, <1>7

LEMMA RowLength ==
    ASSUME NEW M \in Nat
    PROVE  \A r \in Seq(Text) :
              r # <<>> /\ (\A c \in 1 .. Len(r) : Len(WriteField(r[c])) <= M) =>
                 Len(WriteRow(r)) \in Nat /\ Len(WriteRow(r)) <= Len(r) * (M + 1)
<1> DEFINE Short(r) == \A c \in 1 .. Len(r) : Len(WriteField(r[c])) <= M
           T == {r \in Seq(Text) : r # <<>> /\ Short(r) =>
                   /\ Len(Joined(Fields(r))) \in Nat
                   /\ Len(Joined(Fields(r))) + 1 <= Len(r) * (M + 1)}
<1>1. <<>> \in T
  BY EmptySeq
<1>2. ASSUME NEW r \in Seq(Text), NEW t \in Text, r \in T PROVE Append(r, t) \in T
  <2>0. PICK v : v = Append(r, t)
    OBVIOUS
  <2>1. /\ v \in Seq(Text) /\ Len(v) = Len(r) + 1 /\ v[Len(r) + 1] = t
        /\ \A k \in 1 .. Len(r) : v[k] = r[k]
        /\ Len(r) \in Nat
    BY <2>0, AppendProperties, LenProperties
  <2> SUFFICES ASSUME Short(v)
               PROVE  /\ Len(Joined(Fields(v))) \in Nat
                      /\ Len(Joined(Fields(v))) + 1 <= Len(v) * (M + 1)
    BY <2>0, <2>1
  <2>2. Short(r) /\ Len(WriteField(t)) <= M /\ Len(WriteField(t)) \in Nat
    <3>1. \A c \in 1 .. Len(r) : c \in 1 .. Len(v)
      BY <2>1
    <3>2. Len(r) + 1 \in 1 .. Len(v)
      BY <2>1
    <3> QED
      BY <2>1, <3>1, <3>2, FieldLength
  <2>3. PICK f, e, b, j, w : /\ f = Fields(r) /\ e = WriteField(t) /\ b = Between(f, e)
                             /\ j = Joined(f) /\ w = Joined(Fields(v))
    OBVIOUS
  <2>4. f \in Seq(Text) /\ e \in Text /\ Fields(v) = Append(f, e) /\ (f = <<>> <=> r = <<>>)
    BY <2>0, <2>3, FieldsMore, FieldRead, EmptySeq
  <2>5. j \in Text /\ b \in Text /\ w = j \o b
    BY <2>3, <2>4, JoinedMore
  <2>6. Len(w) = Len(j) + Len(b) /\ Len(j) \in Nat /\ Len(b) \in Nat
    BY <2>5, ConcatFacts DEF Text
  <2> HIDE DEF Short
  <2>7. CASE r = <<>>
    <3>1. j = <<>> /\ b = e
      <4>1. f = <<>>
        BY <2>4, <2>7
      <4>2. Joined(<<>>) = <<>>
        BY DEF Joined, FlattenSeq
      <4> QED
        BY <2>3, <4>1, <4>2 DEF Between
    <3>2. Len(j) = 0 /\ Len(r) = 0
      BY <2>7, <3>1
    <3>3. Len(w) <= M /\ Len(v) = 1
      BY <2>1, <2>2, <2>3, <2>6, <3>1, <3>2
    <3> QED
      BY <2>3, <2>6, <3>3
  <2>8. CASE r # <<>>
    <3>1. Len(j) + 1 <= Len(r) * (M + 1)
      BY <1>2, <2>2, <2>3, <2>8
    <3>2. b = <<Comma>> \o e /\ <<Comma>> \in Seq(Piece) /\ e \in Seq(Piece) /\ Len(<<Comma>>) = 1
      BY <2>3, <2>4, <2>8, ByteFacts DEF Between, Text
    <3>3. Len(b) = 1 + Len(e)
      BY <3>2, ConcatFacts
    <3>4. Len(b) <= M + 1
      BY <2>2, <2>3, <3>3
    <3>5. Len(v) * (M + 1) = Len(r) * (M + 1) + (M + 1)
      <4>1. PICK n : n = Len(r) /\ n \in Nat
        BY <2>1
      <4>2. (n + 1) * (M + 1) = n * (M + 1) + (M + 1)
        BY <4>1
      <4> QED
        BY <2>1, <4>1, <4>2
    <3>6. PICK x, y, p, n : x = Len(j) /\ y = Len(b) /\ p = Len(r) * (M + 1) /\ n = Len(r)
      OBVIOUS
    <3>7. x \in Nat /\ y \in Nat /\ p \in Nat
      BY <2>1, <2>6, <3>6
    <3>8. x + y + 1 <= p + (M + 1)
      BY <3>1, <3>4, <3>6, <3>7
    <3> QED
      BY <2>3, <2>6, <3>5, <3>6, <3>7, <3>8
  <2> QED
    BY <2>7, <2>8
<1> HIDE DEF T
<1>3. \A r \in Seq(Text) : r \in T
  BY <1>1, <1>2, AppendInduction
<1>4. ASSUME NEW r \in Seq(Text), r # <<>>, Short(r)
      PROVE  Len(WriteRow(r)) \in Nat /\ Len(WriteRow(r)) <= Len(r) * (M + 1)
  <2>1. Len(Joined(Fields(r))) \in Nat /\ Len(Joined(Fields(r))) + 1 <= Len(r) * (M + 1)
    BY <1>3, <1>4 DEF T
  <2>2. Joined(Fields(r)) \in Text
    <3>1. Fields(r) \in Seq(Text) /\ <<>> \in Text
      BY FieldsMore, EmptySeq DEF Text
    <3> QED
      BY <3>1, JoinedMore
  <2>3. Len(Joined(Fields(r)) \o <<Newline>>) = Len(Joined(Fields(r))) + 1
    BY <2>2, EndedLine
  <2>4. WriteRow(r) = Joined(Fields(r)) \o <<Newline>>
    BY DEF WriteRow, Fields
  <2> QED
    BY <2>1, <2>3, <2>4
<1> QED
  BY <1>4

(* Without a line end the reader does not stop.                            *)
LEMMA NotOver ==
    ASSUME NEW state \in ReaderState, state.mode # "over"
    PROVE  \A t \in Text : After(state, t).mode # "over"
<1> DEFINE T == {t \in Seq(Piece) : After(state, t).mode # "over"}
<1>1. <<>> \in T
  BY AfterNone, EmptySeq
<1>2. ASSUME NEW t \in Seq(Piece), NEW e \in Piece, t \in T PROVE Append(t, e) \in T
  <2>1. After(state, Append(t, e)) = ReadByte(After(state, t), e)
    BY AfterMore
  <2>2. ReadByte(After(state, t), e).mode = NextMode(After(state, t).mode, e)
    BY ReadByteFacts
  <2>3. e \notin LineEnds
    BY ByteFacts DEF Byte
  <2>4. NextMode(After(state, t).mode, e) # "over"
    BY <1>2, <2>3 DEF NextMode
  <2> QED
    BY <2>1, <2>2, <2>4, AppendProperties
<1> HIDE DEF T
<1>3. \A t \in Seq(Piece) : t \in T
  BY <1>1, <1>2, AppendInduction
<1> QED
  BY <1>3 DEF T, Text

(* What is left of torn rows shows in the first cell of the line only, or  *)
(* adds cells to it.                                                       *)
LEMMA DamagedLine ==
    ASSUME NEW l \in Seq(Byte), NEW r \in Seq(Text), r # <<>>, EndsIn(l, WriteRow(r)),
           \A k \in 1 .. Len(l) - 1 : l[k] \in Piece,
           ~Unclosed(Before(l, WriteRow(r))), Len(CellsOf(l)) = Len(r)
    PROVE  Tail(CellsOf(l)) = Tail(r)
<1>1. PICK R : R = WriteRow(r)
  OBVIOUS
<1>2. PICK P : P = Before(l, R)
  OBVIOUS
<1>3. R \in Seq(Byte) /\ R # <<>> /\ Len(R) \in Nat \ {0} /\ CellsOf(R) = r
  <2>1. R \in Line /\ CellsOf(R) = r
    BY <1>1, RowWritten
  <2>2. R \in Seq(Byte) /\ R # <<>>
    BY <2>1 DEF Line
  <2> QED
    BY <2>1, <2>2, EmptySeq
<1>4. Len(R) <= Len(l) /\ l = P \o R /\ Len(l) \in Nat
  BY <1>1, <1>2, LenProperties DEF EndsIn
<1>5. P \in Text
  <2>1. P = SubSeq(l, 1, Len(l) - Len(R))
    BY <1>2 DEF Before
  <2>2. \A k \in 1 .. Len(l) - Len(R) : k \in 1 .. Len(l) - 1
    BY <1>3, <1>4
  <2>3. \A k \in 1 .. Len(l) - Len(R) : l[k] \in Piece
    BY <2>2
  <2>4. Len(l) - Len(R) \in Int
    BY <1>3, <1>4
  <2> QED
    BY <2>1, <2>3, <2>4, SubSeqProperties DEF Text
<1>6. PICK s : s = After(LineStart, P)
  OBVIOUS
<1>7. s \in ReaderState /\ s.mode \in {"plain", "closed"}
  <2>1. P \in Seq(Byte)
    BY <1>5, ByteFacts
  <2>2. s \in ReaderState
    BY <1>6, <2>1, AfterType, LineStartType
  <2>3. s.mode # "over"
    BY <1>5, <1>6, NotOver, LineStartType DEF LineStart
  <2>4. s.mode # "quoted"
    BY <1>1, <1>2, <1>6 DEF Unclosed
  <2> QED
    BY <2>2, <2>3, <2>4 DEF ReaderState, Modes
<1>8. PICK d : d = Len(s.cells) - 1
  OBVIOUS
<1>9. d \in Nat
  BY <1>7, <1>8, EmptySeq DEF ReaderState
<1>10. Shifted(d, s, LineStart)
  <2>1. Len(LineStart.cells) = 1 /\ LineStart.mode = "plain"
    BY DEF LineStart
  <2>2. Len(s.cells) = 1 + d
    BY <1>7, <1>8, EmptySeq DEF ReaderState
  <2> QED
    BY <1>7, <2>1, <2>2 DEF Shifted
<1>11. Shifted(d, After(s, R), After(LineStart, R))
  BY <1>3, <1>7, <1>9, <1>10, ShiftedAfter, LineStartType
<1>12. After(s, R) = After(LineStart, l)
  <2>1. P \in Seq(Byte)
    BY <1>5, ByteFacts
  <2> QED
    BY <1>3, <1>4, <1>6, <2>1, AfterConcat
<1>13. PICK c : c = CellsOf(l)
  OBVIOUS
<1>14. Len(c) = Len(r) + d /\ \A k \in 2 .. Len(r) : c[k + d] = r[k]
  BY <1>3, <1>11, <1>12, <1>13 DEF Shifted, CellsOf
<1>15. c \in Seq(Text) /\ c # <<>> /\ Len(c) \in Nat \ {0} /\ Len(r) \in Nat
  BY <1>13, CellsType, LenProperties
<1>16. d = 0 /\ Len(c) = Len(r)
  BY <1>9, <1>13, <1>14, <1>15
<1>17. \A k \in 2 .. Len(r) : c[k] = r[k]
  BY <1>14, <1>16
<1>18. PICK tc, tr : tc = Tail(c) /\ tr = Tail(r)
  OBVIOUS
<1>19. /\ tc \in Seq(Text) /\ Len(tc) = Len(c) - 1 /\ \A k \in 1 .. Len(tc) : tc[k] = c[k + 1]
       /\ tr \in Seq(Text) /\ Len(tr) = Len(r) - 1 /\ \A k \in 1 .. Len(tr) : tr[k] = r[k + 1]
  BY <1>15, <1>18, HeadTailProperties
<1>20. \A k \in 1 .. Len(tc) : tc[k] = tr[k]
  <2> TAKE k \in 1 .. Len(tc)
  <2>1. k + 1 \in 2 .. Len(r) /\ k \in 1 .. Len(tr)
    BY <1>15, <1>16, <1>19
  <2> QED
    BY <1>17, <1>19, <2>1
<1>21. tc = tr
  BY <1>16, <1>19, <1>20, SeqEqual
<1> QED
  BY <1>13, <1>18, <1>21

-----------------------------------------------------------------------------
(* Lines                                                                   *)
-----------------------------------------------------------------------------
(* What one write puts into the file: nothing, or bytes of one line.       *)
Chunk == {<<>>} \cup Line

LEMMA LineFacts ==
    ASSUME NEW l \in Line
    PROVE  /\ l \in Seq(Byte) /\ l # <<>> /\ Len(l) \in Nat \ {0} /\ Len(l) \in 1 .. Len(l)
           /\ \A k \in 1 .. Len(l) - 1 : l[k] # Newline
           /\ Whole(l) <=> l[Len(l)] = Newline
<1>1. l \in Seq(Byte) /\ l # <<>> /\ \A k \in 1 .. Len(l) - 1 : l[k] # Newline
  BY DEF Line
<1>2. Len(l) \in Nat \ {0}
  BY <1>1, EmptySeq
<1>3. Len(l) \in 1 .. Len(l)
  BY <1>2
<1> QED
  BY <1>1, <1>2, <1>3 DEF Whole

LEMMA LinesFacts ==
    ASSUME NEW ls \in Lines
    PROVE  /\ ls \in Seq(Line) /\ Len(ls) \in Nat /\ DOMAIN ls = 1 .. Len(ls)
           /\ \A k \in 1 .. Len(ls) - 1 : Whole(ls[k])
           /\ \A k \in 1 .. Len(ls) : ls[k] \in Line
           /\ ls # <<>> => Len(ls) \in 1 .. Len(ls) /\ Last(ls) = ls[Len(ls)]
<1>1. ls \in Seq(Line) /\ \A k \in 1 .. Len(ls) - 1 : Whole(ls[k])
  BY DEF Lines
<1>2. Len(ls) \in Nat /\ DOMAIN ls = 1 .. Len(ls) /\ \A k \in 1 .. Len(ls) : ls[k] \in Line
  BY <1>1, LenProperties, ElementOfSeq
<1>3. ls # <<>> => Len(ls) \in 1 .. Len(ls)
  <2>1. ls # <<>> => Len(ls) \in Nat \ {0}
    BY <1>1, EmptySeq
  <2> QED
    BY <2>1
<1> QED
  BY <1>1, <1>2, <1>3 DEF Last

LEMMA NoLines == <<>> \in Lines /\ <<>> \in Seq(Line)
<1> QED
  BY EmptySeq DEF Lines

(* An unterminated line and what is written behind it are one line.        *)
LEMMA JoinedLine ==
    ASSUME NEW l \in Line, ~Whole(l), NEW b \in Line, NEW j, j = l \o b
    PROVE  /\ j \in Line /\ (Whole(j) <=> Whole(b)) /\ Len(j) = Len(l) + Len(b)
           /\ \A k \in 1 .. Len(l) : j[k] = l[k]
           /\ \A k \in 1 .. Len(b) : j[Len(l) + k] = b[k]
<1>1. /\ l \in Seq(Byte) /\ Len(l) \in Nat \ {0} /\ l[Len(l)] # Newline
      /\ \A k \in 1 .. Len(l) - 1 : l[k] # Newline
  BY LineFacts
<1>2. /\ b \in Seq(Byte) /\ Len(b) \in Nat \ {0} /\ \A k \in 1 .. Len(b) - 1 : b[k] # Newline
      /\ Len(b) \in 1 .. Len(b) /\ (Whole(b) <=> b[Len(b)] = Newline)
  BY LineFacts
<1>3. /\ j \in Seq(Byte) /\ Len(j) = Len(l) + Len(b)
      /\ \A k \in 1 .. Len(l) : j[k] = l[k]
      /\ \A k \in 1 .. Len(b) : j[Len(l) + k] = b[k]
  BY <1>1, <1>2, ConcatFacts
<1>4. ASSUME NEW k \in 1 .. Len(j) - 1 PROVE j[k] # Newline
  <2>1. CASE k \in 1 .. Len(l)
    <3>1. k = Len(l) \/ k \in 1 .. Len(l) - 1
      BY <1>1, <2>1
    <3> QED
      BY <1>1, <1>3, <2>1, <3>1
  <2>2. CASE k \notin 1 .. Len(l)
    <3>1. PICK i : i = k - Len(l)
      OBVIOUS
    <3>2. i \in 1 .. Len(b) - 1 /\ i \in 1 .. Len(b) /\ Len(l) + i = k
      BY <1>1, <1>2, <1>3, <2>2, <3>1
    <3>3. j[k] = b[i]
      BY <1>3, <3>2
    <3> QED
      BY <1>2, <3>2, <3>3
  <2> QED
    BY <2>1, <2>2
<1>5. j # <<>>
  BY <1>1, <1>2, <1>3, EmptySeq
<1>6. j[Len(j)] = b[Len(b)]
  BY <1>2, <1>3
<1> QED
  BY <1>2, <1>3, <1>4, <1>5, <1>6 DEF Line, Whole

LEMMA TornType ==
    ASSUME NEW l \in Line, NEW t \in Torn(l)
    PROVE  /\ t \in Chunk /\ ~Whole(t) /\ t \in Seq(Byte) /\ Len(t) < Len(l) /\ Len(t) \in Nat
           /\ \A k \in 1 .. Len(t) : t[k] = l[k] /\ k \in 1 .. Len(l) - 1
<1>1. PICK n \in 0 .. Len(l) - 1 : t = SubSeq(l, 1, n)
  BY DEF Torn
<1>2. l \in Seq(Byte) /\ Len(l) \in Nat \ {0} /\ \A k \in 1 .. Len(l) - 1 : l[k] # Newline
  BY LineFacts
<1>3. \A k \in 1 .. n : k \in 1 .. Len(l) - 1 /\ k \in 1 .. Len(l) /\ 1 + k - 1 = k
  BY <1>2
<1>4. \A k \in 1 .. n : l[k] \in Byte
  BY <1>2, <1>3, ElementOfSeq
<1>5. t \in Seq(Byte) /\ Len(t) = n /\ \A k \in 1 .. n : t[k] = l[k]
  <2>1. /\ t \in Seq(Byte) /\ Len(t) = IF 1 <= n THEN n - 1 + 1 ELSE 0
        /\ \A k \in 1 .. n - 1 + 1 : t[k] = l[1 + k - 1]
    BY <1>1, <1>4, SubSeqProperties
  <2> QED
    BY <1>2, <1>3, <2>1
<1>6. \A k \in 1 .. n : t[k] # Newline
  BY <1>2, <1>3, <1>5
<1>7. CASE n = 0
  <2>1. t = <<>>
    BY <1>5, <1>7, EmptySeq
  <2> QED
    BY <1>2, <1>5, <1>7, <2>1 DEF Chunk, Whole
<1>8. CASE n # 0
  <2>1. t # <<>> /\ n \in 1 .. n /\ \A k \in 1 .. n - 1 : k \in 1 .. n
    BY <1>5, <1>8
  <2>2. t \in Line
    BY <1>5, <1>6, <2>1 DEF Line
  <2>3. ~Whole(t)
    BY <1>5, <1>6, <2>1 DEF Whole
  <2> QED
    BY <1>2, <1>3, <1>5, <2>2, <2>3 DEF Chunk
<1> QED
  BY <1>7, <1>8

LEMMA WriteAtEndCases ==
    ASSUME NEW ls, NEW b
    PROVE  /\ b = <<>> => WriteAtEnd(ls, b) = ls
           /\ b # <<>> /\ ls # <<>> /\ ~Whole(Last(ls)) =>
                 WriteAtEnd(ls, b) = Append(Front(ls), Last(ls) \o b)
           /\ b # <<>> /\ ~(ls # <<>> /\ ~Whole(Last(ls))) => WriteAtEnd(ls, b) = Append(ls, b)
<1> QED
  BY Zenon DEF WriteAtEnd

(* A write behind an unterminated line changes that line only.             *)
LEMMA LastExtended ==
    ASSUME NEW ls \in Lines, ls # <<>>, NEW l \in Line,
           NEW new, new = Append(Front(ls), l)
    PROVE  /\ new \in Lines /\ Len(new) = Len(ls) /\ new[Len(ls)] = l
           /\ \A k \in 1 .. Len(ls) : k # Len(ls) => new[k] = ls[k]
<1>1. /\ ls \in Seq(Line) /\ Len(ls) \in Nat \ {0} /\ \A k \in 1 .. Len(ls) : ls[k] \in Line
      /\ \A k \in 1 .. Len(ls) - 1 : Whole(ls[k])
  BY LinesFacts, EmptySeq
<1>2. PICK f : f = Front(ls)
  OBVIOUS
<1>3. f \in Seq(Line) /\ Len(f) = Len(ls) - 1 /\ \A k \in 1 .. Len(ls) - 1 : f[k] = ls[k]
  <2>1. \A k \in 1 .. Len(ls) - 1 : k \in 1 .. Len(ls) /\ 1 + k - 1 = k
    BY <1>1
  <2>2. \A k \in 1 .. Len(ls) - 1 : ls[k] \in Line
    BY <1>1, <2>1
  <2>3. Len(ls) - 1 \in Int
    BY <1>1
  <2>4. /\ f \in Seq(Line) /\ Len(f) = IF 1 <= Len(ls) - 1 THEN Len(ls) - 1 - 1 + 1 ELSE 0
        /\ \A k \in 1 .. Len(ls) - 1 - 1 + 1 : f[k] = ls[1 + k - 1]
    BY <1>2, <2>2, <2>3, SubSeqProperties DEF Front
  <2>5. PICK N : N = Len(ls) /\ N \in Nat \ {0}
    BY <1>1
  <2>6. N - 1 - 1 + 1 = N - 1 /\ (IF 1 <= N - 1 THEN N - 1 - 1 + 1 ELSE 0) = N - 1
    BY <2>5
  <2> QED
    BY <2>1, <2>4, <2>5, <2>6
<1>4. /\ new \in Seq(Line) /\ Len(new) = Len(f) + 1 /\ new[Len(f) + 1] = l
      /\ \A k \in 1 .. Len(f) : new[k] = f[k]
  BY <1>2, <1>3, AppendProperties
<1>5. Len(new) = Len(ls) /\ new[Len(ls)] = l
  BY <1>1, <1>3, <1>4
<1>6. \A k \in 1 .. Len(ls) : k # Len(ls) => new[k] = ls[k]
  <2> TAKE k \in 1 .. Len(ls)
  <2> SUFFICES ASSUME k # Len(ls) PROVE new[k] = ls[k]
    OBVIOUS
  <2>1. k \in 1 .. Len(ls) - 1 /\ k \in 1 .. Len(f)
    BY <1>1, <1>3
  <2> QED
    BY <1>3, <1>4, <2>1
<1>7. \A k \in 1 .. Len(new) - 1 : Whole(new[k])
  <2> TAKE k \in 1 .. Len(new) - 1
  <2>1. k \in 1 .. Len(ls) - 1 /\ k \in 1 .. Len(ls) /\ k # Len(ls)
    BY <1>1, <1>5
  <2> QED
    BY <1>1, <1>6, <2>1
<1> QED
  BY <1>4, <1>5, <1>6, <1>7 DEF Lines

(* A line written behind whole lines is one more line.                     *)
LEMMA LineAdded ==
    ASSUME NEW ls \in Lines, ls = <<>> \/ Whole(Last(ls)), NEW l \in Line,
           NEW new, new = Append(ls, l)
    PROVE  /\ new \in Lines /\ Len(new) = Len(ls) + 1 /\ new[Len(ls) + 1] = l
           /\ \A k \in 1 .. Len(ls) : new[k] = ls[k] /\ Whole(ls[k])
<1>1. /\ ls \in Seq(Line) /\ Len(ls) \in Nat
      /\ \A k \in 1 .. Len(ls) - 1 : Whole(ls[k])
      /\ ls # <<>> => Len(ls) \in 1 .. Len(ls) /\ Last(ls) = ls[Len(ls)]
  BY LinesFacts
<1>2. /\ new \in Seq(Line) /\ Len(new) = Len(ls) + 1 /\ new[Len(ls) + 1] = l
      /\ \A k \in 1 .. Len(ls) : new[k] = ls[k]
  BY <1>1, AppendProperties
<1>3. \A k \in 1 .. Len(ls) : Whole(ls[k])
  <2> TAKE k \in 1 .. Len(ls)
  <2>1. CASE k = Len(ls)
    <3>1. ls # <<>>
      BY <1>1, <2>1
    <3> QED
      BY <1>1, <2>1, <3>1
  <2>2. CASE k # Len(ls)
    <3>1. k \in 1 .. Len(ls) - 1
      BY <1>1, <2>2
    <3> QED
      BY <1>1, <3>1
  <2> QED
    BY <2>1, <2>2
<1>4. \A k \in 1 .. Len(new) - 1 : Whole(new[k])
  <2>1. Len(new) - 1 = Len(ls)
    BY <1>1, <1>2
  <2> QED
    BY <1>2, <1>3, <2>1
<1> QED
  BY <1>2, <1>3, <1>4 DEF Lines

LEMMA WriteAtEndType ==
    ASSUME NEW ls \in Lines, NEW b \in Chunk
    PROVE  WriteAtEnd(ls, b) \in Lines
<1>1. CASE b = <<>>
  BY <1>1, WriteAtEndCases
<1>2. CASE b # <<>> /\ ls # <<>> /\ ~Whole(Last(ls))
  <2>1. Last(ls) \in Line /\ b \in Line
    BY <1>2, LinesFacts DEF Chunk
  <2>2. PICK j : j = Last(ls) \o b
    OBVIOUS
  <2>3. j \in Line
    BY <1>2, <2>1, <2>2, JoinedLine
  <2>4. WriteAtEnd(ls, b) = Append(Front(ls), j)
    BY <1>2, <2>2, WriteAtEndCases
  <2> QED
    BY <1>2, <2>3, <2>4, LastExtended
<1>3. CASE b # <<>> /\ ~(ls # <<>> /\ ~Whole(Last(ls)))
  <2>1. b \in Line /\ WriteAtEnd(ls, b) = Append(ls, b)
    BY <1>3, WriteAtEndCases DEF Chunk
  <2> QED
    BY <1>3, <2>1, LineAdded
<1> QED
  BY <1>1, <1>2, <1>3

(* A first line and the lines behind it.                                   *)
LEMMA LinesPrepended ==
    ASSUME NEW l \in Line, NEW ls \in Lines, ls # <<>> => Whole(l)
    PROVE  <<l>> \o ls \in Lines
<1>1. /\ ls \in Seq(Line) /\ Len(ls) \in Nat
      /\ \A k \in 1 .. Len(ls) - 1 : Whole(ls[k])
  BY LinesFacts
<1>2. PICK c : c = <<l>> \o ls
  OBVIOUS
<1>3. /\ c \in Seq(Line) /\ Len(c) = Len(ls) + 1 /\ c[1] = l
      /\ \A k \in 1 .. Len(ls) : c[1 + k] = ls[k]
  BY <1>1, <1>2, Prepended
<1>4. \A k \in 1 .. Len(c) - 1 : Whole(c[k])
  <2> TAKE k \in 1 .. Len(c) - 1
  <2>1. CASE k = 1
    <3>1. Len(ls) # 0
      BY <1>1, <1>3, <2>1
    <3>2. ls # <<>>
      BY <3>1
    <3> QED
      BY <1>3, <2>1, <3>2
  <2>2. CASE k # 1
    <3>1. PICK i : i = k - 1
      OBVIOUS
    <3>2. i \in 1 .. Len(ls) - 1 /\ i \in 1 .. Len(ls) /\ k = 1 + i
      BY <1>1, <1>3, <2>2, <3>1
    <3>3. c[k] = ls[i]
      BY <1>3, <3>2
    <3> QED
      BY <1>1, <3>2, <3>3
  <2> QED
    BY <2>1, <2>2
<1> QED
  BY <1>2, <1>3, <1>4 DEF Lines

LEMMA EndingsType ==
    ASSUME NEW ls \in Lines, NEW r \in Endings(ls)
    PROVE  r \in Lines /\ r # <<>>
<1>1. PICK k \in DOMAIN ls :
        \E n \in 1 .. Len(ls[k]) :
            r = <<SubSeq(ls[k], n, Len(ls[k]))>> \o SubSeq(ls, k + 1, Len(ls))
  BY DEF Endings
<1>2. PICK n \in 1 .. Len(ls[k]) :
            r = <<SubSeq(ls[k], n, Len(ls[k]))>> \o SubSeq(ls, k + 1, Len(ls))
  BY <1>1
<1>3. PICK l, L, e, o, N : /\ l = ls[k] /\ L = Len(ls[k]) /\ e = SubSeq(ls[k], n, Len(ls[k]))
                           /\ o = SubSeq(ls, k + 1, Len(ls)) /\ N = Len(ls)
  OBVIOUS
<1>4. /\ ls \in Seq(Line) /\ N \in Nat /\ k \in 1 .. N /\ l \in Line
      /\ \A j \in 1 .. N : ls[j] \in Line
      /\ \A j \in 1 .. N - 1 : Whole(ls[j])
  BY <1>3, LinesFacts
<1>5. /\ l \in Seq(Byte) /\ L \in Nat \ {0} /\ L = Len(l) /\ n \in 1 .. L
      /\ \A j \in 1 .. L - 1 : l[j] # Newline
  BY <1>3, <1>4, LineFacts
<1>6. /\ e \in Seq(Byte) /\ Len(e) = L - n + 1
      /\ \A j \in 1 .. L - n + 1 : e[j] = l[n + j - 1]
  <2>1. \A j \in n .. L : l[j] \in Byte
    <3>1. \A j \in n .. L : j \in 1 .. Len(l)
      BY <1>5
    <3> QED
      BY <1>5, <3>1, ElementOfSeq
  <2>2. /\ e \in Seq(Byte) /\ Len(e) = IF n <= L THEN L - n + 1 ELSE 0
        /\ \A j \in 1 .. L - n + 1 : e[j] = l[n + j - 1]
    BY <1>3, <1>5, <2>1, SubSeqProperties
  <2> QED
    BY <1>5, <2>2
<1>7. e \in Line /\ (Whole(e) <=> Whole(l))
  <2>1. e # <<>>
    BY <1>5, <1>6, EmptySeq
  <2>2. \A j \in 1 .. Len(e) - 1 : e[j] # Newline
    <3> TAKE j \in 1 .. Len(e) - 1
    <3>1. n + j - 1 \in 1 .. L - 1 /\ j \in 1 .. L - n + 1
      BY <1>5, <1>6
    <3> QED
      BY <1>5, <1>6, <3>1
  <2>3. e[Len(e)] = l[L]
    <3>1. Len(e) \in 1 .. L - n + 1 /\ n + Len(e) - 1 = L
      BY <1>5, <1>6
    <3> QED
      BY <1>6, <3>1
  <2>4. l # <<>>
    BY <1>4, LineFacts
  <2> QED
    BY <1>5, <1>6, <2>1, <2>2, <2>3, <2>4 DEF Line, Whole
<1>8. /\ o \in Seq(Line) /\ Len(o) = N - k /\ \A j \in 1 .. N - k : o[j] = ls[k + j]
  <2>1. \A j \in k + 1 .. N : ls[j] \in Line
    BY <1>4
  <2>2. k + 1 \in Int /\ N \in Int
    BY <1>4
  <2>3. /\ o \in Seq(Line) /\ Len(o) = IF k + 1 <= N THEN N - (k + 1) + 1 ELSE 0
        /\ \A j \in 1 .. N - (k + 1) + 1 : o[j] = ls[k + 1 + j - 1]
    BY <1>3, <2>1, <2>2, SubSeqProperties
  <2>4. N - (k + 1) + 1 = N - k /\ \A j \in 1 .. N - k : k + 1 + j - 1 = k + j
    BY <1>4
  <2> QED
    BY <1>4, <2>3, <2>4
<1>9. o \in Lines /\ (o # <<>> => Whole(l))
  <2>1. \A j \in 1 .. Len(o) - 1 : Whole(o[j])
    <3> TAKE j \in 1 .. Len(o) - 1
    <3>1. k + j \in 1 .. N - 1 /\ j \in 1 .. N - k
      BY <1>4, <1>8
    <3> QED
      BY <1>4, <1>8, <3>1
  <2>2. ASSUME o # <<>> PROVE Whole(l)
    <3>1. Len(o) # 0
      BY <1>8, <2>2, EmptySeq
    <3>2. k \in 1 .. N - 1
      BY <1>4, <1>8, <3>1
    <3> QED
      BY <1>3, <1>4, <3>2
  <2> QED
    BY <1>8, <2>1, <2>2 DEF Lines
<1>10. r = <<e>> \o o
  BY <1>2, <1>3
<1>11. r \in Lines
  BY <1>7, <1>9, <1>10, LinesPrepended
<1>12. r # <<>>
  <2>1. Len(r) = Len(o) + 1 /\ Len(o) \in Nat
    BY <1>7, <1>8, <1>10, Prepended
  <2> QED
    BY <2>1
<1> QED
  BY <1>11, <1>12

LEMMA WriteAtStartType ==
    ASSUME NEW ls \in Lines, NEW b \in Chunk, NEW new \in WriteAtStart(ls, b)
    PROVE  new \in Lines
<1>1. PICK rest \in Remainders(ls, Len(b)) :
        new = CASE rest = <<>> -> WriteAtEnd(<<>>, b)
                [] rest # <<>> /\ Whole(b) -> <<b>> \o rest
                [] OTHER -> <<b \o Head(rest)>> \o Tail(rest)
  BY DEF WriteAtStart
<1>2. rest \in Lines
  BY EndingsType, NoLines DEF Remainders
<1>3. CASE rest = <<>>
  <2>1. new = WriteAtEnd(<<>>, b)
    BY <1>1, <1>3, Zenon
  <2> QED
    BY <2>1, WriteAtEndType, NoLines
<1>4. CASE rest # <<>> /\ Whole(b)
  <2>1. new = <<b>> \o rest
    BY <1>1, <1>4, Zenon
  <2>2. b \in Line
    BY <1>4 DEF Chunk, Whole
  <2> QED
    BY <1>2, <1>4, <2>1, <2>2, LinesPrepended
<1>5. CASE rest # <<>> /\ ~Whole(b)
  <2>1. new = <<b \o Head(rest)>> \o Tail(rest)
    BY <1>1, <1>5, Zenon
  <2>2. PICK h, t, j : h = Head(rest) /\ t = Tail(rest) /\ j = b \o h
    OBVIOUS
  <2>3. /\ rest \in Seq(Line) /\ Len(rest) \in Nat \ {0} /\ 1 \in 1 .. Len(rest)
        /\ \A k \in 1 .. Len(rest) - 1 : Whole(rest[k])
    <3>1. Len(rest) \in Nat \ {0}
      BY <1>2, <1>5, LinesFacts, EmptySeq
    <3> QED
      BY <1>2, <3>1, LinesFacts
  <2>4. /\ h \in Line /\ h = rest[1] /\ t \in Seq(Line) /\ Len(t) = Len(rest) - 1
        /\ \A k \in 1 .. Len(t) : t[k] = rest[k + 1]
    BY <1>5, <2>2, <2>3, HeadTailProperties
  <2>5. t \in Lines /\ (t # <<>> => Whole(h))
    <3>1. \A k \in 1 .. Len(t) - 1 : Whole(t[k])
      <4> TAKE k \in 1 .. Len(t) - 1
      <4>1. k + 1 \in 1 .. Len(rest) - 1 /\ k \in 1 .. Len(t)
        BY <2>3, <2>4
      <4> QED
        BY <2>3, <2>4, <4>1
    <3>2. ASSUME t # <<>> PROVE Whole(h)
      <4>1. Len(t) # 0
        BY <2>4, <3>2, EmptySeq
      <4>2. 1 \in 1 .. Len(rest) - 1
        BY <2>3, <2>4, <4>1
      <4> QED
        BY <2>3, <2>4, <4>2
    <3> QED
      BY <2>4, <3>1, <3>2 DEF Lines
  <2>6. j \in Line /\ (Whole(j) <=> Whole(h))
    <3>1. CASE b = <<>>
      <4>1. j = h
        BY <2>2, <2>4, <3>1, ConcatEmptySeq DEF Line
      <4> QED
        BY <2>4, <4>1
    <3>2. CASE b # <<>>
      <4>1. b \in Line
        BY <3>2 DEF Chunk
      <4> QED
        BY <1>5, <2>2, <2>4, <4>1, JoinedLine
    <3> QED
      BY <3>1, <3>2
  <2>7. new = <<j>> \o t
    BY <2>1, <2>2
  <2> QED
    BY <2>5, <2>6, <2>7, LinesPrepended
<1> QED
  BY <1>3, <1>4, <1>5

(* A first line written to an empty file is its only line.                 *)
LEMMA WriteToEmpty ==
    ASSUME NEW l \in Line
    PROVE  /\ WriteAtEnd(<<>>, l) = <<l>>
           /\ \A new \in WriteAtStart(<<>>, l) : new = <<l>>
<1>1. WriteAtEnd(<<>>, l) = <<l>>
  <2>1. l # <<>>
    BY LineFacts
  <2>2. WriteAtEnd(<<>>, l) = Append(<<>>, l)
    BY <2>1, WriteAtEndCases
  <2> QED
    BY <2>2
<1>2. ASSUME NEW new \in WriteAtStart(<<>>, l)
      PROVE  new = <<l>>
  <2>1. Endings(<<>>) = {}
    BY DEF Endings
  <2>2. \A rest \in Remainders(<<>>, Len(l)) : rest = <<>>
    BY <2>1 DEF Remainders
  <2> QED
    BY <1>1, <2>2, Zenon DEF WriteAtStart
<1> QED
  BY <1>1, <1>2

(* A row written behind whole lines is a line of its own.                  *)
LEMMA AppendWhole ==
    ASSUME NEW ls \in Lines, \A k \in DOMAIN ls : Whole(ls[k]), NEW l \in Line
    PROVE  WriteAtEnd(ls, l) = Append(ls, l)
<1>1. l # <<>>
  BY LineFacts
<1>2. ls # <<>> => Whole(Last(ls))
  BY LinesFacts
<1> QED
  BY <1>1, <1>2, WriteAtEndCases

InsertSteps == {"ensure", "create", "header", "append"}
SelectSteps == {"open", "rows"}

(* A run that is past the checks of its statement still has the statement  *)
(* and the copy of the schema that passed them.                            *)
Checked(p) ==
    /\ pc[p] \in InsertSteps =>
         /\ item[p] \in DOMAIN program[p] /\ Stmt(p) \in InsertStatement
         /\ sch[p] \in Schemas \ {<<>>} /\ InsertError(sch[p], Stmt(p)) = NoError
    /\ pc[p] \in SelectSteps =>
         /\ item[p] \in DOMAIN program[p] /\ Stmt(p) \in SelectStatement
         /\ sch[p] \in Schemas \ {<<>>} /\ SelectError(sch[p], Stmt(p)) = NoError
StatementsChecked == \A p \in Process : Checked(p)

LEMMA NamesType ==
    ASSUME NEW s \in TableSchema
    PROVE  Names(s) \in Seq(Text) /\ Len(Names(s)) = Len(s)
<1>1. s \in Seq(Column)
  BY DEF TableSchema
<1>2. Len(s) \in Nat /\ DOMAIN s = 1 .. Len(s) /\ \A c \in DOMAIN s : s[c] \in Column
  BY <1>1, ElementOfSeq, LenProperties
<1>3. Names(s) \in [1 .. Len(s) -> Text]
  BY <1>2 DEF Names, Column
<1>4. Names(s) \in Seq(Text)
  BY <1>2, <1>3, SeqDef
<1> QED
  BY <1>2, <1>3, <1>4, LenProperties

(* What a run in the middle of its statement writes and prints.            *)
LEMMA InsertLines ==
    ASSUME TypeOK, StatementsChecked, NEW p \in Process, pc[p] \in InsertSteps
    PROVE  /\ HeaderLine(sch[p]) \in Line /\ Whole(HeaderLine(sch[p]))
           /\ WriteRow(Row(p)) \in Line /\ Whole(WriteRow(Row(p)))
           /\ CellsOf(WriteRow(Row(p))) = Row(p)
           /\ Row(p) \in Seq(Text) /\ Row(p) # <<>> /\ Len(Row(p)) = Len(sch[p])
           /\ Names(sch[p]) \in Seq(Text) /\ Len(Names(sch[p])) = Len(sch[p])
           /\ Len(sch[p]) \in Nat \ {0}
<1>1. sch[p] \in TableSchema /\ sch[p] # <<>>
  BY DEF TypeOK, StatementsChecked, Checked
<1>2. /\ Names(sch[p]) \in Seq(Text) /\ Len(Names(sch[p])) = Len(sch[p])
      /\ Len(sch[p]) \in Nat \ {0}
  <2>1. sch[p] \in Seq(Column)
    BY <1>1 DEF TableSchema
  <2> QED
    BY <1>1, <2>1, NamesType, EmptySeq
<1>3. HeaderLine(sch[p]) \in Line /\ Whole(HeaderLine(sch[p]))
  BY <1>2, HeaderWritten DEF HeaderLine
<1>4. Row(p) \in Seq(Text) /\ Len(Row(p)) = Len(sch[p])
  <2>1. Stmt(p) \in InsertStatement /\ InsertError(sch[p], Stmt(p)) = NoError
    BY DEF StatementsChecked, Checked
  <2> QED
    BY <1>1, <2>1, InsertRowType DEF Row
<1>5. Row(p) # <<>>
  BY <1>2, <1>4, EmptySeq
<1>6. /\ WriteRow(Row(p)) \in Line /\ Whole(WriteRow(Row(p)))
      /\ CellsOf(WriteRow(Row(p))) = Row(p)
  BY <1>4, <1>5, RowWritten
<1> QED
  BY <1>2, <1>3, <1>4, <1>5, <1>6

LEMMA PrintedType ==
    ASSUME TypeOK, StatementsChecked, NEW p \in Process, pc[p] \in SelectSteps,
           NEW cells \in Seq(Text), Len(cells) = Len(sch[p])
    PROVE  Project(cells, Selected(p)) \in Seq(Text)
<1>1. sch[p] \in TableSchema /\ Len(sch[p]) \in Nat
  BY DEF TypeOK, TableSchema
<1>2. Stmt(p) \in SelectStatement /\ SelectError(sch[p], Stmt(p)) = NoError
  BY DEF StatementsChecked, Checked
<1>3. Selected(p) \in Seq(1 .. Len(sch[p]))
  BY <1>1, <1>2, SelectedIndicesType DEF Selected
<1> QED
  BY <1>1, <1>3, ProjectType

(* A step within a statement, or out of one.                               *)
LEMMA StatementStep ==
    ASSUME TypeOK, StatementsChecked, NEW p \in Process, NEW l, Goto(p, l),
           UNCHANGED <<program, sch>>,
           \A q \in Process : q # p => item'[q] = item[q],
           \/ l \notin InsertSteps \cup SelectSteps
           \/ item' = item /\ l \in InsertSteps /\ pc[p] \in InsertSteps
           \/ item' = item /\ l \in SelectSteps /\ pc[p] \in SelectSteps
    PROVE  StatementsChecked'
<1> SUFFICES ASSUME NEW q \in Process PROVE Checked(q)'
  BY DEF StatementsChecked
<1>1. Checked(q)
  BY DEF StatementsChecked
<1>2. CASE q # p
  <2>1. pc'[q] = pc[q] /\ item'[q] = item[q] /\ sch' = sch /\ program' = program
    BY <1>2 DEF Goto, TypeOK
  <2>2. Stmt(q)' = Stmt(q)
    BY <2>1 DEF Stmt
  <2> QED
    BY <1>1, <2>1, <2>2 DEF Checked
<1>3. CASE q = p
  <2>1. pc'[p] = l /\ sch' = sch /\ program' = program
    BY DEF Goto, TypeOK
  <2>2. CASE l \notin InsertSteps \cup SelectSteps
    BY <1>3, <2>1, <2>2 DEF Checked
  <2>3. CASE item' = item
    <3>1. Stmt(p)' = Stmt(p)
      BY <2>1, <2>3 DEF Stmt
    <3>2. l \in InsertSteps => l \notin SelectSteps
      BY DEF InsertSteps, SelectSteps
    <3> QED
      BY <1>1, <1>3, <2>1, <2>3, <3>1, <3>2 DEF Checked
  <2> QED
    BY <2>2, <2>3
<1> QED
  BY <1>2, <1>3

-----------------------------------------------------------------------------
(* Types                                                                   *)
-----------------------------------------------------------------------------
LEMMA RowsFacts ==
    ASSUME NEW ls \in Lines
    PROVE  /\ Rows(ls) \in Seq(Seq(Text))
           /\ ls = <<>> => Rows(ls) = <<>>
           /\ ls # <<>> => Len(Rows(ls)) = Len(ls) - 1 /\ Len(ls) - 1 \in Nat
           /\ \A k \in 1 .. Len(ls) - 1 : Rows(ls)[k] = CellsOf(ls[k + 1])
<1>1. ls \in Seq(Line) /\ Len(ls) \in Nat /\ \A k \in 1 .. Len(ls) : CellsOf(ls[k]) \in Seq(Text)
  BY LinesFacts, LineFacts, CellsType
<1>2. CASE ls = <<>>
  <2>1. 1 .. Len(ls) - 1 = {}
    BY <1>2
  <2>2. Rows(ls) = <<>>
    <3>1. Rows(ls) \in [1 .. 0 -> Seq(Text)] /\ 0 \in Nat
      BY <1>2, <2>1 DEF Rows
    <3>2. Rows(ls) \in Seq(Seq(Text)) /\ Len(Rows(ls)) = 0
      BY <3>1, FunctionIsSeq
    <3> QED
      BY <3>2, EmptySeq
  <2> QED
    BY <1>2, <2>1, <2>2, EmptySeq
<1>3. CASE ls # <<>>
  <2>1. PICK n : n = Len(ls) - 1 /\ n \in Nat
    BY <1>1, <1>3, EmptySeq
  <2>2. \A k \in 1 .. n : k + 1 \in 1 .. Len(ls)
    BY <1>1, <2>1
  <2>3. Rows(ls) = [k \in 1 .. n |-> CellsOf(ls[k + 1])]
    BY <2>1 DEF Rows
  <2>4. Rows(ls) \in [1 .. n -> Seq(Text)]
    BY <1>1, <2>2, <2>3
  <2>5. Rows(ls) \in Seq(Seq(Text)) /\ Len(Rows(ls)) = n
    BY <2>1, <2>4, FunctionIsSeq
  <2> QED
    BY <1>3, <2>1, <2>3, <2>5
<1> QED
  BY <1>2, <1>3

LEMMA InitType == Init => TypeOK /\ StatementsChecked
<1> SUFFICES ASSUME Init PROVE TypeOK /\ StatementsChecked
  OBVIOUS
<1>1. PICK f \in InitFiles : exists = f.exists /\ lines = f.lines /\ log = Rows(f.lines)
  BY DEF Init
<1>2. f.exists \in BOOLEAN /\ f.lines \in Lines
  BY InstanceAssumption DEF File
<1>3. log \in Seq(Seq(Text))
  BY <1>1, <1>2, RowsFacts
<1>4. /\ <<>> \in TableSchema
      /\ 0 \in 0 .. MaxRuns
  BY BoundAssumption, MaxColumnsAssumption DEF TableSchema
<1>5. TypeOK
  BY <1>1, <1>2, <1>3, <1>4 DEF Init, TypeOK, Stopped
<1>6. StatementsChecked
  BY DEF Init, StatementsChecked, Checked, InsertSteps, SelectSteps
<1> QED
  BY <1>5, <1>6

LEMMA RunProgramType ==
    ASSUME TypeOK, StatementsChecked, NEW p \in Process, RunProgram(p)
    PROVE  TypeOK' /\ StatementsChecked'
<1>1. <<>> \in TableSchema
  BY MaxColumnsAssumption DEF TableSchema
<1>2. PICK pr \in Programs : program' = [program EXCEPT ![p] = pr]
  BY DEF RunProgram
<1>3. runs' \in [Process -> 0 .. MaxRuns]
  BY BoundAssumption DEF RunProgram, TypeOK
<1>4. TypeOK'
  BY <1>1, <1>2, <1>3 DEF RunProgram, Goto, TypeOK, Running
<1>5. StatementsChecked'
  <2> SUFFICES ASSUME NEW q \in Process PROVE Checked(q)'
    BY DEF StatementsChecked
  <2>1. CASE q = p
    BY <2>1 DEF RunProgram, Goto, TypeOK, Checked, InsertSteps, SelectSteps
  <2>2. CASE q # p
    <3>1. /\ pc'[q] = pc[q] /\ item'[q] = item[q] /\ sch'[q] = sch[q]
          /\ program'[q] = program[q]
      BY <1>2, <2>2 DEF RunProgram, Goto, TypeOK
    <3>2. Stmt(q)' = Stmt(q)
      BY <3>1 DEF Stmt
    <3> QED
      BY <3>1, <3>2 DEF StatementsChecked, Checked
  <2> QED
    BY <2>1, <2>2
<1> QED
  BY <1>4, <1>5

LEMMA BeginType ==
    ASSUME TypeOK, StatementsChecked, NEW p \in Process, BeginInsert(p) \/ BeginSelect(p)
    PROVE  TypeOK' /\ StatementsChecked'
<1>1. /\ sch' = [sch EXCEPT ![p] = schema] /\ pos' = [pos EXCEPT ![p] = 0]
      /\ out' = [out EXCEPT ![p] = <<>>] /\ pc[p] = "statement"
      /\ item[p] <= Len(program[p])
      /\ UNCHANGED <<exists, lines, schema, program, item, runs, log>>
  BY DEF BeginInsert, BeginSelect, BeginStatement
<1>2. PICK next \in {"failed", "ensure", "open"} :
        /\ Goto(p, next)
        /\ next = "ensure" => /\ schema # <<>> /\ Stmt(p).kind = "INSERT"
                              /\ InsertError(schema, Stmt(p)) = NoError
        /\ next = "open" => /\ schema # <<>> /\ Stmt(p).kind = "SELECT"
                            /\ SelectError(schema, Stmt(p)) = NoError
  <2>1. CASE BeginInsert(p)
    BY <2>1, Zenon DEF BeginInsert, BeginStatement
  <2>2. CASE BeginSelect(p)
    BY <2>2, Zenon DEF BeginSelect, BeginStatement
  <2> QED
    BY <2>1, <2>2
<1>3. schema \in TableSchema /\ schema \in Schemas
  BY InstanceAssumption DEF TypeOK
<1>4. TypeOK'
  BY <1>1, <1>2, <1>3 DEF Goto, TypeOK, Stopped, Running
<1>5. Stmt(p) \in Statement /\ item[p] \in DOMAIN program[p]
  <2>0. program[p] \in Programs \cup {<<>>} /\ item[p] \in Nat \ {0}
    BY DEF TypeOK
  <2>1. program[p] \in Seq(Statement)
    BY <2>0, EmptySeq, InstanceAssumption
  <2>2. item[p] \in 1 .. Len(program[p])
    BY <1>1, <2>0, <2>1, LenProperties
  <2> QED
    BY <2>1, <2>2, ElementOfSeq, LenProperties DEF Stmt
<1>6. /\ Stmt(p).kind = "INSERT" => Stmt(p) \in InsertStatement
      /\ Stmt(p).kind = "SELECT" => Stmt(p) \in SelectStatement
  BY <1>5 DEF Statement, InsertStatement, SelectStatement
<1>7. StatementsChecked'
  <2> SUFFICES ASSUME NEW q \in Process PROVE Checked(q)'
    BY DEF StatementsChecked
  <2>1. Stmt(q)' = Stmt(q)
    BY <1>1 DEF Stmt
  <2>2. CASE q = p
    <3>1. pc'[p] = next /\ sch'[p] = schema /\ item' = item /\ program' = program
      BY <1>1, <1>2 DEF Goto, TypeOK
    <3> QED
      BY <1>2, <1>3, <1>5, <1>6, <2>1, <2>2, <3>1 DEF Checked, InsertSteps, SelectSteps
  <2>3. CASE q # p
    <3>1. pc'[q] = pc[q] /\ sch'[q] = sch[q] /\ item' = item /\ program' = program
      BY <1>1, <1>2, <2>3 DEF Goto, TypeOK
    <3> QED
      BY <2>1, <3>1 DEF StatementsChecked, Checked
  <2> QED
    BY <2>2, <2>3
<1> QED
  BY <1>4, <1>7

LEMMA EnsureType ==
    ASSUME TypeOK, StatementsChecked, NEW p \in Process, EnsureDataFile(p)
    PROVE  TypeOK' /\ StatementsChecked'
<1>1. /\ pc[p] = "ensure"
      /\ UNCHANGED <<exists, lines, schema, program, item, sch, pos, out, runs, log>>
  BY DEF EnsureDataFile, local
<1>2. PICK l \in {"append", "failed", "create"} : Goto(p, l)
  BY Zenon DEF EnsureDataFile
<1>3. TypeOK'
  BY <1>1, <1>2 DEF Goto, TypeOK, Stopped, Running
<1>4. StatementsChecked'
  BY <1>1, <1>2, StatementStep DEF InsertSteps, SelectSteps
<1> QED
  BY <1>3, <1>4

LEMMA CreateType ==
    ASSUME TypeOK, StatementsChecked, NEW p \in Process, CreateDataFile(p)
    PROVE  TypeOK' /\ StatementsChecked'
<1>1. /\ pc[p] = "create" /\ UNCHANGED <<schema, program, item, sch, pos, out, runs, log>>
      /\ exists' \in BOOLEAN /\ lines' \in Lines
  BY NoLines DEF CreateDataFile, local, file, TypeOK
<1>2. PICK l \in {"header", "failed"} : Goto(p, l)
  BY Zenon DEF CreateDataFile
<1>3. TypeOK'
  BY <1>1, <1>2 DEF Goto, TypeOK, Stopped, Running
<1>4. StatementsChecked'
  BY <1>1, <1>2, StatementStep DEF InsertSteps, SelectSteps
<1> QED
  BY <1>3, <1>4

LEMMA HeaderType ==
    ASSUME TypeOK, StatementsChecked, NEW p \in Process, WriteHeader(p)
    PROVE  TypeOK' /\ StatementsChecked'
<1>1. pc[p] = "header" /\ UNCHANGED <<exists, schema, program, item, sch, pos, out, runs, log>>
  BY DEF WriteHeader, local
<1>2. PICK t \in {HeaderLine(sch[p])} \cup Torn(HeaderLine(sch[p])) : lines' \in WriteAtStart(lines, t)
  BY DEF WriteHeader
<1>3. PICK l \in {"append", "failed"} : Goto(p, l)
  BY Zenon DEF WriteHeader
<1>4. lines' \in Lines
  <2>1. HeaderLine(sch[p]) \in Line
    BY <1>1, InsertLines DEF InsertSteps
  <2>2. t \in Chunk
    BY <2>1, TornType DEF Chunk
  <2> QED
    BY <1>2, <2>2, WriteAtStartType DEF TypeOK
<1>5. TypeOK'
  BY <1>1, <1>3, <1>4 DEF Goto, TypeOK, Stopped, Running
<1>6. StatementsChecked'
  BY <1>1, <1>3, StatementStep DEF InsertSteps, SelectSteps
<1> QED
  BY <1>5, <1>6

LEMMA AppendType ==
    ASSUME TypeOK, StatementsChecked, NEW p \in Process, AppendRow(p)
    PROVE  TypeOK' /\ StatementsChecked'
<1>1. pc[p] = "append" /\ UNCHANGED <<exists, schema, program, sch, pos, out, runs>>
  BY DEF AppendRow
<1>2. WriteRow(Row(p)) \in Line /\ Row(p) \in Seq(Text)
  BY <1>1, InsertLines DEF InsertSteps
<1>3. lines' \in Lines
  <2>1. CASE UNCHANGED lines
    BY <2>1 DEF TypeOK
  <2>2. CASE lines' = WriteAtEnd(lines, WriteRow(Row(p)))
    BY <1>2, <2>2, WriteAtEndType DEF TypeOK, Chunk
  <2>3. ASSUME NEW t \in Torn(WriteRow(Row(p))), lines' = WriteAtEnd(lines, t)
        PROVE  lines' \in Lines
    BY <1>2, <2>3, TornType, WriteAtEndType DEF TypeOK
  <2> QED
    BY <2>1, <2>2, <2>3 DEF AppendRow
<1>4. log' \in Seq(Seq(Text))
  <2>1. log' = log \/ log' = Append(log, Row(p))
    BY DEF AppendRow
  <2> QED
    <3>1. log \in Seq(Seq(Text))
      BY DEF TypeOK
    <3>2. Append(log, Row(p)) \in Seq(Seq(Text))
      BY <1>2, <3>1, AppendProperties
    <3> QED
      BY <2>1, <3>1, <3>2
<1>5. PICK l \in {"statement", "failed"} :
        Goto(p, l) /\ (item' = item \/ item' = [item EXCEPT ![p] = @ + 1])
  BY DEF AppendRow, Finish
<1>6. TypeOK'
  <2>1. pc' \in [Process -> Stopped \cup Running]
    BY <1>5 DEF Goto, TypeOK, Stopped, Running
  <2>2. item' \in [Process -> Nat \ {0}]
    <3>1. item \in [Process -> Nat \ {0}] /\ item[p] + 1 \in Nat \ {0}
      BY DEF TypeOK
    <3>2. item' = item \/ item' = [item EXCEPT ![p] = item[p] + 1]
      BY <1>5, Zenon
    <3> QED
      BY <3>1, <3>2
  <2> QED
    BY <1>1, <1>3, <1>4, <2>1, <2>2 DEF TypeOK
<1>7. StatementsChecked'
  BY <1>1, <1>5, StatementStep DEF InsertSteps, SelectSteps, TypeOK
<1> QED
  BY <1>6, <1>7

(* A step of SELECT prints nothing or one line, and moves on or ends.      *)
LEMMA SelectStepType ==
    ASSUME TypeOK, StatementsChecked, NEW p \in Process, pc[p] \in SelectSteps,
           UNCHANGED <<exists, lines, schema, program, sch, runs, log>>,
           \/ UNCHANGED out
           \/ \E cells \in Seq(Text) : /\ Len(cells) = Len(sch[p])
                                       /\ Show(p, Project(cells, Selected(p))),
           pos' = pos \/ pos' = [pos EXCEPT ![p] = @ + 1],
           \/ Goto(p, "rows") /\ item' = item
           \/ Goto(p, "failed") /\ item' = item
           \/ Finish(p)
    PROVE  TypeOK' /\ StatementsChecked'
<1>1. out' \in [Process -> Seq(Seq(Text))]
  <2>1. ASSUME NEW cells \in Seq(Text), Len(cells) = Len(sch[p]),
               Show(p, Project(cells, Selected(p)))
        PROVE  out' \in [Process -> Seq(Seq(Text))]
    <3>1. Project(cells, Selected(p)) \in Seq(Text)
      BY <2>1, PrintedType
    <3>2. out \in [Process -> Seq(Seq(Text))] /\ out[p] \in Seq(Seq(Text))
      BY DEF TypeOK
    <3>3. Append(out[p], Project(cells, Selected(p))) \in Seq(Seq(Text))
      BY <3>1, <3>2, AppendProperties
    <3> QED
      BY <2>1, <3>2, <3>3 DEF Show
  <2> QED
    BY <2>1 DEF TypeOK
<1>2. PICK l \in {"rows", "failed", "statement"} :
        /\ Goto(p, l)
        /\ item' = item \/ item' = [item EXCEPT ![p] = @ + 1]
        /\ l = "rows" => item' = item
  BY DEF Finish
<1>3. pos' \in [Process -> Nat]
  <2>1. pos \in [Process -> Nat] /\ pos[p] + 1 \in Nat
    BY DEF TypeOK
  <2>2. pos' = pos \/ pos' = [pos EXCEPT ![p] = pos[p] + 1]
    OBVIOUS
  <2> QED
    BY <2>1, <2>2
<1>4. item' \in [Process -> Nat \ {0}]
  <2>1. item \in [Process -> Nat \ {0}] /\ item[p] + 1 \in Nat \ {0}
    BY DEF TypeOK
  <2>2. item' = item \/ item' = [item EXCEPT ![p] = item[p] + 1]
    BY <1>2, Zenon
  <2> QED
    BY <2>1, <2>2
<1>5. pc' \in [Process -> Stopped \cup Running]
  BY <1>2 DEF Goto, TypeOK, Stopped, Running
<1>6. TypeOK'
  BY <1>1, <1>3, <1>4, <1>5 DEF TypeOK
<1>7. StatementsChecked'
  <2>1. \A q \in Process : q # p => item'[q] = item[q]
    BY <1>2 DEF TypeOK
  <2> QED
    BY <1>2, <2>1, StatementStep DEF InsertSteps, SelectSteps
<1> QED
  BY <1>6, <1>7

LEMMA OpenType ==
    ASSUME TypeOK, StatementsChecked, NEW p \in Process, OpenForSelect(p)
    PROVE  TypeOK' /\ StatementsChecked'
<1>1. pc[p] = "open" /\ UNCHANGED <<exists, lines, schema, program, sch, runs, log>>
  BY DEF OpenForSelect
<1>2. Names(sch[p]) \in Seq(Text) /\ Len(Names(sch[p])) = Len(sch[p])
  <2>1. sch[p] \in TableSchema
    BY DEF TypeOK
  <2> QED
    BY <2>1, NamesType
<1>3. \/ UNCHANGED out
      \/ Show(p, Project(Names(sch[p]), Selected(p)))
  BY DEF OpenForSelect
<1>4. pos' = pos \/ pos' = [pos EXCEPT ![p] = @ + 1]
  BY DEF OpenForSelect, AfterLine
<1>5. \/ Goto(p, "rows") /\ item' = item
      \/ Goto(p, "failed") /\ item' = item
      \/ Finish(p)
  BY DEF OpenForSelect, AfterLine
<1>6. pc[p] \in SelectSteps
  BY <1>1 DEF SelectSteps
<1>7. \/ UNCHANGED out
      \/ \E cells \in Seq(Text) : /\ Len(cells) = Len(sch[p])
                                  /\ Show(p, Project(cells, Selected(p)))
  BY <1>2, <1>3
<1> QED
  BY <1>1, <1>4, <1>5, <1>6, <1>7, SelectStepType

LEMMA PrintType ==
    ASSUME TypeOK, StatementsChecked, NEW p \in Process, PrintRow(p)
    PROVE  TypeOK' /\ StatementsChecked'
<1>1. pc[p] = "rows" /\ UNCHANGED <<exists, lines, schema, program, sch, runs, log>>
  BY DEF PrintRow
<1>2. \/ UNCHANGED out
      \/ /\ pos[p] < Len(lines)
         /\ Len(CellsOf(lines[pos[p] + 1])) = Len(sch[p])
         /\ Show(p, Project(CellsOf(lines[pos[p] + 1]), Selected(p)))
  BY DEF PrintRow
<1>3. pos' = pos \/ pos' = [pos EXCEPT ![p] = @ + 1]
  BY DEF PrintRow, AfterLine
<1>4. \/ Goto(p, "rows") /\ item' = item
      \/ Goto(p, "failed") /\ item' = item
      \/ Finish(p)
  BY DEF PrintRow, AfterLine
<1>5. pc[p] \in SelectSteps
  BY <1>1 DEF SelectSteps
<1>6. pos[p] < Len(lines) => CellsOf(lines[pos[p] + 1]) \in Seq(Text)
  <2> SUFFICES ASSUME pos[p] < Len(lines) PROVE CellsOf(lines[pos[p] + 1]) \in Seq(Text)
    OBVIOUS
  <2>1. lines \in Lines /\ pos[p] \in Nat
    BY DEF TypeOK
  <2>2. pos[p] + 1 \in 1 .. Len(lines)
    BY <2>1, LinesFacts
  <2>3. lines[pos[p] + 1] \in Line
    BY <2>1, <2>2, LinesFacts
  <2> QED
    BY <2>3, LineFacts, CellsType
<1>7. \/ UNCHANGED out
      \/ \E cells \in Seq(Text) : /\ Len(cells) = Len(sch[p])
                                  /\ Show(p, Project(cells, Selected(p)))
  BY <1>2, <1>6
<1> QED
  BY <1>1, <1>3, <1>4, <1>5, <1>7, SelectStepType

LEMMA EnvironmentType ==
    ASSUME TypeOK, StatementsChecked,
           \/ EditSchema \/ UNCHANGED vars
           \/ \E p \in Process : EndProgram(p) \/ Kill(p)
    PROVE  TypeOK' /\ StatementsChecked'
<1>1. CASE EditSchema
  <2>1. UNCHANGED <<exists, lines, pc, program, item, sch, pos, out, runs, log>> /\ schema' \in Schemas
    BY <1>1 DEF EditSchema, local
  <2> QED
    BY <2>1 DEF TypeOK, StatementsChecked, Checked, Stmt
<1>2. CASE UNCHANGED vars
  <2>1. UNCHANGED <<exists, lines, schema, pc, program, item, sch, pos, out, runs, log>>
    BY <1>2 DEF vars
  <2> QED
    BY <2>1 DEF TypeOK, StatementsChecked, Checked, Stmt
<1>3. ASSUME NEW p \in Process, EndProgram(p) \/ Kill(p)
      PROVE  TypeOK' /\ StatementsChecked'
  <2>1. UNCHANGED <<exists, lines, schema, program, item, sch, pos, out, runs, log>>
    BY <1>3 DEF EndProgram, Kill, local
  <2>2. PICK l \in {"done", "killed"} : Goto(p, l)
    BY <1>3 DEF EndProgram, Kill
  <2>3. TypeOK'
    BY <2>1, <2>2 DEF Goto, TypeOK, Stopped, Running
  <2>4. StatementsChecked'
    BY <2>1, <2>2, StatementStep DEF InsertSteps, SelectSteps
  <2> QED
    BY <2>3, <2>4
<1> QED
  BY <1>1, <1>2, <1>3

LEMMA TypeStep == TypeOK /\ StatementsChecked /\ [Next]_vars => TypeOK' /\ StatementsChecked'
<1> SUFFICES ASSUME TypeOK, StatementsChecked, [Next]_vars
             PROVE  TypeOK' /\ StatementsChecked'
  OBVIOUS
<1>1. ASSUME NEW p \in Process, Step(p)
      PROVE  TypeOK' /\ StatementsChecked'
  BY <1>1, EnvironmentType, BeginType, EnsureType, CreateType, HeaderType, AppendType,
     OpenType, PrintType DEF Step
<1>2. ASSUME NEW p \in Process, RunProgram(p) \/ Kill(p)
      PROVE  TypeOK' /\ StatementsChecked'
  BY <1>2, RunProgramType, EnvironmentType
<1> QED
  BY <1>1, <1>2, EnvironmentType DEF Next

(* The file stays a sequence of lines of cells, however its writes are cut *)
(* and whatever two runs write over each other, and every run keeps a      *)
(* statement, a schema, a position and an output of their types.           *)
THEOREM TypeCorrect == Spec => []TypeOK
<1>1. Init => TypeOK /\ StatementsChecked
  BY InitType
<1>2. TypeOK /\ StatementsChecked /\ [Next]_vars => TypeOK' /\ StatementsChecked'
  BY TypeStep
<1> QED
  BY <1>1, <1>2, PTL DEF Spec

-----------------------------------------------------------------------------
(* Dependable instances                                                    *)
-----------------------------------------------------------------------------
(* A run creates the file only where no other run can meet it, and appends *)
(* to a file whose header is still the one it checked.                     *)
FileInv ==
    /\ exists \/ lines = <<>>
    /\ exists \/ \A p, q \in Process : p = q
    /\ RowsMatchHeader
    /\ StoredIsLog
    /\ \A p \in Process :
         /\ pc[p] \in {"create", "header"} => \A q \in Process : q = p
         /\ pc[p] = "create" => ~exists
         /\ pc[p] = "header" => exists /\ lines = <<>>
         /\ pc[p] = "append" => lines # <<>> /\ CellsOf(lines[1]) = Names(sch[p])

LEMMA RowsOfHeader ==
    ASSUME NEW l \in Line
    PROVE  Rows(<<>>) = <<>> /\ Rows(<<l>>) = <<>>
<1>1. \A n \in {0, 1} : 1 .. n - 1 = {}
  OBVIOUS
<1> QED
  BY <1>1 DEF Rows

LEMMA RowsOfAppend ==
    ASSUME NEW ls \in Lines, ls # <<>>, Whole(Last(ls)), NEW l \in Line
    PROVE  Rows(Append(ls, l)) = Append(Rows(ls), CellsOf(l))
<1> DEFINE new == Append(ls, l)
<1>1. new = Append(ls, l)
  OBVIOUS
<1> HIDE DEF new
<1>2. /\ new \in Lines /\ Len(new) = Len(ls) + 1 /\ new[Len(ls) + 1] = l
      /\ \A k \in 1 .. Len(ls) : new[k] = ls[k]
  <2>1. l # <<>> /\ l \in Chunk
    BY LineFacts DEF Chunk
  <2>2. WriteAtEnd(ls, l) = new
    BY <1>1, <2>1, WriteAtEndCases
  <2>3. new \in Lines
    BY <2>1, <2>2, WriteAtEndType
  <2> QED
    BY <1>1, <2>3, LinesFacts, AppendProperties
<1>3. PICK n : n = Len(ls) - 1 /\ n \in Nat /\ Len(ls) = n + 1
  BY LinesFacts, EmptySeq
<1>4. /\ Rows(ls) \in Seq(Seq(Text)) /\ Len(Rows(ls)) = n
      /\ \A k \in 1 .. n : Rows(ls)[k] = CellsOf(ls[k + 1])
  BY <1>3, RowsFacts
<1>5. /\ Rows(new) \in Seq(Seq(Text)) /\ Len(Rows(new)) = n + 1
      /\ \A k \in 1 .. n + 1 : Rows(new)[k] = CellsOf(new[k + 1])
  <2>1. new # <<>>
    BY <1>2, <1>3, EmptySeq
  <2>2. Len(new) - 1 = n + 1
    BY <1>2, <1>3
  <2> QED
    BY <1>2, <2>1, <2>2, RowsFacts
<1>6. CellsOf(l) \in Seq(Text)
  BY LineFacts, CellsType
<1>7. Rows(new)[n + 1] = CellsOf(l)
  BY <1>2, <1>3, <1>5
<1>8. \A k \in 1 .. n : Rows(new)[k] = Rows(ls)[k]
  <2> TAKE k \in 1 .. n
  <2>1. k \in 1 .. n + 1 /\ k + 1 \in 1 .. Len(ls)
    BY <1>3
  <2> QED
    BY <1>2, <1>4, <1>5, <2>1
<1>9. Rows(new) = Append(Rows(ls), CellsOf(l))
  BY <1>4, <1>5, <1>6, <1>7, <1>8, IsAppend
<1> QED
  BY <1>9 DEF new

(* The header of a schema reads back as its names, none of which calls for *)
(* quotes.                                                                 *)
LEMMA HeaderRead ==
    ASSUME NamesUnquoted, NEW s \in Schemas, s # <<>>
    PROVE  CellsOf(HeaderLine(s)) = Names(s)
<1>1. s \in TableSchema /\ s \in Seq(Column)
  BY InstanceAssumption DEF TableSchema
<1>2. Names(s) \in Seq(Text) /\ Len(Names(s)) = Len(s) /\ Len(s) \in Nat \ {0}
  BY <1>1, NamesType, EmptySeq
<1>3. Names(s) # <<>> /\ DOMAIN Names(s) = DOMAIN s
  BY <1>1, <1>2, EmptySeq, LenProperties
<1>4. ASSUME NEW c \in DOMAIN Names(s)
      PROVE  ~Has(Names(s)[c], {Comma, Quote})
  <2>1. ~Has(s[c].name, {Comma}) /\ ~Has(s[c].name, {Quote}) /\ Names(s)[c] = s[c].name
    BY <1>3, InstanceAssumption DEF NamesUnquoted, Names
  <2> QED
    BY <2>1 DEF Has
<1>5. HeaderLine(s) = WriteRow(Names(s))
  BY <1>2, <1>4, HeaderWritten DEF HeaderLine
<1> QED
  BY <1>2, <1>3, <1>5, RowWritten

LEMMA PrefixOfAppend ==
    ASSUME NEW S, NEW s \in Seq(S), NEW e \in S
    PROVE  IsPrefix(s, s) /\ IsPrefix(s, Append(s, e)) /\ IsPrefix(<<>>, s)
<1>1. Len(s) \in Nat /\ Len(Append(s, e)) = Len(s) + 1
  BY AppendProperties
<1>2. SubSeq(Append(s, e), 1, Len(s)) = SubSeq(s, 1, Len(s))
  BY <1>1, AppendProperties
<1>3. IsPrefix(<<>>, s)
  BY <1>1, EmptySeq, SubSeqEmpty DEF IsPrefix
<1> QED
  BY <1>1, <1>2, <1>3 DEF IsPrefix

LEMMA FileInit == ASSUME Dependable PROVE Init => FileInv
<1> SUFFICES ASSUME Init PROVE FileInv
  OBVIOUS
<1>1. PICK f \in InitFiles : exists = f.exists /\ lines = f.lines /\ log = Rows(f.lines)
  BY DEF Init
<1>2. f.exists \/ f.lines = <<>>
  BY InstanceAssumption DEF File
<1>3. WellFormed(f.lines) /\ (f.exists \/ \A p, q \in Process : p = q)
  BY DEF Dependable
<1> QED
  BY <1>1, <1>2, <1>3 DEF Init, FileInv, RowsMatchHeader, StoredIsLog

(* A step of p that leaves the file alone and creates or appends nothing.  *)
LEMMA QuietStep ==
    ASSUME TypeOK, FileInv, NEW p \in Process, UNCHANGED <<exists, lines, log>>,
           NEW l, Goto(p, l),
           \A q \in Process : q # p => sch'[q] = sch[q],
           l = "create" => ~exists, l # "header",
           l = "append" => /\ lines # <<>>
                           /\ CellsOf(lines[1]) = Names(sch'[p])
    PROVE  FileInv'
<1>1. \A q \in Process : pc'[q] = IF q = p THEN l ELSE pc[q]
  BY DEF Goto, TypeOK
<1>2. RowsMatchHeader' /\ StoredIsLog'
  BY DEF FileInv, RowsMatchHeader, StoredIsLog
<1>3. ASSUME NEW q \in Process
      PROVE  /\ pc'[q] \in {"create", "header"} => \A r \in Process : r = q
             /\ pc'[q] = "create" => ~exists'
             /\ pc'[q] = "header" => exists' /\ lines' = <<>>
             /\ pc'[q] = "append" => lines' # <<>> /\ CellsOf(lines'[1]) = Names(sch'[q])
  <2>1. CASE q = p
    BY <1>1, <2>1 DEF FileInv
  <2>2. CASE q # p
    BY <1>1, <2>2 DEF FileInv
  <2> QED
    BY <2>1, <2>2
<1> QED
  BY <1>2, <1>3 DEF FileInv

LEMMA CreateFile ==
    ASSUME TypeOK, FileInv, NEW p \in Process, CreateDataFile(p)
    PROVE  FileInv' /\ IsPrefix(lines, lines')
<1>1. /\ pc[p] = "create" /\ UNCHANGED <<sch, log>>
      /\ ~exists /\ lines = <<>> /\ \A q \in Process : q = p
  BY DEF CreateDataFile, local, FileInv
<1>2. /\ lines' = <<>>
      /\ (exists' /\ Goto(p, "header")) \/ (exists' = exists /\ Goto(p, "failed"))
  BY <1>1 DEF CreateDataFile, file
<1>3. /\ pc'[p] \in {"header", "failed"} /\ \A q \in Process : pc'[q] = pc'[p]
      /\ pc'[p] = "header" => exists'
  BY <1>1, <1>2 DEF Goto, TypeOK
<1>4. RowsMatchHeader' /\ StoredIsLog'
  BY <1>1, <1>2 DEF FileInv, RowsMatchHeader, StoredIsLog
<1>5. FileInv'
  BY <1>1, <1>2, <1>3, <1>4 DEF FileInv
<1>6. IsPrefix(lines, lines')
  BY <1>1, <1>2, SubSeqEmpty, EmptySeq DEF IsPrefix
<1> QED
  BY <1>5, <1>6

LEMMA FillFile ==
    ASSUME TypeOK, StatementsChecked, Dependable, FileInv, NEW p \in Process, WriteHeader(p)
    PROVE  FileInv' /\ IsPrefix(lines, lines')
<1>1. /\ pc[p] = "header" /\ UNCHANGED <<exists, sch, log>>
      /\ exists /\ lines = <<>> /\ \A q \in Process : q = p
  BY DEF WriteHeader, local, FileInv
<1> DEFINE header == HeaderLine(sch[p])
<1>2. header \in Line /\ Whole(header) /\ CellsOf(header) = Names(sch[p])
  <2>1. sch[p] \in Schemas /\ sch[p] # <<>>
    BY <1>1 DEF StatementsChecked, Checked, InsertSteps
  <2> QED
    BY <1>1, <2>1, InsertLines, HeaderRead DEF InsertSteps, Dependable
<1>3. lines' \in WriteAtStart(lines, header) /\ Goto(p, "append")
  BY DEF WriteHeader, Dependable
<1> HIDE DEF header
<1>4. lines' = <<header>>
  BY <1>1, <1>2, <1>3, WriteToEmpty
<1>5. Len(lines') = 1 /\ DOMAIN lines' = {1} /\ lines'[1] = header /\ lines' # <<>>
  BY <1>4
<1>6. RowsMatchHeader'
  BY <1>2, <1>5 DEF RowsMatchHeader, WellFormed, Width
<1>7. StoredIsLog'
  BY <1>1, <1>2, <1>4, RowsOfHeader DEF FileInv, StoredIsLog
<1>8. \A q \in Process : pc'[q] = "append" /\ sch'[q] = sch[p]
  BY <1>1, <1>3 DEF Goto, TypeOK
<1>9. exists' \/ \A q, r \in Process : q = r
  BY <1>1
<1>10. exists'
  BY <1>1
<1>11. FileInv'
  BY <1>2, <1>5, <1>6, <1>7, <1>8, <1>9, <1>10 DEF FileInv
<1>12. IsPrefix(lines, lines')
  <2>1. lines' \in Seq(Line)
    BY <1>2, <1>4
  <2> QED
    BY <1>1, <1>2, <2>1, PrefixOfAppend
<1> QED
  BY <1>11, <1>12

LEMMA AppendFile ==
    ASSUME TypeOK, StatementsChecked, Dependable, FileInv, NEW p \in Process, AppendRow(p)
    PROVE  FileInv' /\ IsPrefix(lines, lines')
<1>1. /\ pc[p] = "append" /\ UNCHANGED <<exists, sch>>
      /\ lines # <<>> /\ CellsOf(lines[1]) = Names(sch[p])
  BY DEF AppendRow, FileInv
<1>2. /\ lines \in Lines /\ log \in Seq(Seq(Text))
      /\ Len(lines) \in Nat \ {0} /\ DOMAIN lines = 1 .. Len(lines)
      /\ Whole(Last(lines)) /\ \A k \in DOMAIN lines : Whole(lines[k])
      /\ lines \in Seq(Line)
  <2>1. lines \in Lines /\ log \in Seq(Seq(Text))
    BY DEF TypeOK
  <2>2. \A k \in DOMAIN lines : Whole(lines[k])
    BY DEF FileInv, RowsMatchHeader, WellFormed
  <2> QED
    BY <1>1, <2>1, <2>2, LinesFacts, EmptySeq
<1> DEFINE row == WriteRow(Row(p))
<1>3. row \in Line /\ Whole(row) /\ CellsOf(row) = Row(p) /\ Len(Row(p)) = Len(Names(sch[p]))
  BY <1>1, InsertLines DEF InsertSteps
<1>4. CASE UNCHANGED lines
  <2>1. UNCHANGED log /\ Goto(p, "failed")
    <3>1. WriteAtEnd(lines, row) # lines
      <4>1. WriteAtEnd(lines, row) = Append(lines, row)
        BY <1>2, <1>3, AppendWhole
      <4>2. Len(Append(lines, row)) = Len(lines) + 1 /\ Len(lines) \in Nat
        BY <1>2, <1>3, AppendProperties, LenProperties
      <4> QED
        BY <4>1, <4>2
    <3> QED
      BY <1>4, <3>1 DEF AppendRow, Dependable
  <2>2. FileInv'
    BY <1>1, <1>4, <2>1, QuietStep
  <2>3. IsPrefix(lines, lines)
    BY <1>2, <1>3, PrefixOfAppend
  <2> QED
    BY <1>4, <2>2, <2>3
<1>5. CASE ~UNCHANGED lines
  <2>1. lines' = WriteAtEnd(lines, row) /\ log' = Append(log, Row(p)) /\ Goto(p, "statement")
    BY <1>5 DEF AppendRow, Dependable, Finish
  <2> HIDE DEF row
  <2>2. lines' = Append(lines, row)
    BY <1>2, <1>3, <2>1, AppendWhole
  <2>3. /\ Len(lines) \in Nat \ {0} /\ DOMAIN lines = 1 .. Len(lines)
        /\ DOMAIN lines' = 1 .. Len(lines) + 1 /\ lines' # <<>>
        /\ \A k \in 1 .. Len(lines) : lines'[k] = lines[k]
        /\ lines'[Len(lines) + 1] = row
    <3>1. lines' \in Seq(Line) /\ Len(lines') = Len(lines) + 1
      BY <1>2, <1>3, <2>2, AppendProperties
    <3> QED
      BY <1>2, <1>3, <2>2, <3>1, AppendProperties, EmptySeq, LenProperties
  <2>4. lines'[1] = lines[1]
    BY <2>3
  <2>5. RowsMatchHeader'
    <3> SUFFICES ASSUME NEW k \in 1 .. Len(lines) + 1
                 PROVE  Whole(lines'[k]) /\ Len(CellsOf(lines'[k])) = Len(CellsOf(lines[1]))
      BY <2>3, <2>4 DEF RowsMatchHeader, WellFormed, Width
    <3>1. CASE k = Len(lines) + 1
      BY <1>1, <1>3, <2>3, <3>1
    <3>2. CASE k # Len(lines) + 1
      <4>1. k \in DOMAIN lines /\ lines'[k] = lines[k]
        BY <2>3, <3>2
      <4> QED
        BY <4>1 DEF FileInv, RowsMatchHeader, WellFormed, Width
    <3> QED
      BY <3>1, <3>2
  <2>6. StoredIsLog'
    <3>1. Rows(lines') = Append(Rows(lines), CellsOf(row))
      BY <1>1, <1>2, <1>3, <2>2, RowsOfAppend
    <3> QED
      BY <1>3, <2>1, <3>1 DEF FileInv, StoredIsLog
  <2>7. exists'
    BY <1>1 DEF FileInv
  <2>8. \A q \in Process : pc'[q] = IF q = p THEN "statement" ELSE pc[q]
    BY <2>1 DEF Goto, TypeOK
  <2>9. ASSUME NEW q \in Process
        PROVE  /\ pc'[q] \notin {"create", "header"}
               /\ pc'[q] = "append" => CellsOf(lines'[1]) = Names(sch'[q])
    BY <1>1, <2>4, <2>7, <2>8 DEF FileInv
  <2>10. FileInv'
    BY <2>3, <2>5, <2>6, <2>7, <2>9 DEF FileInv
  <2> QED
    BY <1>2, <1>3, <2>2, <2>10, PrefixOfAppend
<1> QED
  BY <1>4, <1>5

LEMMA FileStep ==
    ASSUME TypeOK, StatementsChecked, Dependable, FileInv, [Next]_vars
    PROVE  FileInv' /\ IsPrefix(lines, lines')
<1>1. IsPrefix(lines, lines)
  BY LinesFacts DEF IsPrefix, TypeOK
<1>2. CASE EditSchema \/ UNCHANGED vars
  <2>1. UNCHANGED <<exists, lines, pc, sch, log>>
    BY <1>2 DEF EditSchema, vars, local
  <2> QED
    BY <1>1, <2>1 DEF FileInv, RowsMatchHeader, StoredIsLog
<1>3. ASSUME NEW p \in Process,
             \/ RunProgram(p) \/ Kill(p) \/ EndProgram(p)
             \/ BeginInsert(p) \/ BeginSelect(p)
             \/ OpenForSelect(p) \/ PrintRow(p)
      PROVE  FileInv' /\ IsPrefix(lines, lines')
  <2>1. UNCHANGED <<exists, lines, log>> /\ \A q \in Process : q # p => sch'[q] = sch[q]
    BY <1>3 DEF RunProgram, Kill, EndProgram, BeginInsert, BeginSelect, BeginStatement,
                OpenForSelect, PrintRow, local, TypeOK
  <2>2. \E l \in {"statement", "killed", "done", "failed", "ensure", "open", "rows"} : Goto(p, l)
    BY <1>3 DEF RunProgram, Kill, EndProgram, BeginInsert, BeginSelect, BeginStatement,
                OpenForSelect, PrintRow, AfterLine, Finish
  <2>3. FileInv'
    BY <2>1, <2>2, QuietStep
  <2> QED
    BY <1>1, <2>1, <2>3
<1>4. ASSUME NEW p \in Process, EnsureDataFile(p)
      PROVE  FileInv' /\ IsPrefix(lines, lines')
  <2>1. UNCHANGED <<exists, lines, log, sch>>
    BY <1>4 DEF EnsureDataFile, local
  <2>2. \E l \in {"append", "failed", "create"} :
           /\ Goto(p, l)
           /\ l = "create" => ~exists
           /\ l = "append" => lines # <<>> /\ CellsOf(lines[1]) = Names(sch[p])
    BY <1>4 DEF EnsureDataFile, HeaderMatches, Dependable
  <2>3. FileInv'
    BY <2>1, <2>2, QuietStep
  <2> QED
    BY <1>1, <2>1, <2>3
<1> QED
  BY <1>2, <1>3, <1>4, CreateFile, FillFile, AppendFile DEF Next, Step

(* RowsMatchHeader and StoredIsLog hold whatever runs overlap, fail, are   *)
(* killed or have their schema edited: the check of the header in          *)
(* ensure_data_file is still good when storage_append_row writes.          *)
THEOREM RowsKept ==
    ASSUME Dependable
    PROVE  Spec => [](RowsMatchHeader /\ StoredIsLog)
<1>1. Init => TypeOK /\ StatementsChecked /\ FileInv
  BY InitType, FileInit
<1>2. TypeOK /\ StatementsChecked /\ FileInv /\ [Next]_vars
        => TypeOK' /\ StatementsChecked' /\ FileInv'
  BY TypeStep, FileStep
<1>3. FileInv => RowsMatchHeader /\ StoredIsLog
  BY DEF FileInv
<1> QED
  BY <1>1, <1>2, <1>3, PTL DEF Spec

(* Every line of the data file is whole and as wide as the header, whoever *)
(* wrote it and with whichever copy of the schema.                         *)
THEOREM HeaderKept ==
    ASSUME Dependable
    PROVE  Spec => []RowsMatchHeader
<1>1. RowsMatchHeader /\ StoredIsLog => RowsMatchHeader
  OBVIOUS
<1> QED
  BY <1>1, RowsKept, PTL

(* A file left without its header by a run that ended in between is not    *)
(* repaired: a run creates only what is absent, and appends only below a   *)
(* header.                                                                 *)
THEOREM EmptyStays ==
    ASSUME Dependable
    PROVE  Spec => EmptyFileStaysEmpty
<1>1. Init => TypeOK /\ StatementsChecked /\ FileInv
  BY InitType, FileInit
<1>2. TypeOK /\ StatementsChecked /\ FileInv /\ [Next]_vars
        => TypeOK' /\ StatementsChecked' /\ FileInv'
  BY TypeStep, FileStep
<1>3. TypeOK /\ StatementsChecked /\ FileInv /\ [Next]_vars => [Orphaned => Orphaned']_vars
  <2> SUFFICES ASSUME TypeOK, FileInv, [Next]_vars, Orphaned
               PROVE  Orphaned'
    OBVIOUS
  <2>1. exists /\ lines = <<>> /\ \A p \in Process : pc[p] \notin {"create", "header", "append"}
    BY DEF Orphaned, FileInv
  <2>2. CASE EditSchema \/ UNCHANGED vars
    BY <2>1, <2>2 DEF EditSchema, vars, Orphaned
  <2>3. ASSUME NEW p \in Process, RunProgram(p) \/ Step(p) \/ Kill(p)
        PROVE  Orphaned'
    <3>1. ~CreateDataFile(p) /\ ~WriteHeader(p) /\ ~AppendRow(p)
      BY <2>1 DEF CreateDataFile, WriteHeader, AppendRow
    <3>2. UNCHANGED <<exists, lines>>
      BY <2>3, <3>1 DEF RunProgram, Step, EndProgram, BeginInsert, BeginSelect,
                        BeginStatement, EnsureDataFile, OpenForSelect, PrintRow, Kill
    <3>3. \E l \in {"statement", "killed", "done", "failed", "ensure", "create", "append",
                    "open", "rows"} : Goto(p, l)
      BY <2>3, <3>1 DEF RunProgram, Step, EndProgram, BeginInsert, BeginSelect, BeginStatement,
                        EnsureDataFile, OpenForSelect, PrintRow, AfterLine, Finish, Kill
    <3>4. \A q \in Process : pc'[q] # "header"
      BY <2>1, <3>3 DEF Goto, TypeOK
    <3> QED
      BY <2>1, <3>2, <3>4 DEF Orphaned
  <2> QED
    BY <2>2, <2>3 DEF Next
<1> QED
  BY <1>1, <1>2, <1>3, PTL DEF Spec, EmptyFileStaysEmpty

(* No step takes a line out of the data file or changes it.                *)
THEOREM NothingLost ==
    ASSUME Dependable
    PROVE  Spec => AppendOnly
<1>1. Init => TypeOK /\ StatementsChecked /\ FileInv
  BY InitType, FileInit
<1>2. TypeOK /\ StatementsChecked /\ FileInv /\ [Next]_vars
        => TypeOK' /\ StatementsChecked' /\ FileInv'
  BY TypeStep, FileStep
<1>3. TypeOK /\ StatementsChecked /\ FileInv /\ [Next]_vars => [IsPrefix(lines, lines')]_vars
  BY FileStep
<1> QED
  BY <1>1, <1>2, <1>3, PTL DEF Spec, AppendOnly

-----------------------------------------------------------------------------
(* Readers                                                                 *)
-----------------------------------------------------------------------------
Shown(p, n) ==
    <<Project(Names(sch[p]), Selected(p))>>
      \o [k \in 1 .. n - 1 |-> Project(log[k], Selected(p))]

(* What ReadIsPrefix says of one run, and the start of its SELECT.         *)
Reading(p) ==
    /\ pc[p] = "open" => pos[p] = 0 /\ out[p] = <<>>
    /\ pc[p] = "rows" => pos[p] \in 1 .. Len(log) + 1 /\ out[p] = Shown(p, pos[p])
ReadInv == \A p \in Process : Reading(p)

(* A reader is not disturbed by what the other runs append.                *)
LEMMA OthersReading ==
    ASSUME TypeOK, NEW q \in Process, Reading(q),
           pc'[q] = pc[q], pos'[q] = pos[q], out'[q] = out[q], sch'[q] = sch[q],
           Stmt(q)' = Stmt(q),
           log' = log \/ \E row \in Seq(Text) : log' = Append(log, row)
    PROVE  Reading(q)'
<1>1. log \in Seq(Seq(Text)) /\ Len(log) \in Nat
  BY LenProperties DEF TypeOK
<1>2. Len(log') \in Nat /\ Len(log') >= Len(log) /\ \A k \in 1 .. Len(log) : log'[k] = log[k]
  <2>1. CASE log' = log
    BY <1>1, <2>1
  <2>2. CASE log' # log
    <3>1. PICK row \in Seq(Text) : log' = Append(log, row)
      BY <2>2
    <3>2. Len(log') = Len(log) + 1 /\ \A k \in 1 .. Len(log) : log'[k] = log[k]
      BY <1>1, <3>1, AppendProperties
    <3> QED
      BY <1>1, <3>2
  <2> QED
    BY <2>1, <2>2
<1>3. Selected(q)' = Selected(q)
  BY DEF Selected
<1>4. CASE pc[q] = "rows"
  <2>1. pos[q] \in 1 .. Len(log) + 1 /\ out[q] = Shown(q, pos[q])
    BY <1>4 DEF Reading
  <2>2. \A k \in 1 .. pos[q] - 1 : log'[k] = log[k]
    BY <1>1, <1>2, <2>1
  <2>3. Shown(q, pos[q])' = Shown(q, pos[q])
    BY <1>3, <2>2 DEF Shown
  <2>4. pos'[q] \in 1 .. Len(log') + 1
    BY <1>1, <1>2, <2>1
  <2> QED
    BY <1>4, <2>1, <2>3, <2>4 DEF Reading
<1>5. CASE pc[q] # "rows"
  BY <1>5 DEF Reading
<1> QED
  BY <1>4, <1>5

LEMMA OpenReading ==
    ASSUME TypeOK, NEW p \in Process, Reading(p), OpenForSelect(p)
    PROVE  Reading(p)'
<1>1. pc[p] = "open" /\ UNCHANGED <<program, sch, log>> /\ pos[p] = 0 /\ out[p] = <<>>
  BY DEF OpenForSelect, Reading
<1>2. CASE Goto(p, "rows")
  <2>1. /\ Show(p, Project(Names(sch[p]), Selected(p)))
        /\ pos' = [pos EXCEPT ![p] = @ + 1] /\ item' = item
    BY <1>2 DEF OpenForSelect, AfterLine, Goto, Finish, TypeOK
  <2>2. pc'[p] = "rows" /\ pos'[p] = 1
    BY <1>1, <1>2, <2>1 DEF Goto, TypeOK
  <2>3. Selected(p)' = Selected(p)
    BY <1>1, <2>1 DEF Selected, Stmt
  <2>4. out'[p] = <<Project(Names(sch[p]), Selected(p))>>
    BY <1>1, <2>1 DEF Show, TypeOK
  <2>5. Shown(p, pos[p])' = <<Project(Names(sch[p]), Selected(p))>>
    <3>1. [k \in 1 .. 1 - 1 |-> Project(log'[k], Selected(p)')] = <<>>
      OBVIOUS
    <3> QED
      BY <1>1, <2>2, <2>3, <3>1 DEF Shown
  <2>6. Len(log') \in Nat
    BY <1>1, LenProperties DEF TypeOK
  <2> QED
    BY <2>2, <2>4, <2>5, <2>6 DEF Reading
<1>3. CASE ~Goto(p, "rows")
  <2>1. Goto(p, "failed") \/ Goto(p, "statement")
    BY <1>3 DEF OpenForSelect, AfterLine, Finish
  <2> QED
    BY <2>1 DEF Goto, TypeOK, Reading
<1> QED
  BY <1>2, <1>3

LEMMA PrintReading ==
    ASSUME TypeOK, StatementsChecked, StoredIsLog, NEW p \in Process, Reading(p), PrintRow(p)
    PROVE  Reading(p)'
<1>1. /\ pc[p] = "rows" /\ UNCHANGED <<program, sch, log>>
      /\ pos[p] \in 1 .. Len(log) + 1 /\ out[p] = Shown(p, pos[p])
  BY DEF PrintRow, Reading
<1>2. lines \in Lines /\ log \in Seq(Seq(Text)) /\ Len(log) \in Nat /\ Len(lines) \in Nat
  BY LenProperties, LinesFacts DEF TypeOK
<1>3. CASE Goto(p, "rows")
  <2>1. /\ pos[p] < Len(lines) /\ Len(CellsOf(lines[pos[p] + 1])) = Len(sch[p])
        /\ Show(p, Project(CellsOf(lines[pos[p] + 1]), Selected(p)))
        /\ pos' = [pos EXCEPT ![p] = @ + 1] /\ item' = item
    BY <1>3 DEF PrintRow, AfterLine, Goto, Finish, TypeOK
  <2> DEFINE n == pos[p]
             shown(k) == Project(log[k], Selected(p))
  <2>2. n \in 1 .. Len(lines) - 1 /\ n \in Nat \ {0}
    BY <1>1, <1>2, <2>1
  <2>3. log[n] = CellsOf(lines[n + 1]) /\ n \in 1 .. Len(log)
    <3>1. log = [k \in 1 .. Len(lines) - 1 |-> CellsOf(lines[k + 1])]
      BY DEF StoredIsLog, Rows
    <3>2. DOMAIN log = 1 .. Len(log)
      BY <1>2, LenProperties
    <3> QED
      BY <2>2, <3>1, <3>2
  <2>4. log[n] \in Seq(Text) /\ Len(log[n]) = Len(sch[p])
    BY <1>2, <2>1, <2>3, ElementOfSeq
  <2>5. shown(n) \in Seq(Text)
    BY <1>1, <2>4, PrintedType DEF SelectSteps
  <2>6. out'[p] = Append(out[p], shown(n)) /\ pos'[p] = n + 1 /\ pc'[p] = "rows"
    BY <1>3, <2>1, <2>3 DEF Show, Goto, TypeOK
  <2>7. Selected(p)' = Selected(p)
    BY <1>1, <2>1 DEF Selected, Stmt
  <2>8. Append(out[p], shown(n)) = Shown(p, n + 1)
    <3> DEFINE first == <<Project(Names(sch[p]), Selected(p))>>
               before == [k \in 1 .. n - 1 |-> shown(k)]
               after == [k \in 1 .. n |-> shown(k)]
    <3>1. out[p] \in Seq(Seq(Text)) /\ out[p] = first \o before
      BY <1>1 DEF TypeOK, Shown
    <3> HIDE DEF shown
    <3>2. Append(first \o before, shown(n)) = first \o after
      BY <2>2
    <3>3. Shown(p, n + 1) = first \o after
      BY <2>2 DEF Shown, shown
    <3> QED
      BY <3>1, <3>2, <3>3
  <2>9. Shown(p, pos[p])' = Shown(p, n + 1)
    BY <1>1, <2>6, <2>7 DEF Shown
  <2>10. pos'[p] \in 1 .. Len(log') + 1
    BY <1>1, <1>2, <2>3, <2>6
  <2> QED
    BY <2>6, <2>8, <2>9, <2>10 DEF Reading
<1>4. CASE ~Goto(p, "rows")
  <2>1. Goto(p, "failed") \/ Goto(p, "statement")
    BY <1>4 DEF PrintRow, AfterLine, Finish
  <2> QED
    BY <2>1 DEF Goto, TypeOK, Reading
<1> QED
  BY <1>3, <1>4

(* What a step of p leaves alone of another run, and of the rows owed.     *)
LEMMA OthersKept ==
    ASSUME TypeOK, StatementsChecked, Dependable, NEW p \in Process,
           RunProgram(p) \/ Step(p) \/ Kill(p), NEW q \in Process, q # p
    PROVE  /\ pc'[q] = pc[q] /\ pos'[q] = pos[q] /\ out'[q] = out[q] /\ sch'[q] = sch[q]
           /\ Stmt(q)' = Stmt(q)
           /\ log' = log \/ \E row \in Seq(Text) : log' = Append(log, row)
<1> DEFINE Kept == /\ pc'[q] = pc[q] /\ pos'[q] = pos[q] /\ out'[q] = out[q]
                   /\ sch'[q] = sch[q] /\ program'[q] = program[q] /\ item'[q] = item[q]
<1>1. CASE RunProgram(p)
  BY <1>1 DEF RunProgram, Goto, TypeOK, Stmt
<1>2. CASE BeginInsert(p) \/ BeginSelect(p)
  BY <1>2 DEF BeginInsert, BeginSelect, BeginStatement, Goto, TypeOK, Stmt
<1>3. CASE EnsureDataFile(p) \/ CreateDataFile(p) \/ WriteHeader(p) \/ Kill(p) \/ EndProgram(p)
  BY <1>3 DEF EnsureDataFile, CreateDataFile, WriteHeader, Kill, EndProgram, local,
              Goto, TypeOK, Stmt
<1>4. CASE AppendRow(p)
  <2>1. Kept /\ (log' = log \/ log' = Append(log, Row(p)))
    BY <1>4 DEF AppendRow, Finish, Goto, TypeOK
  <2>2. Row(p) \in Seq(Text)
    BY <1>4, InsertLines DEF AppendRow, InsertSteps
  <2> QED
    BY <2>1, <2>2 DEF Stmt
<1>5. CASE OpenForSelect(p) \/ PrintRow(p)
  <2>1. UNCHANGED <<program, sch, log>>
    BY <1>5 DEF OpenForSelect, PrintRow
  <2>2. \E l : Goto(p, l)
    BY <1>5 DEF OpenForSelect, PrintRow, AfterLine, Finish
  <2>3. item' = item \/ item' = [item EXCEPT ![p] = @ + 1]
    BY <1>5 DEF OpenForSelect, PrintRow, AfterLine, Finish
  <2>4. pos' = pos \/ pos' = [pos EXCEPT ![p] = @ + 1]
    BY <1>5 DEF OpenForSelect, PrintRow, AfterLine
  <2>5. out' = out \/ \E line : Show(p, line)
    BY <1>5 DEF OpenForSelect, PrintRow
  <2>6. Kept
    BY <2>1, <2>2, <2>3, <2>4, <2>5 DEF Goto, Show, TypeOK
  <2> QED
    BY <2>1, <2>6 DEF Stmt
<1> QED
  BY <1>1, <1>2, <1>3, <1>4, <1>5 DEF Step

(* A step that does not read the file either leaves p no reader or starts  *)
(* its SELECT with nothing read and nothing printed.                       *)
LEMMA OwnReading ==
    ASSUME TypeOK, NEW p \in Process,
           \/ RunProgram(p) \/ Kill(p) \/ EndProgram(p) \/ BeginInsert(p) \/ BeginSelect(p)
           \/ EnsureDataFile(p) \/ CreateDataFile(p) \/ WriteHeader(p) \/ AppendRow(p)
    PROVE  Reading(p)'
<1>1. CASE BeginSelect(p)
  <2>1. pc'[p] \in {"failed", "open"} /\ pos'[p] = 0 /\ out'[p] = <<>>
    BY <1>1 DEF BeginSelect, BeginStatement, Goto, TypeOK
  <2> QED
    BY <2>1 DEF Reading
<1>2. CASE ~BeginSelect(p)
  <2>1. \E l \in {"statement", "killed", "done", "failed", "ensure", "create", "header", "append"} :
           Goto(p, l)
    BY <1>2 DEF RunProgram, Kill, EndProgram, BeginInsert, BeginStatement,
                EnsureDataFile, CreateDataFile, WriteHeader, AppendRow, Finish
  <2>2. pc'[p] \notin {"open", "rows"}
    BY <2>1 DEF Goto, TypeOK
  <2> QED
    BY <2>2 DEF Reading
<1> QED
  BY <1>1, <1>2

LEMMA ReadStep ==
    ASSUME TypeOK, StatementsChecked, Dependable, FileInv, ReadInv, [Next]_vars
    PROVE  ReadInv'
<1>1. CASE EditSchema \/ UNCHANGED vars
  <2>1. UNCHANGED <<pc, program, item, sch, pos, out, log>>
    BY <1>1 DEF EditSchema, vars, local
  <2>2. \A q \in Process : Stmt(q)' = Stmt(q)
    BY <2>1 DEF Stmt
  <2> QED
    BY <2>1, <2>2, OthersReading DEF ReadInv
<1>2. ASSUME NEW p \in Process, RunProgram(p) \/ Step(p) \/ Kill(p)
      PROVE  ReadInv'
  <2>1. ASSUME NEW q \in Process, q # p PROVE Reading(q)'
    BY <1>2, <2>1, OthersKept, OthersReading DEF ReadInv
  <2>2. Reading(p)'
    BY <1>2, OwnReading, OpenReading, PrintReading DEF ReadInv, FileInv, Step
  <2> QED
    BY <2>1, <2>2 DEF ReadInv
<1> QED
  BY <1>1, <1>2 DEF Next

(* A SELECT sees the oldest rows owed, none skipped, repeated or torn,     *)
(* however many INSERTs append to the file while it reads.                 *)
THEOREM ReadersCorrect ==
    ASSUME Dependable
    PROVE  Spec => []ReadIsPrefix
<1>1. Init => TypeOK /\ StatementsChecked /\ FileInv /\ ReadInv
  <2>1. Init => ReadInv
    BY DEF Init, ReadInv, Reading
  <2> QED
    BY <2>1, InitType, FileInit
<1>2. TypeOK /\ StatementsChecked /\ FileInv /\ ReadInv /\ [Next]_vars
        => TypeOK' /\ StatementsChecked' /\ FileInv' /\ ReadInv'
  BY TypeStep, FileStep, ReadStep
<1>3. ReadInv => ReadIsPrefix
  BY DEF ReadInv, Reading, Shown, ReadIsPrefix
<1> QED
  BY <1>1, <1>2, <1>3, PTL DEF Spec

-----------------------------------------------------------------------------
(* Short writes                                                            *)
-----------------------------------------------------------------------------
(* Files that are there can be read, and a run creates a file only where   *)
(* no other run can meet it; what is flushed may be cut anywhere.          *)
Appending ==
    /\ "no_read" \notin Faults
    /\ \/ \A p, q \in Process : p = q
       \/ \A f \in InitFiles : f.exists

CreateInv ==
    /\ exists \/ lines = <<>>
    /\ exists \/ \A p, q \in Process : p = q
    /\ \A p \in Process :
         /\ pc[p] \in {"create", "header"} => \A q \in Process : q = p
         /\ pc[p] = "create" => ~exists
         /\ pc[p] = "header" => exists /\ lines = <<>>
         /\ pc[p] = "append" => exists

(* What a step may do to the lines of the file.                            *)
WholeLinesStay(old, new) ==
    \A k \in DOMAIN old : Whole(old[k]) => k \in DOMAIN new /\ new[k] = old[k]

(* The last line is new, or is an unterminated one with more behind it.    *)
Extended(old, new, l, bytes) ==
    /\ bytes \in Line /\ l \in Chunk /\ ~Whole(l)
    /\ Len(new) \in {Len(old), Len(old) + 1} \ {0}
    /\ new[Len(new)] = l \o bytes
    /\ l # <<>> => Len(new) = Len(old) /\ l = old[Len(old)]
    /\ \A k \in 1 .. Len(new) : k # Len(new) => k \in 1 .. Len(old) /\ new[k] = old[k]
    /\ \A k \in 1 .. Len(old) : Whole(old[k]) => k \in 1 .. Len(new) /\ k # Len(new)

LEMMA WriteAtEndKeeps ==
    ASSUME NEW ls \in Lines, NEW b \in Chunk
    PROVE  WriteAtEnd(ls, b) = ls \/ \E l : Extended(ls, WriteAtEnd(ls, b), l, b)
<1>0. Len(ls) \in Nat
  BY LinesFacts
<1>1. CASE b = <<>>
  BY <1>1, WriteAtEndCases
<1>2. CASE b # <<>> /\ ls # <<>> /\ ~Whole(Last(ls))
  <2>1. Last(ls) \in Line /\ b \in Line /\ Last(ls) = ls[Len(ls)] /\ Len(ls) \in 1 .. Len(ls)
    BY <1>2, LinesFacts DEF Chunk
  <2>2. PICK j : j = Last(ls) \o b
    OBVIOUS
  <2>3. j \in Line
    BY <1>2, <2>1, <2>2, JoinedLine
  <2>4. PICK new : new = WriteAtEnd(ls, b)
    OBVIOUS
  <2>5. new = Append(Front(ls), j)
    BY <1>2, <2>2, <2>4, WriteAtEndCases
  <2>6. /\ Len(new) = Len(ls) /\ new[Len(ls)] = j
        /\ \A k \in 1 .. Len(ls) : k # Len(ls) => new[k] = ls[k]
    BY <1>2, <2>3, <2>5, LastExtended
  <2>7. \A k \in 1 .. Len(ls) : Whole(ls[k]) => k # Len(ls)
    BY <1>2, <2>1
  <2>8. Last(ls) # <<>> /\ Last(ls) \in Chunk
    BY <2>1, LineFacts DEF Chunk
  <2>9. Len(new) # 0
    BY <1>0, <2>1, <2>6
  <2>10. Extended(ls, new, Last(ls), b)
    BY <1>2, <2>1, <2>2, <2>6, <2>7, <2>8, <2>9 DEF Extended
  <2> QED
    BY <2>4, <2>10
<1>3. CASE b # <<>> /\ ~(ls # <<>> /\ ~Whole(Last(ls)))
  <2>1. b \in Line
    BY <1>3 DEF Chunk
  <2>2. PICK new : new = WriteAtEnd(ls, b)
    OBVIOUS
  <2>3. new = Append(ls, b)
    BY <1>3, <2>2, WriteAtEndCases
  <2>4. PICK n : n = Len(ls) /\ n \in Nat
    BY <1>0
  <2>5. /\ Len(new) = n + 1 /\ new[n + 1] = b
        /\ \A k \in 1 .. n : new[k] = ls[k]
    BY <1>3, <2>1, <2>3, <2>4, LineAdded
  <2>6. <<>> \o b = b /\ <<>> \in Chunk /\ ~Whole(<<>>)
    BY <2>1, LineFacts, ConcatEmptySeq DEF Chunk, Whole
  <2>7. /\ \A k \in 1 .. n + 1 : k # n + 1 => k \in 1 .. n
        /\ \A k \in 1 .. n : k \in 1 .. n + 1 /\ k # n + 1
        /\ n + 1 # 0
    BY <2>4
  <2>8. Extended(ls, new, <<>>, b)
    BY <2>1, <2>4, <2>5, <2>6, <2>7 DEF Extended
  <2> QED
    BY <2>2, <2>8
<1> QED
  BY <1>1, <1>2, <1>3

LEMMA ExtendedStays ==
    ASSUME NEW ls \in Lines, NEW new \in Lines, NEW l, NEW b, Extended(ls, new, l, b)
    PROVE  WholeLinesStay(ls, new)
<1>1. DOMAIN ls = 1 .. Len(ls) /\ DOMAIN new = 1 .. Len(new)
  BY LinesFacts
<1> QED
  BY <1>1 DEF WholeLinesStay, Extended

(* What is written at the start of an empty file is all there is in it.    *)
LEMMA WriteAtStartOfEmpty ==
    ASSUME NEW b \in Chunk, NEW new \in WriteAtStart(<<>>, b)
    PROVE  new \in {<<>>, <<b>>}
<1>1. Endings(<<>>) = {}
  BY DEF Endings
<1>2. \A rest \in Remainders(<<>>, Len(b)) : rest = <<>>
  BY <1>1 DEF Remainders
<1>3. new = WriteAtEnd(<<>>, b)
  BY <1>2 DEF WriteAtStart
<1>4. CASE b = <<>>
  BY <1>3, <1>4, WriteAtEndCases
<1>5. CASE b # <<>>
  <2>1. b \in Line
    BY <1>5 DEF Chunk
  <2> QED
    BY <1>3, <2>1, WriteToEmpty
<1> QED
  BY <1>4, <1>5

(* What a run writes, whole or torn.  The row it reports is in the file or *)
(* cut, the row that is in the file whole has been reported.               *)
LEMMA WrittenLines ==
    ASSUME TypeOK, StatementsChecked, NEW p \in Process
    PROVE  /\ AppendRow(p) => \/ UNCHANGED lines /\ (log' = log \/ log' = Append(log, Row(p)))
                              \/ \E b \in Chunk :
                                   /\ lines' = WriteAtEnd(lines, b)
                                   /\ \A k \in 1 .. Len(b) : b[k] \in Piece \cup {Newline}
                                   /\ \/ b = WriteRow(Row(p)) /\ log' = Append(log, Row(p))
                                      \/ ~Whole(b) /\ (log' = log \/ log' = Append(log, Row(p)))
           /\ WriteHeader(p) => \E b \in Chunk : lines' \in WriteAtStart(lines, b)
<1>1. ASSUME AppendRow(p)
      PROVE  \/ UNCHANGED lines /\ (log' = log \/ log' = Append(log, Row(p)))
             \/ \E b \in Chunk :
                  /\ lines' = WriteAtEnd(lines, b)
                  /\ \A k \in 1 .. Len(b) : b[k] \in Piece \cup {Newline}
                  /\ \/ b = WriteRow(Row(p)) /\ log' = Append(log, Row(p))
                     \/ ~Whole(b) /\ (log' = log \/ log' = Append(log, Row(p)))
  <2>1. PICK row : row = WriteRow(Row(p))
    OBVIOUS
  <2>2. /\ row \in Line /\ row[Len(row)] = Newline
        /\ Row(p) \in Seq(Text) /\ Row(p) # <<>>
    BY <1>1, <2>1, InsertLines DEF AppendRow, InsertSteps, Whole
  <2>3. \A k \in 1 .. Len(row) : row[k] \in Piece \cup {Newline}
    <3>1. Len(row) \in Nat \ {0}
      BY <2>2, LineFacts
    <3>2. \A k \in 1 .. Len(row) - 1 : row[k] \in Piece
      BY <2>1, <2>2, RowWritten
    <3>3. \A k \in 1 .. Len(row) : k = Len(row) \/ k \in 1 .. Len(row) - 1
      BY <3>1
    <3> QED
      BY <2>2, <3>2, <3>3
  <2>4. \A t \in Torn(row) : t \in Chunk /\ ~Whole(t) /\ \A k \in 1 .. Len(t) : t[k] \in Piece \cup {Newline}
    <3> TAKE t \in Torn(row)
    <3>1. /\ t \in Chunk /\ ~Whole(t)
          /\ \A k \in 1 .. Len(t) : t[k] = row[k] /\ k \in 1 .. Len(row) - 1
      BY <2>2, TornType
    <3>2. \A k \in 1 .. Len(row) - 1 : k \in 1 .. Len(row)
      BY <2>2, LineFacts
    <3> QED
      BY <2>3, <3>1, <3>2
  <2>5. row \in Chunk
    BY <2>2 DEF Chunk
  <2> QED
    BY <1>1, <2>1, <2>3, <2>4, <2>5 DEF AppendRow
<1>2. ASSUME WriteHeader(p)
      PROVE  \E b \in Chunk : lines' \in WriteAtStart(lines, b)
  <2>1. HeaderLine(sch[p]) \in Line /\ HeaderLine(sch[p]) \in Chunk
    BY <1>2, InsertLines DEF WriteHeader, InsertSteps, Chunk
  <2>2. \A t \in Torn(HeaderLine(sch[p])) : t \in Chunk
    BY <2>1, TornType
  <2> QED
    BY <1>2, <2>1, <2>2 DEF WriteHeader
<1> QED
  BY <1>1, <1>2

LEMMA CreateInit == ASSUME Appending PROVE Init => CreateInv
<1> SUFFICES ASSUME Init PROVE CreateInv
  OBVIOUS
<1>1. PICK f \in InitFiles : exists = f.exists /\ lines = f.lines /\ log = Rows(f.lines)
  BY DEF Init
<1>2. f.exists \/ f.lines = <<>>
  BY InstanceAssumption DEF File
<1> QED
  BY <1>1, <1>2 DEF Appending, Init, CreateInv

LEMMA CreateStep ==
    ASSUME TypeOK, StatementsChecked, Appending, CreateInv, [Next]_vars
    PROVE  CreateInv' /\ WholeLinesStay(lines, lines')
<1>0. lines \in Lines /\ WholeLinesStay(lines, lines)
  BY DEF TypeOK, WholeLinesStay
<1>1. CASE EditSchema \/ UNCHANGED vars
  <2>1. UNCHANGED <<exists, lines, pc>>
    BY <1>1 DEF EditSchema, vars
  <2> QED
    BY <1>0, <2>1 DEF CreateInv
<1>2. ASSUME NEW p \in Process,
             \/ RunProgram(p) \/ Kill(p) \/ EndProgram(p) \/ BeginInsert(p) \/ BeginSelect(p)
             \/ EnsureDataFile(p) \/ OpenForSelect(p) \/ PrintRow(p)
      PROVE  CreateInv' /\ WholeLinesStay(lines, lines')
  <2>1. UNCHANGED <<exists, lines>>
    BY <1>2 DEF RunProgram, Kill, EndProgram, BeginInsert, BeginSelect, BeginStatement,
                EnsureDataFile, OpenForSelect, PrintRow
  <2>2. \E l \in {"statement", "killed", "done", "failed", "ensure", "append", "create",
                  "open", "rows"} : /\ Goto(p, l) /\ (l = "create" => ~exists)
                                    /\ l = "append" => exists
    BY <1>2 DEF RunProgram, Kill, EndProgram, BeginInsert, BeginSelect, BeginStatement,
                EnsureDataFile, OpenForSelect, PrintRow, AfterLine, Finish, Appending
  <2>3. /\ pc'[p] # "header" /\ (pc'[p] = "create" => ~exists)
        /\ pc'[p] = "append" => exists
        /\ \A q \in Process : q # p => pc'[q] = pc[q]
    BY <2>2 DEF Goto, TypeOK
  <2> QED
    BY <1>0, <2>1, <2>3 DEF CreateInv
<1>3. ASSUME NEW p \in Process, CreateDataFile(p)
      PROVE  CreateInv' /\ WholeLinesStay(lines, lines')
  <2>1. pc[p] = "create" /\ ~exists /\ lines = <<>> /\ \A q \in Process : q = p
    BY <1>3 DEF CreateDataFile, CreateInv
  <2>2. /\ lines' = <<>>
        /\ (exists' /\ Goto(p, "header")) \/ (exists' = exists /\ Goto(p, "failed"))
    BY <1>3, <2>1 DEF CreateDataFile, file
  <2>3. pc'[p] \in {"header", "failed"} /\ (pc'[p] = "header" => exists')
    BY <2>2 DEF Goto, TypeOK
  <2> QED
    BY <1>0, <2>1, <2>2, <2>3 DEF CreateInv
<1>4. ASSUME NEW p \in Process, WriteHeader(p)
      PROVE  CreateInv' /\ WholeLinesStay(lines, lines')
  <2>1. pc[p] = "header" /\ exists /\ exists' = exists /\ lines = <<>> /\ \A q \in Process : q = p
    BY <1>4 DEF WriteHeader, CreateInv
  <2>2. pc'[p] \in {"append", "failed"}
    BY <1>4 DEF WriteHeader, Goto, TypeOK
  <2>3. WholeLinesStay(lines, lines')
    BY <2>1 DEF WholeLinesStay
  <2> QED
    BY <2>1, <2>2, <2>3 DEF CreateInv
<1>5. ASSUME NEW p \in Process, AppendRow(p)
      PROVE  CreateInv' /\ WholeLinesStay(lines, lines')
  <2>1. WholeLinesStay(lines, lines')
    <3>1. CASE UNCHANGED lines
      BY <1>0, <3>1
    <3>2. ASSUME NEW b \in Chunk, lines' = WriteAtEnd(lines, b), ~UNCHANGED lines
          PROVE  WholeLinesStay(lines, lines')
      <4>1. PICK l : Extended(lines, lines', l, b)
        BY <1>0, <3>2, WriteAtEndKeeps
      <4>2. lines' \in Lines
        BY <1>0, <3>2, WriteAtEndType
      <4> QED
        BY <1>0, <4>1, <4>2, ExtendedStays
    <3> QED
      BY <1>5, <3>1, <3>2, WrittenLines
  <2>2. /\ pc[p] = "append" /\ exists' = exists /\ pc'[p] \in {"statement", "failed"}
        /\ \A q \in Process : q # p => pc'[q] = pc[q]
    BY <1>5 DEF AppendRow, Finish, Goto, TypeOK
  <2>3. exists /\ \A q \in Process : pc[q] \notin {"create", "header"}
    BY <2>2 DEF CreateInv
  <2>4. \A q \in Process : pc'[q] \notin {"create", "header"}
    BY <2>2, <2>3
  <2> QED
    BY <2>1, <2>2, <2>3, <2>4 DEF CreateInv
<1> QED
  BY <1>1, <1>2, <1>3, <1>4, <1>5 DEF Next, Step

(* Wherever a write is cut, what is lost is behind the last newline of the *)
(* file: no later write, torn or whole, changes a line that has one.       *)
THEOREM WholeLinesKept ==
    ASSUME Appending
    PROVE  Spec => CompleteLinesStay
<1>1. Init => TypeOK /\ StatementsChecked /\ CreateInv
  BY InitType, CreateInit
<1>2. TypeOK /\ StatementsChecked /\ CreateInv /\ [Next]_vars
        => TypeOK' /\ StatementsChecked' /\ CreateInv'
  BY TypeStep, CreateStep
<1>3. TypeOK /\ StatementsChecked /\ CreateInv /\ [Next]_vars
        => [\A k \in DOMAIN lines : Whole(lines[k]) => k \in DOMAIN lines' /\ lines'[k] = lines[k]]_vars
  BY CreateStep DEF WholeLinesStay
<1> QED
  BY <1>1, <1>2, <1>3, PTL DEF Spec, CompleteLinesStay

(* The lines hold the rows of the INSERTs of one schema, which nobody      *)
(* edits, in a file that had none when the runs began.                     *)
NoRowsAtFirst == \A f \in InitFiles : Len(f.lines) <= 1
OneSchemaWritten == NoRowsAtFirst /\ "edit_schema" \notin Faults

LEMMA EndsInJoined ==
    ASSUME NEW l \in Chunk, NEW b \in Line
    PROVE  EndsIn(l \o b, b) /\ (~Whole(l) => (Whole(l \o b) <=> Whole(b)))
<1>1. l \in Seq(Byte) /\ b \in Seq(Byte) /\ Len(l) \in Nat /\ Len(b) \in Nat \ {0}
  <2>1. b \in Seq(Byte) /\ Len(b) \in Nat \ {0}
    BY LineFacts
  <2>2. CASE l = <<>>
    BY <2>1, <2>2
  <2>3. CASE l \in Line
    BY <2>1, <2>3, LineFacts
  <2> QED
    BY <2>1, <2>2, <2>3 DEF Chunk
<1>2. PICK j : j = l \o b
  OBVIOUS
<1>3. PICK m \in Nat, n \in Nat \ {0} : m = Len(l) /\ n = Len(b)
  BY <1>1
<1>4. /\ j \in Seq(Byte) /\ Len(j) = m + n
      /\ \A k \in 1 .. m : j[k] = l[k]
      /\ \A k \in 1 .. n : j[m + k] = b[k]
  BY <1>1, <1>2, <1>3, ConcatProperties
<1>5. SubSeq(j, 1, m) = l
  <2>1. SubSeq(j, 1, m) = [k \in 1 .. m |-> j[k]]
    <3>1. \A k \in 1 .. m : j[k] \in Byte
      BY <1>1, <1>4, <1>3, ElementOfSeq
    <3> QED
      BY <1>3, <1>4, <3>1, SubSeqProperties, LenProperties
  <2>2. l = [k \in 1 .. m |-> l[k]]
    BY <1>1, <1>3, LenProperties
  <2> QED
    BY <1>4, <2>1, <2>2
<1>6. Before(j, b) = l
  <2>1. Len(j) - Len(b) = m
    BY <1>3, <1>4
  <2> QED
    BY <1>5, <2>1 DEF Before
<1>7. EndsIn(j, b)
  <2>1. Len(b) <= Len(j)
    BY <1>3, <1>4
  <2> QED
    BY <1>2, <1>6, <2>1 DEF EndsIn
<1>8. Whole(j) <=> Whole(b)
  <2>1. j # <<>> /\ b # <<>> /\ j[Len(j)] = b[Len(b)]
    <3>1. n \in 1 .. n /\ j[m + n] = b[n] /\ m + n # 0
      BY <1>3, <1>4
    <3> QED
      BY <1>1, <1>3, <1>4, <3>1, EmptySeq
  <2> QED
    BY <2>1 DEF Whole
<1> QED
  BY <1>2, <1>7, <1>8

LEMMA ExtendedRows ==
    ASSUME TypeOK, TypeOK', NEW l, NEW b, Extended(lines, lines', l, b)
    PROVE  /\ Len(lines') \in Nat /\ EndsIn(lines'[Len(lines')], b)
           /\ \A k \in WholeRows : lines'[k] = lines[k] /\ k \in WholeRows' /\ k < Len(lines')
           /\ \A k \in WholeRows' : k # Len(lines') => k \in WholeRows
           /\ Len(lines') \in WholeRows' => Whole(b)
<1>1. PICK new : new = lines'
  OBVIOUS
<1>2. PICK n, m : n = Len(new) /\ m = Len(lines)
  OBVIOUS
<1>3. n \in Nat /\ m \in Nat
  BY <1>1, <1>2, LinesFacts DEF TypeOK
<1>4. /\ b \in Line /\ l \in Chunk /\ ~Whole(l) /\ n \in {m, m + 1} /\ new[n] = l \o b
      /\ \A k \in 1 .. n : k # n => k \in 1 .. m /\ new[k] = lines[k]
      /\ \A k \in 1 .. m : Whole(lines[k]) => k \in 1 .. n /\ k # n
  BY <1>1, <1>2 DEF Extended
<1>5. EndsIn(new[n], b) /\ (Whole(new[n]) <=> Whole(b))
  BY <1>4, EndsInJoined
<1>6. WholeRows = {k \in 2 .. m : Whole(lines[k])} /\ WholeRows' = {k \in 2 .. n : Whole(new[k])}
  BY <1>1, <1>2 DEF WholeRows
<1>7. ASSUME NEW k \in WholeRows
      PROVE  new[k] = lines[k] /\ k \in WholeRows' /\ k < n
  <2>1. k \in 2 .. m /\ Whole(lines[k]) /\ k \in 1 .. m
    BY <1>3, <1>6
  <2>2. k \in 1 .. n /\ k # n /\ new[k] = lines[k]
    BY <1>4, <2>1
  <2>3. k \in 2 .. n /\ k < n
    BY <1>3, <2>1, <2>2
  <2> QED
    BY <1>6, <2>1, <2>2, <2>3
<1>8. ASSUME NEW k \in WholeRows', k # n
      PROVE  k \in WholeRows
  <2>1. k \in 2 .. n /\ Whole(new[k]) /\ k \in 1 .. n
    BY <1>3, <1>6
  <2>2. k \in 1 .. m /\ new[k] = lines[k]
    BY <1>4, <1>8, <2>1
  <2>3. k \in 2 .. m
    BY <1>3, <2>1, <2>2
  <2> QED
    BY <1>6, <2>1, <2>2, <2>3
<1>9. n \in WholeRows' => Whole(b)
  BY <1>5, <1>6
<1> QED
  BY <1>1, <1>2, <1>3, <1>5, <1>7, <1>8, <1>9

(* What AppendRow does to the file and to the rows owed.                   *)
LEMMA RowAppended ==
    ASSUME TypeOK, StatementsChecked, NEW p \in Process, AppendRow(p)
    PROVE  \/ UNCHANGED lines /\ (log' = log \/ log' = Append(log, Row(p)))
           \/ \E b, l : /\ Extended(lines, lines', l, b)
                        /\ \A k \in 1 .. Len(b) : b[k] \in Piece \cup {Newline}
                        /\ \/ b = WriteRow(Row(p)) /\ log' = Append(log, Row(p))
                           \/ ~Whole(b) /\ (log' = log \/ log' = Append(log, Row(p)))
<1>1. ASSUME NEW b \in Chunk, lines' = WriteAtEnd(lines, b), ~UNCHANGED lines
      PROVE  \E l : Extended(lines, lines', l, b)
  <2>1. lines \in Lines
    BY DEF TypeOK
  <2> QED
    BY <1>1, <2>1, WriteAtEndKeeps
<1>2. log' = log \/ log' = Append(log, Row(p))
  BY DEF AppendRow
<1>3. CASE UNCHANGED lines
  BY <1>2, <1>3
<1>4. CASE ~UNCHANGED lines
  <2>1. PICK b \in Chunk : /\ lines' = WriteAtEnd(lines, b)
                           /\ \A k \in 1 .. Len(b) : b[k] \in Piece \cup {Newline}
                           /\ \/ b = WriteRow(Row(p)) /\ log' = Append(log, Row(p))
                              \/ ~Whole(b) /\ (log' = log \/ log' = Append(log, Row(p)))
    BY <1>4, WrittenLines
  <2> QED
    BY <1>1, <1>4, <2>1
<1> QED
  BY <1>3, <1>4

(* The steps that touch the file, or the rows owed.                        *)
LEMMA FileSteps ==
    ASSUME TypeOK, StatementsChecked, Appending, CreateInv, [Next]_vars
    PROVE  \/ UNCHANGED <<lines, log>>
           \/ lines = <<>> /\ Len(lines') \in Nat /\ Len(lines') <= 1 /\ log' = log
           \/ \E p \in Process : AppendRow(p)
<1>1. ASSUME NEW p \in Process, CreateDataFile(p)
      PROVE  lines = <<>> /\ Len(lines') \in Nat /\ Len(lines') <= 1 /\ log' = log
  <2>1. lines = <<>> /\ (lines' = lines \/ lines' = <<>>) /\ log' = log
    BY <1>1 DEF CreateDataFile, file, CreateInv
  <2> QED
    BY <2>1, EmptySeq
<1>2. ASSUME NEW p \in Process, WriteHeader(p)
      PROVE  lines = <<>> /\ Len(lines') \in Nat /\ Len(lines') <= 1 /\ log' = log
  <2>1. lines = <<>> /\ log' = log
    BY <1>2 DEF WriteHeader, CreateInv
  <2>2. PICK b \in Chunk : lines' \in WriteAtStart(<<>>, b)
    BY <1>2, <2>1, WrittenLines
  <2>3. lines' = <<>> \/ lines' = <<b>>
    BY <2>2, WriteAtStartOfEmpty
  <2>4. Len(<<>>) = 0 /\ Len(<<b>>) = 1
    BY EmptySeq
  <2>5. Len(lines') \in {0, 1}
    BY <2>3, <2>4
  <2>6. \A n \in {0, 1} : n \in Nat /\ n <= 1
    OBVIOUS
  <2> QED
    BY <2>1, <2>5, <2>6
<1> QED
  BY <1>1, <1>2 DEF Next, Step, EditSchema, RunProgram, Kill, EndProgram, BeginInsert,
     BeginSelect, BeginStatement, EnsureDataFile, OpenForSelect, PrintRow, vars

-----------------------------------------------------------------------------
(* The order of the rows                                                   *)
-----------------------------------------------------------------------------
LEMMA OrderInit == ASSUME NoRowsAtFirst PROVE Init => StoredInOrder
<1> SUFFICES ASSUME Init PROVE StoredInOrder
  OBVIOUS
<1>1. PICK f \in InitFiles : exists = f.exists /\ lines = f.lines /\ log = Rows(f.lines)
  BY DEF Init
<1>2. Len(lines) <= 1 /\ Len(lines) \in Nat
  BY <1>1, InitType, LinesFacts DEF NoRowsAtFirst, TypeOK
<1>3. WholeRows = {}
  BY <1>2 DEF WholeRows
<1>4. [k \in WholeRows |-> 0] \in [WholeRows -> DOMAIN log]
  BY <1>3
<1> QED
  BY <1>3, <1>4 DEF StoredInOrder

(* The same whole rows, and no row owed less.                              *)
LEMMA OrderKept ==
    ASSUME StoredInOrder, WholeRows' = WholeRows,
           \A k \in WholeRows : lines'[k] = lines[k],
           \A n \in DOMAIN log : n \in DOMAIN log' /\ log'[n] = log[n]
    PROVE  StoredInOrder'
<1>1. PICK from \in [WholeRows -> DOMAIN log] :
        /\ \A k \in WholeRows : EndsIn(lines[k], WriteRow(log[from[k]]))
        /\ \A j, k \in WholeRows : j < k => from[j] < from[k]
  BY DEF StoredInOrder
<1>2. from \in [WholeRows -> DOMAIN log'] /\ \A k \in WholeRows : log'[from[k]] = log[from[k]]
  BY <1>1
<1>3. \A k \in WholeRows : EndsIn(lines'[k], WriteRow(log'[from[k]]))
  BY <1>1, <1>2
<1> QED
  BY <1>1, <1>2, <1>3 DEF StoredInOrder

(* One more whole row, which ends with the row now owed last.              *)
LEMMA OrderExtended ==
    ASSUME StoredInOrder, NEW n \in Nat, NEW r,
           log \in Seq(Seq(Text)), r \in Seq(Text), log' = Append(log, r),
           EndsIn(lines'[n], WriteRow(r)),
           \A k \in WholeRows : lines'[k] = lines[k] /\ k < n,
           \A k \in WholeRows' : k # n => k \in WholeRows
    PROVE  StoredInOrder'
<1>1. PICK from \in [WholeRows -> DOMAIN log] :
        /\ \A k \in WholeRows : EndsIn(lines[k], WriteRow(log[from[k]]))
        /\ \A j, k \in WholeRows : j < k => from[j] < from[k]
  BY DEF StoredInOrder
<1>2. PICK m \in Nat : m = Len(log) /\ DOMAIN log = 1 .. m
  BY LenProperties
<1>3. /\ DOMAIN log' = 1 .. m + 1 /\ log'[m + 1] = r
      /\ \A i \in 1 .. m : log'[i] = log[i]
  <2>1. Len(log') = m + 1 /\ log' \in Seq(Seq(Text))
    BY <1>2, AppendProperties
  <2> QED
    BY <1>2, <2>1, AppendProperties, LenProperties
<1> DEFINE new == [k \in WholeRows' |-> IF k = n THEN m + 1 ELSE from[k]]
<1>4. \A k \in WholeRows' : k # n => /\ from[k] \in 1 .. m /\ from[k] \in 1 .. m + 1
                                     /\ from[k] < m + 1 /\ k < n
  <2> SUFFICES ASSUME NEW k \in WholeRows', k # n
               PROVE  /\ from[k] \in 1 .. m /\ from[k] \in 1 .. m + 1
                      /\ from[k] < m + 1 /\ k < n
    OBVIOUS
  <2>1. k \in WholeRows
    OBVIOUS
  <2>2. from[k] \in 1 .. m
    BY <1>1, <1>2, <2>1
  <2> QED
    BY <2>1, <2>2
<1>5. new \in [WholeRows' -> DOMAIN log']
  BY <1>2, <1>3, <1>4
<1>6. ASSUME NEW k \in WholeRows' PROVE EndsIn(lines'[k], WriteRow(log'[new[k]]))
  <2>1. CASE k = n
    BY <1>3, <2>1
  <2>2. CASE k # n
    <3>1. k \in WholeRows /\ new[k] = from[k] /\ log'[from[k]] = log[from[k]]
      BY <1>3, <1>4, <2>2
    <3>2. EndsIn(lines[k], WriteRow(log[from[k]])) /\ lines'[k] = lines[k]
      BY <1>1, <3>1
    <3> QED
      BY <3>1, <3>2
  <2> QED
    BY <2>1, <2>2
<1>7. ASSUME NEW j \in WholeRows', NEW k \in WholeRows', j < k
      PROVE  new[j] < new[k]
  <2>0. WholeRows' \subseteq Int
    BY DEF WholeRows
  <2>1. j # n
    <3>1. k # n => k < n
      BY <1>4
    <3> QED
      BY <1>7, <2>0, <3>1
  <2>2. CASE k = n
    BY <1>4, <2>1, <2>2
  <2>3. CASE k # n
    <3>1. j \in WholeRows /\ k \in WholeRows
      BY <2>1, <2>3
    <3> QED
      BY <1>1, <1>7, <2>1, <2>3, <3>1
  <2> QED
    BY <2>2, <2>3
<1> HIDE DEF new
<1> QED
  BY <1>5, <1>6, <1>7 DEF StoredInOrder

LEMMA OrderStep ==
    ASSUME TypeOK, TypeOK', StatementsChecked, Appending, CreateInv, StoredInOrder, [Next]_vars
    PROVE  StoredInOrder'
<1>1. CASE UNCHANGED <<lines, log>>
  BY <1>1 DEF StoredInOrder, WholeRows
<1>2. CASE lines = <<>> /\ Len(lines') \in Nat /\ Len(lines') <= 1 /\ log' = log
  <2>1. Len(lines) = 0
    BY <1>2, EmptySeq
  <2>2. WholeRows = {} /\ WholeRows' = {}
    BY <1>2, <2>1 DEF WholeRows
  <2> QED
    BY <1>2, <2>2, OrderKept
<1>3. ASSUME NEW p \in Process, AppendRow(p)
      PROVE  StoredInOrder'
  <2>1. Row(p) \in Seq(Text) /\ log \in Seq(Seq(Text))
    BY <1>3, InsertLines DEF AppendRow, InsertSteps, TypeOK
  <2>2. ASSUME log' = log \/ log' = Append(log, Row(p))
        PROVE  \A n \in DOMAIN log : n \in DOMAIN log' /\ log'[n] = log[n]
    <3>1. CASE log' = log
      BY <3>1
    <3>2. CASE log' = Append(log, Row(p))
      <4>1. DOMAIN log = 1 .. Len(log) /\ Len(log) \in Nat
        BY <2>1, LenProperties
      <4>2. log' \in Seq(Seq(Text)) /\ Len(log') = Len(log) + 1
        BY <2>1, <3>2, AppendProperties
      <4>3. DOMAIN log' = 1 .. Len(log) + 1
        BY <4>2, LenProperties
      <4> QED
        BY <2>1, <3>2, <4>1, <4>3, AppendProperties
    <3> QED
      BY <2>2, <3>1, <3>2
  <2>3. CASE UNCHANGED lines /\ (log' = log \/ log' = Append(log, Row(p)))
    <3>1. WholeRows' = WholeRows /\ \A k \in WholeRows : lines'[k] = lines[k]
      BY <2>3 DEF WholeRows
    <3> QED
      BY <2>2, <2>3, <3>1, OrderKept
  <2>4. ASSUME NEW b, NEW l, Extended(lines, lines', l, b),
               b = WriteRow(Row(p)), log' = Append(log, Row(p))
        PROVE  StoredInOrder'
    BY <2>1, <2>4, ExtendedRows, OrderExtended
  <2>5. ASSUME NEW b, NEW l, Extended(lines, lines', l, b), ~Whole(b),
               log' = log \/ log' = Append(log, Row(p))
        PROVE  StoredInOrder'
    <3>1. WholeRows' = WholeRows /\ \A k \in WholeRows : lines'[k] = lines[k]
      BY <2>5, ExtendedRows
    <3> QED
      BY <2>2, <2>5, <3>1, OrderKept
  <2> QED
    BY <1>3, <2>3, <2>4, <2>5, RowAppended
<1> QED
  BY <1>1, <1>2, <1>3, FileSteps

(* However writes are cut, and whichever statements are told, the whole    *)
(* lines below the header end with rows of INSERTs that reported success,  *)
(* none twice and in the order of the reports; the schema may be edited    *)
(* under the runs.                                                         *)
THEOREM RowsInOrder ==
    ASSUME Appending, NoRowsAtFirst
    PROVE  Spec => []StoredInOrder
<1> DEFINE Inv == TypeOK /\ StatementsChecked /\ CreateInv /\ StoredInOrder
<1>1. Init => Inv
  BY InitType, CreateInit, OrderInit
<1>2. Inv /\ [Next]_vars => Inv'
  BY TypeStep, CreateStep, OrderStep
<1>3. Inv => StoredInOrder
  OBVIOUS
<1> HIDE DEF Inv
<1> QED
  BY <1>1, <1>2, <1>3, PTL DEF Spec

-----------------------------------------------------------------------------
(* What damage may look like                                               *)
-----------------------------------------------------------------------------
DamageInv ==
    /\ \A p \in Process : pc[p] \in InsertSteps => sch[p] = schema
    /\ \A n \in DOMAIN log : log[n] \in Seq(Text) /\ log[n] # <<>> /\ Len(log[n]) = Len(schema)
    /\ \A k \in 2 .. Len(lines) : \A j \in 1 .. Len(lines[k]) : lines[k][j] \in Piece \cup {Newline}

LEMMA DamageInit == ASSUME NoRowsAtFirst PROVE Init => DamageInv
<1> SUFFICES ASSUME Init PROVE DamageInv
  OBVIOUS
<1>1. PICK f \in InitFiles : exists = f.exists /\ lines = f.lines /\ log = Rows(f.lines)
  BY DEF Init
<1>2. Len(lines) <= 1 /\ Len(lines) \in Nat
  BY <1>1, InitType, LinesFacts DEF NoRowsAtFirst, TypeOK
<1>3. \A k \in 2 .. Len(lines) : FALSE
  BY <1>2
<1>4. DOMAIN log = {}
  <2>1. DOMAIN Rows(lines) = 1 .. Len(lines) - 1
    BY DEF Rows
  <2> QED
    BY <1>1, <1>2, <2>1
<1> QED
  BY <1>3, <1>4 DEF Init, DamageInv, InsertSteps

LEMMA DamageStep ==
    ASSUME TypeOK, TypeOK', StatementsChecked, Appending, CreateInv, OneSchemaWritten, DamageInv,
           [Next]_vars
    PROVE  DamageInv'
<1>1. schema' = schema
  BY DEF Next, Step, EditSchema, OneSchemaWritten, RunProgram, EndProgram, BeginInsert,
         BeginSelect, BeginStatement, EnsureDataFile, CreateDataFile, WriteHeader, AppendRow,
         OpenForSelect, PrintRow, Kill, vars
<1>2. \A p \in Process : pc'[p] \in InsertSteps => sch'[p] = schema'
  <2> SUFFICES ASSUME NEW q \in Process PROVE pc'[q] \in InsertSteps => sch'[q] = schema
    BY <1>1
  <2>1. CASE UNCHANGED <<pc, sch>>
    BY <2>1 DEF DamageInv
  <2>2. ASSUME NEW p \in Process,
               \/ EnsureDataFile(p) \/ CreateDataFile(p) \/ WriteHeader(p) \/ AppendRow(p)
        PROVE  pc'[q] \in InsertSteps => sch'[q] = schema
    <3>1. sch' = sch /\ pc[p] \in InsertSteps /\ \E l : Goto(p, l)
      BY <2>2 DEF EnsureDataFile, CreateDataFile, WriteHeader, AppendRow, Finish, local,
                  InsertSteps
    <3>2. \A r \in Process : r # p => pc'[r] = pc[r]
      BY <3>1 DEF Goto, TypeOK
    <3> QED
      BY <3>1, <3>2 DEF DamageInv
  <2>3. ASSUME NEW p \in Process,
               \/ RunProgram(p) \/ Kill(p) \/ EndProgram(p) \/ OpenForSelect(p) \/ PrintRow(p)
        PROVE  pc'[q] \in InsertSteps => sch'[q] = schema
    <3>1. /\ \A r \in Process : r # p => sch'[r] = sch[r]
          /\ \E l \in {"statement", "killed", "done", "failed", "rows"} : Goto(p, l)
      BY <2>3 DEF RunProgram, Kill, EndProgram, OpenForSelect, PrintRow, AfterLine, Finish,
                  local, TypeOK
    <3>2. pc'[p] \notin InsertSteps /\ \A r \in Process : r # p => pc'[r] = pc[r]
      BY <3>1 DEF Goto, TypeOK, InsertSteps
    <3> QED
      BY <3>1, <3>2 DEF DamageInv
  <2>4. ASSUME NEW p \in Process, BeginInsert(p) \/ BeginSelect(p)
        PROVE  pc'[q] \in InsertSteps => sch'[q] = schema
    <3>1. sch' = [sch EXCEPT ![p] = schema] /\ \E l : Goto(p, l)
      BY <2>4 DEF BeginInsert, BeginSelect, BeginStatement
    <3>2. sch'[p] = schema /\ \A r \in Process : r # p => sch'[r] = sch[r] /\ pc'[r] = pc[r]
      BY <3>1 DEF Goto, TypeOK
    <3> QED
      BY <3>2 DEF DamageInv
  <2>5. CASE EditSchema \/ UNCHANGED vars
    BY <2>1, <2>5 DEF EditSchema, OneSchemaWritten, vars
  <2> QED
    BY <2>2, <2>3, <2>4, <2>5 DEF Next, Step
<1>3. \A p \in Process : AppendRow(p) => /\ Row(p) \in Seq(Text) /\ Row(p) # <<>>
                                         /\ Len(Row(p)) = Len(schema)
  BY InsertLines DEF AppendRow, InsertSteps, DamageInv
<1>4. \A n \in DOMAIN log' : /\ log'[n] \in Seq(Text) /\ log'[n] # <<>>
                             /\ Len(log'[n]) = Len(schema)
  <2>1. CASE log' = log
    BY <2>1 DEF DamageInv
  <2>2. ASSUME NEW p \in Process, AppendRow(p), log' = Append(log, Row(p)), NEW n \in DOMAIN log'
        PROVE  log'[n] \in Seq(Text) /\ log'[n] # <<>> /\ Len(log'[n]) = Len(schema)
    <3>1. PICK m \in Nat : m = Len(log) /\ DOMAIN log = 1 .. m /\ log \in Seq(Seq(Text))
      BY LenProperties DEF TypeOK
    <3>2. /\ log' \in Seq(Seq(Text)) /\ Len(log') = m + 1 /\ log'[m + 1] = Row(p)
          /\ \A i \in 1 .. m : log'[i] = log[i]
      BY <1>3, <2>2, <3>1, AppendProperties
    <3>3. n \in 1 .. m + 1
      BY <2>2, <3>2, LenProperties
    <3>4. CASE n = m + 1
      BY <1>3, <2>2, <3>2, <3>4
    <3>5. CASE n # m + 1
      <4>1. n \in 1 .. m
        BY <3>1, <3>3, <3>5
      <4>2. log'[n] = log[n] /\ n \in DOMAIN log
        BY <3>1, <3>2, <4>1
      <4> QED
        BY <4>2 DEF DamageInv
    <3> QED
      BY <3>4, <3>5
  <2>3. ASSUME NEW p \in Process, AppendRow(p)
        PROVE  log' = log \/ log' = Append(log, Row(p))
    BY <2>3 DEF AppendRow
  <2> QED
    BY <2>1, <2>2, <2>3, FileSteps
<1>5. \A k \in 2 .. Len(lines') : \A j \in 1 .. Len(lines'[k]) : lines'[k][j] \in Piece \cup {Newline}
  <2>1. CASE UNCHANGED lines
    BY <2>1 DEF DamageInv
  <2>2. CASE Len(lines') \in Nat /\ Len(lines') <= 1
    BY <2>2
  <2>3. ASSUME NEW b, NEW l, Extended(lines, lines', l, b),
               \A k \in 1 .. Len(b) : b[k] \in Piece \cup {Newline},
               NEW k \in 2 .. Len(lines'), NEW j \in 1 .. Len(lines'[k])
        PROVE  lines'[k][j] \in Piece \cup {Newline}
    <3>1. PICK new, n, m : /\ new = lines' /\ n = Len(new) /\ m = Len(lines)
                           /\ n \in Nat /\ m \in Nat /\ n \in {m, m + 1}
      BY <2>3, LinesFacts DEF TypeOK, Extended
    <3>2. /\ b \in Line /\ l \in Chunk /\ new[n] = l \o b
          /\ l # <<>> => n = m /\ l = lines[m]
          /\ \A i \in 1 .. n : i # n => i \in 1 .. m /\ new[i] = lines[i]
      BY <2>3, <3>1 DEF Extended
    <3>3. k \in 2 .. n /\ j \in 1 .. Len(new[k])
      BY <3>1
    <3>4. CASE k # n
      <4>1. new[k] = lines[k] /\ k \in 2 .. m
        BY <3>1, <3>2, <3>3, <3>4
      <4> QED
        BY <3>1, <3>3, <4>1 DEF DamageInv
    <3>5. CASE k = n
      <4>1. l \in Seq(Byte) /\ b \in Seq(Byte) /\ Len(l) \in Nat /\ Len(b) \in Nat
        BY <3>2, LineFacts, EmptySeq DEF Chunk
      <4>2. \A i \in 1 .. Len(l) : l[i] \in Piece \cup {Newline}
        <5>1. CASE l = <<>>
          BY <5>1, EmptySeq
        <5>2. CASE l # <<>>
          <6>1. m \in 2 .. m /\ l = lines[m]
            BY <3>1, <3>2, <3>3, <3>5, <5>2
          <6> QED
            BY <3>1, <6>1 DEF DamageInv
        <5> QED
          BY <5>1, <5>2
      <4>3. PICK c : c = l \o b
        OBVIOUS
      <4>4. /\ Len(c) = Len(l) + Len(b)
            /\ \A i \in 1 .. Len(c) : c[i] = IF i <= Len(l) THEN l[i] ELSE b[i - Len(l)]
        BY <4>1, <4>3, ConcatProperties
      <4>5. j \in 1 .. Len(c) /\ new[k] = c
        BY <3>2, <3>3, <3>5, <4>3
      <4>6. CASE j <= Len(l)
        <5>1. j \in 1 .. Len(l) /\ c[j] = l[j]
          BY <4>1, <4>4, <4>5, <4>6
        <5> QED
          BY <3>1, <4>2, <4>5, <5>1
      <4>7. CASE ~(j <= Len(l))
        <5>1. PICK i : i = j - Len(l)
          OBVIOUS
        <5>2. i \in 1 .. Len(b) /\ c[j] = b[i]
          BY <4>1, <4>4, <4>5, <4>7, <5>1
        <5> QED
          BY <2>3, <3>1, <4>5, <5>2
      <4> QED
        BY <4>6, <4>7
    <3> QED
      BY <3>4, <3>5
  <2>4. ASSUME NEW p \in Process, AppendRow(p)
        PROVE  \/ UNCHANGED lines
               \/ \E b, l : /\ Extended(lines, lines', l, b)
                            /\ \A k \in 1 .. Len(b) : b[k] \in Piece \cup {Newline}
    BY <2>4, RowAppended
  <2> QED
    BY <2>1, <2>2, <2>3, <2>4, FileSteps
<1> QED
  BY <1>1, <1>2, <1>4, <1>5 DEF DamageInv

(* A torn row that does not end inside quotes spoils the first cell of the *)
(* row written behind it, and no more: a line that SELECT accepts, however *)
(* many torn rows it is made of, has from its second cell on the cells of  *)
(* one row that an INSERT reported.                                        *)
THEOREM DamageIsConfined ==
    ASSUME Appending, OneSchemaWritten
    PROVE  Spec => []DamageConfined
<1> DEFINE Inv == TypeOK /\ StatementsChecked /\ CreateInv /\ StoredInOrder /\ DamageInv
<1>1. Init => Inv
  BY InitType, CreateInit, OrderInit, DamageInit DEF OneSchemaWritten
<1>2. Inv /\ [Next]_vars => Inv'
  BY TypeStep, CreateStep, OrderStep, DamageStep
<1>3. Inv => DamageConfined
  <2> SUFFICES ASSUME Inv, NEW k \in WholeRows
               PROVE  \E n \in DOMAIN log :
                        /\ EndsIn(lines[k], WriteRow(log[n]))
                        /\ /\ ~Unclosed(Before(lines[k], WriteRow(log[n])))
                           /\ Len(CellsOf(lines[k])) = Len(schema)
                           => Tail(CellsOf(lines[k])) = Tail(log[n])
    BY DEF DamageConfined
  <2>1. PICK n \in DOMAIN log : EndsIn(lines[k], WriteRow(log[n]))
    BY DEF StoredInOrder
  <2>2. log[n] \in Seq(Text) /\ log[n] # <<>> /\ Len(log[n]) = Len(schema)
    BY DEF DamageInv
  <2>3. k \in 2 .. Len(lines) /\ k \in 1 .. Len(lines) /\ lines[k] \in Line
    <3>1. lines \in Lines
      BY DEF TypeOK
    <3>2. k \in 2 .. Len(lines) /\ k \in 1 .. Len(lines)
      BY <3>1, LinesFacts DEF WholeRows
    <3> QED
      BY <3>1, <3>2, LinesFacts
  <2>4. \A j \in 1 .. Len(lines[k]) - 1 : lines[k][j] \in Piece
    <3> TAKE j \in 1 .. Len(lines[k]) - 1
    <3>1. j \in 1 .. Len(lines[k])
      BY <2>3, LineFacts
    <3>2. lines[k][j] # Newline /\ lines[k][j] \in Piece \cup {Newline}
      BY <2>3, <3>1, LineFacts DEF DamageInv
    <3> QED
      BY <3>2
  <2>5. ASSUME ~Unclosed(Before(lines[k], WriteRow(log[n]))), Len(CellsOf(lines[k])) = Len(schema)
        PROVE  Tail(CellsOf(lines[k])) = Tail(log[n])
    <3>1. lines[k] \in Seq(Byte)
      BY <2>3, LineFacts
    <3> QED
      BY <2>1, <2>2, <2>4, <2>5, <3>1, DamagedLine
  <2> QED
    BY <2>1, <2>5
<1> HIDE DEF Inv
<1> QED
  BY <1>1, <1>2, <1>3, PTL DEF Spec

-----------------------------------------------------------------------------
(* Files that do not open, and files created twice                         *)
-----------------------------------------------------------------------------
LEMMA FlattenType ==
    ASSUME NEW S, NEW q \in Seq(Seq(S))
    PROVE  FlattenSeq(q) \in Seq(S)
<1>1. CASE q = <<>>
  BY <1>1, EmptySeq DEF FlattenSeq
<1>2. CASE q # <<>>
  BY <1>2, FlattenPlaces
<1> QED
  BY <1>1, <1>2

LEMMA FlattenConcat ==
    ASSUME NEW S, NEW q \in Seq(Seq(S)), NEW r \in Seq(Seq(S))
    PROVE  FlattenSeq(q \o r) = FlattenSeq(q) \o FlattenSeq(r)
<1> DEFINE T == {w \in Seq(Seq(S)) : FlattenSeq(q \o w) = FlattenSeq(q) \o FlattenSeq(w)}
<1>1. <<>> \in T
  <2>1. q \o <<>> = q /\ FlattenSeq(<<>>) = <<>>
    BY ConcatEmptySeq DEF FlattenSeq
  <2>2. FlattenSeq(q) \o <<>> = FlattenSeq(q)
    BY FlattenType, ConcatEmptySeq
  <2> QED
    BY <2>1, <2>2, EmptySeq
<1>2. ASSUME NEW w \in Seq(Seq(S)), NEW e \in Seq(S), w \in T PROVE Append(w, e) \in T
  <2>1. Append(w, e) \in Seq(Seq(S)) /\ q \o w \in Seq(Seq(S))
    BY AppendProperties, ConcatProperties
  <2>2. q \o Append(w, e) = Append(q \o w, e)
    <3>1. <<e>> \in Seq(Seq(S)) /\ Append(w, e) = w \o <<e>> /\ Append(q \o w, e) = (q \o w) \o <<e>>
      BY <2>1, AppendIsConcat
    <3> QED
      BY <3>1, ConcatAssociative
  <2>3. PICK fq, fw : fq = FlattenSeq(q) /\ fw = FlattenSeq(w) /\ fq \in Seq(S) /\ fw \in Seq(S)
    BY FlattenType
  <2>4. FlattenSeq(Append(w, e)) = fw \o e
    BY <2>3, FlattenAppend
  <2>5. FlattenSeq(Append(q \o w, e)) = FlattenSeq(q \o w) \o e
    BY <2>1, FlattenAppend
  <2>6. (fq \o fw) \o e = fq \o (fw \o e)
    BY <2>3, ConcatAssociative
  <2> QED
    BY <1>2, <2>1, <2>2, <2>3, <2>4, <2>5, <2>6
<1> HIDE DEF T
<1>3. \A w \in Seq(Seq(S)) : w \in T
  BY <1>1, <1>2, AppendInduction
<1> QED
  BY <1>3 DEF T

LEMMA FlattenOne ==
    ASSUME NEW S, NEW e \in Seq(S)
    PROVE  FlattenSeq(<<e>>) = e
<1>1. <<>> \in Seq(Seq(S)) /\ <<e>> = Append(<<>>, e) /\ FlattenSeq(<<>>) = <<>>
  BY EmptySeq DEF FlattenSeq
<1>2. FlattenSeq(<<e>>) = FlattenSeq(<<>>) \o e
  BY <1>1, FlattenAppend
<1> QED
  BY <1>1, <1>2, ConcatEmptySeq

LEMMA Regroup ==
    ASSUME NEW S, NEW a \in Seq(S), NEW b \in Seq(S), NEW c \in Seq(S),
           NEW l, l = (a \o b) \o c, NEW r, r = a \o (b \o c)
    PROVE  l = r /\ a \o b \in Seq(S) /\ b \o c \in Seq(S)
<1>1. (a \o b) \o c = a \o (b \o c)
  BY ConcatAssociative
<1>2. a \o b \in Seq(S) /\ b \o c \in Seq(S)
  BY ConcatProperties
<1> QED
  BY <1>1, <1>2

LEMMA ConcatEmpty ==
    ASSUME NEW S, NEW a \in Seq(S), NEW b \in Seq(S), a \o b = <<>>
    PROVE  a = <<>>
<1>1. Len(a) \in Nat /\ Len(b) \in Nat /\ Len(a \o b) = Len(a) + Len(b)
  BY ConcatProperties, LenProperties
<1>2. Len(a) + Len(b) = 0
  BY <1>1
<1>3. Len(a) = 0
  BY <1>1, <1>2
<1> QED
  BY <1>3, EmptySeq

(* A sequence is its first elements and the others.                        *)
LEMMA Halves ==
    ASSUME NEW S, NEW s \in Seq(S), NEW m \in 0 .. Len(s)
    PROVE  /\ SubSeq(s, 1, m) \in Seq(S) /\ Len(SubSeq(s, 1, m)) = m
           /\ SubSeq(s, m + 1, Len(s)) \in Seq(S)
           /\ \A k \in 1 .. m : SubSeq(s, 1, m)[k] = s[k]
           /\ s = SubSeq(s, 1, m) \o SubSeq(s, m + 1, Len(s))
<1>1. PICK N, h, t : N \in Nat /\ N = Len(s) /\ h = SubSeq(s, 1, m) /\ t = SubSeq(s, m + 1, N)
  BY LenProperties
<1>2. m \in Nat /\ m <= N
  BY <1>1
<1>3. \A k \in 1 .. N : s[k] \in S
  BY <1>1, ElementOfSeq
<1>4. h \in Seq(S) /\ Len(h) = m /\ \A k \in 1 .. m : h[k] = s[k]
  <2>1. \A k \in 1 .. m : s[k] \in S
    BY <1>2, <1>3
  <2>2. /\ h \in Seq(S) /\ Len(h) = IF 1 <= m THEN m - 1 + 1 ELSE 0
        /\ \A k \in 1 .. m - 1 + 1 : h[k] = s[1 + k - 1]
    BY <1>1, <1>2, <2>1, SubSeqProperties
  <2> QED
    BY <1>2, <2>2
<1>5. t \in Seq(S) /\ Len(t) = N - m /\ \A k \in 1 .. N - m : t[k] = s[m + k]
  <2>1. \A k \in m + 1 .. N : s[k] \in S
    BY <1>2, <1>3
  <2>2. m + 1 \in Int /\ N \in Int
    BY <1>1, <1>2
  <2>3. /\ t \in Seq(S) /\ Len(t) = IF m + 1 <= N THEN N - (m + 1) + 1 ELSE 0
        /\ \A k \in 1 .. N - (m + 1) + 1 : t[k] = s[m + 1 + k - 1]
    BY <1>1, <2>1, <2>2, SubSeqProperties
  <2> QED
    BY <1>1, <1>2, <2>3
<1>6. PICK c : c = h \o t
  OBVIOUS
<1>7. /\ c \in Seq(S) /\ Len(c) = m + (N - m)
      /\ \A k \in 1 .. m : c[k] = h[k]
      /\ \A k \in 1 .. N - m : c[m + k] = t[k]
  <2>1. PICK i, j : i = Len(h) /\ j = Len(t)
    OBVIOUS
  <2>2. /\ c \in Seq(S) /\ Len(c) = i + j
        /\ \A k \in 1 .. i : c[k] = h[k]
        /\ \A k \in 1 .. j : c[i + k] = t[k]
    <3>1. h \in Seq(S) /\ t \in Seq(S)
      BY <1>4, <1>5
    <3> QED
      BY <1>6, <2>1, <3>1, ConcatFacts
  <2>3. i = m /\ j = N - m
    BY <1>4, <1>5, <2>1
  <2> QED
    BY <2>2, <2>3
<1>8. \A k \in 1 .. N : c[k] = s[k]
  <2> TAKE k \in 1 .. N
  <2>1. CASE k <= m
    BY <1>2, <1>4, <1>7, <2>1
  <2>2. CASE ~(k <= m)
    <3>1. PICK i : i = k - m
      OBVIOUS
    <3>2. i \in 1 .. N - m /\ k = m + i
      BY <1>1, <1>2, <2>2, <3>1
    <3> QED
      BY <1>5, <1>7, <3>2
  <2> QED
    BY <2>1, <2>2
<1>9. c = s
  <2>1. Len(c) = Len(s) /\ \A k \in 1 .. Len(c) : c[k] = s[k]
    BY <1>1, <1>2, <1>7, <1>8
  <2> QED
    BY <1>7, <2>1, SeqEqual
<1> QED
  BY <1>1, <1>4, <1>5, <1>6, <1>9

(* The bytes of a file, and of a file that was written to at its end.      *)
LEMMA LinesBytes ==
    ASSUME NEW ls \in Lines
    PROVE  ls \in Seq(Seq(Byte)) /\ FlattenSeq(ls) \in Seq(Byte)
<1>1. ls \in Seq(Line)
  BY LinesFacts
<1>2. Line \subseteq Seq(Byte)
  BY LineFacts
<1>3. ls \in Seq(Seq(Byte))
  BY <1>1, <1>2, SeqMonotonic
<1> QED
  BY <1>3, FlattenType

LEMMA BytesAtEnd ==
    ASSUME NEW ls \in Lines, NEW b \in Line
    PROVE  FlattenSeq(WriteAtEnd(ls, b)) = FlattenSeq(ls) \o b
<1>1. ls \in Seq(Seq(Byte)) /\ b \in Seq(Byte) /\ b # <<>>
  BY LinesBytes, LineFacts
<1>2. CASE ls # <<>> /\ ~Whole(Last(ls))
  <2>1. PICK f \in Seq(Seq(Byte)), l \in Seq(Byte) : ls = Append(f, l)
    BY <1>1, <1>2, SequenceEmptyOrAppend
  <2>2. Front(ls) = f /\ Last(ls) = l
    <3>1. PICK N \in Nat : N = Len(f)
      BY LenProperties
    <3>2. Len(ls) = N + 1 /\ ls[N + 1] = l /\ \A k \in 1 .. N : ls[k] = f[k]
      BY <2>1, <3>1, AppendProperties
    <3>3. Last(ls) = l
      BY <3>2 DEF Last
    <3>4. N \in 0 .. Len(ls) /\ Len(ls) - 1 = N
      BY <3>2
    <3>5. PICK h : h = SubSeq(ls, 1, N)
      OBVIOUS
    <3>6. h \in Seq(Seq(Byte)) /\ Len(h) = N /\ \A k \in 1 .. N : h[k] = ls[k]
      BY <1>1, <3>4, <3>5, Halves
    <3>7. h = f
      <4>1. Len(h) = Len(f) /\ \A k \in 1 .. Len(h) : h[k] = f[k]
        BY <3>1, <3>2, <3>6
      <4> QED
        BY <3>6, <4>1, SeqEqual
    <3>8. Front(ls) = h
      BY <3>4, <3>5 DEF Front
    <3> QED
      BY <3>3, <3>7, <3>8
  <2>3. WriteAtEnd(ls, b) = Append(f, l \o b)
    BY <1>1, <1>2, <2>2, WriteAtEndCases
  <2>4. l \o b \in Seq(Byte)
    BY <1>1, ConcatProperties
  <2>5. FlattenSeq(WriteAtEnd(ls, b)) = FlattenSeq(f) \o (l \o b)
    BY <2>3, <2>4, FlattenAppend
  <2>6. FlattenSeq(ls) = FlattenSeq(f) \o l
    BY <2>1, FlattenAppend
  <2>7. PICK ff \in Seq(Byte) : ff = FlattenSeq(f)
    BY FlattenType
  <2>8. (ff \o l) \o b = ff \o (l \o b)
    BY <1>1, ConcatAssociative
  <2> QED
    BY <2>5, <2>6, <2>7, <2>8
<1>3. CASE ~(ls # <<>> /\ ~Whole(Last(ls)))
  <2>1. WriteAtEnd(ls, b) = Append(ls, b)
    BY <1>1, <1>3, WriteAtEndCases
  <2> QED
    BY <1>1, <2>1, FlattenAppend
<1> QED
  BY <1>2, <1>3

(* What is left behind a byte of the file is the last of its bytes.        *)
LEMMA EndingBytes ==
    ASSUME NEW ls \in Lines, NEW r \in Endings(ls)
    PROVE  \E pre \in Seq(Byte) : FlattenSeq(ls) = pre \o FlattenSeq(r)
<1>1. PICK k \in DOMAIN ls :
        \E n \in 1 .. Len(ls[k]) :
            r = <<SubSeq(ls[k], n, Len(ls[k]))>> \o SubSeq(ls, k + 1, Len(ls))
  BY DEF Endings
<1>2. PICK n \in 1 .. Len(ls[k]) :
            r = <<SubSeq(ls[k], n, Len(ls[k]))>> \o SubSeq(ls, k + 1, Len(ls))
  BY <1>1
<1>3. PICK l, x, y, u, v : /\ l = ls[k] /\ x = SubSeq(l, 1, n - 1) /\ y = SubSeq(l, n, Len(l))
                           /\ u = SubSeq(ls, 1, k) /\ v = SubSeq(ls, k + 1, Len(ls))
  OBVIOUS
<1>4. ls \in Seq(Seq(Byte)) /\ Len(ls) \in Nat /\ k \in 1 .. Len(ls) /\ l \in Seq(Byte)
  <2>1. l \in Line
    BY <1>3, LinesFacts
  <2> QED
    BY <2>1, LinesFacts, LinesBytes, LineFacts
<1>5. /\ u \in Seq(Seq(Byte)) /\ Len(u) = k /\ v \in Seq(Seq(Byte))
      /\ \A j \in 1 .. k : u[j] = ls[j]
      /\ ls = u \o v
  <2>1. k \in 0 .. Len(ls)
    BY <1>4
  <2> QED
    BY <1>3, <1>4, <2>1, Halves
<1>6. x \in Seq(Byte) /\ y \in Seq(Byte) /\ l = x \o y
  <2>1. n - 1 \in 0 .. Len(l) /\ (n - 1) + 1 = n
    <3>1. Len(l) \in Nat /\ n \in 1 .. Len(l)
      BY <1>3, <1>4, LenProperties
    <3> QED
      BY <3>1
  <2>2. PICK m : m = n - 1
    OBVIOUS
  <2>3. x = SubSeq(l, 1, m) /\ y = SubSeq(l, m + 1, Len(l)) /\ m \in 0 .. Len(l)
    BY <1>3, <2>1, <2>2
  <2> QED
    BY <1>4, <2>3, Halves
<1>7. PICK w \in Seq(Seq(Byte)) : u = Append(w, l)
  <2>1. u # <<>>
    BY <1>4, <1>5, EmptySeq
  <2>2. PICK w \in Seq(Seq(Byte)), e \in Seq(Byte) : u = Append(w, e)
    BY <1>5, <2>1, SequenceEmptyOrAppend
  <2>3. Len(u) = Len(w) + 1 /\ u[Len(w) + 1] = e
    BY <2>2, AppendProperties
  <2>4. u[k] = l /\ k \in 1 .. k
    BY <1>3, <1>4, <1>5
  <2> QED
    BY <1>5, <2>2, <2>3, <2>4
<1>8. PICK fw, fv : fw = FlattenSeq(w) /\ fv = FlattenSeq(v) /\ fw \in Seq(Byte) /\ fv \in Seq(Byte)
  BY <1>5, FlattenType
<1>9. FlattenSeq(ls) = (fw \o l) \o fv
  <2>1. FlattenSeq(u) = fw \o l
    BY <1>4, <1>7, <1>8, FlattenAppend
  <2>2. FlattenSeq(u \o v) = FlattenSeq(u) \o fv
    BY <1>5, <1>8, FlattenConcat
  <2> QED
    BY <1>5, <2>1, <2>2
<1>10. FlattenSeq(r) = y \o fv
  <2>1. r = <<y>> \o v /\ <<y>> \in Seq(Seq(Byte))
    <3>1. r = <<y>> \o v
      BY <1>2, <1>3
    <3>2. <<y>> \in Seq(Seq(Byte))
      BY <1>6
    <3> QED
      BY <3>1, <3>2
  <2>2. FlattenSeq(<<y>> \o v) = FlattenSeq(<<y>>) \o fv
    BY <1>5, <1>8, <2>1, FlattenConcat
  <2> QED
    BY <1>6, <2>1, <2>2, FlattenOne
<1>11. fw \o x \in Seq(Byte) /\ y \o fv \in Seq(Byte)
  BY <1>6, <1>8, ConcatProperties
<1>12. (fw \o (x \o y)) \o fv = (fw \o x) \o (y \o fv)
  <2>1. PICK g \in Seq(Byte) : g = fw \o x
    BY <1>11
  <2>2. fw \o (x \o y) = g \o y
    <3>1. fw \in Seq(Byte) /\ x \in Seq(Byte) /\ y \in Seq(Byte)
      BY <1>6, <1>8
    <3> QED
      BY <2>1, <3>1, ConcatAssociative
  <2>3. y \in Seq(Byte) /\ fv \in Seq(Byte)
    BY <1>6, <1>8
  <2>4. (g \o y) \o fv = g \o (y \o fv)
    BY <2>3, ConcatAssociative
  <2> QED
    BY <2>1, <2>2, <2>4
<1> QED
  BY <1>6, <1>9, <1>10, <1>11, <1>12

(* A header written over the first bytes of a file leaves the others.      *)
LEMMA BytesAtStart ==
    ASSUME NEW ls \in Lines, NEW b \in Line, Whole(b), NEW new \in WriteAtStart(ls, b)
    PROVE  \E pre, e \in Seq(Byte) :
              /\ FlattenSeq(ls) = pre \o e /\ FlattenSeq(new) = b \o e
              /\ Len(e) = IF Len(b) >= Len(FlattenSeq(ls)) THEN 0
                          ELSE Len(FlattenSeq(ls)) - Len(b)
<1>1. PICK rest \in Remainders(ls, Len(b)) :
        new = CASE rest = <<>> -> WriteAtEnd(<<>>, b)
                [] rest # <<>> /\ Whole(b) -> <<b>> \o rest
                [] OTHER -> <<b \o Head(rest)>> \o Tail(rest)
  BY DEF WriteAtStart
<1>2. b \in Seq(Byte) /\ FlattenSeq(ls) \in Seq(Byte) /\ <<>> \in Seq(Byte) /\ FlattenSeq(<<>>) = <<>>
  BY LineFacts, LinesBytes, EmptySeq DEF FlattenSeq
<1>3. PICK e : e = FlattenSeq(rest)
  OBVIOUS
<1>4. Len(e) = IF Len(b) >= Len(FlattenSeq(ls)) THEN 0 ELSE Len(FlattenSeq(ls)) - Len(b)
  BY <1>3 DEF Remainders, Size
<1>5. CASE rest = <<>>
  <2>1. new = WriteAtEnd(<<>>, b)
    BY <1>1, <1>5, Zenon
  <2>2. FlattenSeq(new) = FlattenSeq(<<>>) \o b
    BY <2>1, BytesAtEnd, NoLines
  <2>3. FlattenSeq(new) = b \o <<>>
    BY <1>2, <2>2, ConcatEmptySeq
  <2>4. FlattenSeq(ls) = FlattenSeq(ls) \o <<>>
    BY <1>2, ConcatEmptySeq
  <2> QED
    BY <1>2, <1>3, <1>4, <1>5, <2>3, <2>4
<1>6. CASE rest # <<>>
  <2>1. rest \in Endings(ls) /\ rest \in Lines
    BY <1>6, EndingsType DEF Remainders
  <2>2. rest \in Seq(Seq(Byte)) /\ e \in Seq(Byte) /\ <<b>> \in Seq(Seq(Byte))
    BY <1>2, <1>3, <2>1, LinesBytes
  <2>3. new = <<b>> \o rest
    BY <1>1, <1>6, Zenon
  <2>4. FlattenSeq(new) = b \o e
    <3>1. FlattenSeq(<<b>> \o rest) = FlattenSeq(<<b>>) \o e
      BY <1>3, <2>2, FlattenConcat
    <3> QED
      BY <1>2, <2>3, <3>1, FlattenOne
  <2>5. PICK pre \in Seq(Byte) : FlattenSeq(ls) = pre \o e
    BY <1>3, <2>1, EndingBytes
  <2> QED
    BY <1>4, <2>2, <2>4, <2>5
<1> QED
  BY <1>5, <1>6

(* The bytes of rows.                                                      *)
LEMMA RowBytes ==
    ASSUME NEW r \in Seq(Text)
    PROVE  WriteRow(r) \in Seq(Byte)
<1>1. PICK t : t = Joined(Fields(r))
  OBVIOUS
<1>2. t \in Text
  <2>1. Fields(r) \in Seq(Text) /\ <<>> \in Text
    BY FieldsMore, EmptySeq DEF Text
  <2> QED
    BY <1>1, <2>1, JoinedMore
<1>3. WriteRow(r) = t \o <<Newline>>
  BY <1>1 DEF WriteRow, Fields
<1> QED
  BY <1>2, <1>3, EndedLine, LineFacts

LEMMA ContentType ==
    ASSUME NEW rows \in Seq(Seq(Text))
    PROVE  /\ [k \in DOMAIN rows |-> WriteRow(rows[k])] \in Seq(Seq(Byte))
           /\ Len([k \in DOMAIN rows |-> WriteRow(rows[k])]) = Len(rows)
           /\ Content(rows) \in Seq(Byte)
<1> DEFINE f == [k \in DOMAIN rows |-> WriteRow(rows[k])]
<1>1. Len(rows) \in Nat /\ DOMAIN rows = 1 .. Len(rows) /\ \A k \in 1 .. Len(rows) : rows[k] \in Seq(Text)
  BY LenProperties, ElementOfSeq
<1>2. f \in [1 .. Len(rows) -> Seq(Byte)]
  BY <1>1, RowBytes
<1> HIDE DEF f
<1>3. f \in Seq(Seq(Byte)) /\ Len(f) = Len(rows)
  BY <1>1, <1>2, FunctionIsSeq
<1>4. FlattenSeq(f) \in Seq(Byte)
  BY <1>3, FlattenType
<1> QED
  BY <1>3, <1>4 DEF Content, f

LEMMA ContentMore ==
    ASSUME NEW rows \in Seq(Seq(Text)), NEW r \in Seq(Text)
    PROVE  Content(Append(rows, r)) = Content(rows) \o WriteRow(r)
<1>1. PICK more : more = Append(rows, r)
  OBVIOUS
<1>2. /\ more \in Seq(Seq(Text)) /\ Len(more) = Len(rows) + 1 /\ more[Len(rows) + 1] = r
      /\ Len(rows) \in Nat /\ DOMAIN more = 1 .. Len(more) /\ DOMAIN rows = 1 .. Len(rows)
      /\ \A k \in 1 .. Len(rows) : more[k] = rows[k]
  BY <1>1, AppendProperties, LenProperties
<1>3. PICK f, g, b : /\ f = [k \in DOMAIN rows |-> WriteRow(rows[k])]
                     /\ g = [k \in DOMAIN more |-> WriteRow(more[k])]
                     /\ b = WriteRow(r)
  OBVIOUS
<1>4. /\ f \in Seq(Seq(Byte)) /\ Len(f) = Len(rows)
      /\ g \in Seq(Seq(Byte)) /\ Len(g) = Len(f) + 1 /\ b \in Seq(Byte)
  BY <1>2, <1>3, ContentType, RowBytes
<1>5. g[Len(f) + 1] = b /\ \A k \in 1 .. Len(f) : g[k] = f[k]
  <2>1. Len(rows) + 1 \in DOMAIN more /\ \A k \in 1 .. Len(rows) : k \in DOMAIN more /\ k \in DOMAIN rows
    BY <1>2
  <2> QED
    BY <1>2, <1>3, <1>4, <2>1
<1>6. g = Append(f, b)
  BY <1>4, <1>5, IsAppend
<1>7. FlattenSeq(g) = FlattenSeq(f) \o b
  BY <1>4, <1>6, FlattenAppend
<1> QED
  BY <1>1, <1>3, <1>7 DEF Content

(* Writes are whole; there is one run at a time, or the headers that runs  *)
(* may write are all the same; and the file starts with nothing, or with a *)
(* header and its rows as INSERT writes them.                              *)
Alone == \A p, q \in Process : p = q
Recreating ==
    /\ "short_write" \notin Faults
    /\ Alone \/ \A s, t \in Schemas \ {<<>>} : Names(s) = Names(t)
    /\ \A f \in InitFiles :
          \/ f.lines = <<>>
          \/ \E s \in Schemas \ {<<>>} : FlattenSeq(f.lines) = HeaderLine(s) \o Content(Rows(f.lines))

(* NewestKept, the newest bytes named and not counted.                     *)
NewestInv ==
    /\ \E lost, newest \in Seq(Byte) :
          /\ Content(log) = lost \o newest
          /\ \/ FlattenSeq(lines) = newest
             \/ \E s \in Schemas \ {<<>>} : FlattenSeq(lines) = HeaderLine(s) \o newest
    /\ Alone => \A p \in Process : pc[p] = "header" => lines = <<>>

LEMMA HeaderOf ==
    ASSUME NEW s \in Schemas
    PROVE  HeaderLine(s) \in Line /\ Whole(HeaderLine(s)) /\ HeaderLine(s) \in Seq(Byte)
<1>1. Names(s) \in Seq(Text)
  BY InstanceAssumption, NamesType
<1> QED
  BY <1>1, HeaderWritten, LineFacts DEF HeaderLine

LEMMA NewestInit == ASSUME Recreating PROVE Init => NewestInv
<1> SUFFICES ASSUME Init PROVE NewestInv
  OBVIOUS
<1>1. PICK f \in InitFiles : exists = f.exists /\ lines = f.lines /\ log = Rows(f.lines)
  BY DEF Init
<1>2. lines \in Lines /\ log \in Seq(Seq(Text)) /\ Content(log) \in Seq(Byte) /\ <<>> \in Seq(Byte)
  BY InitType, ContentType, EmptySeq DEF TypeOK
<1>3. \A p \in Process : pc[p] # "header"
  BY DEF Init
<1>4. CASE lines = <<>>
  <2>1. FlattenSeq(lines) = <<>>
    BY <1>4 DEF FlattenSeq
  <2>2. Content(log) = Content(log) \o <<>>
    BY <1>2, ConcatEmptySeq
  <2> QED
    BY <1>2, <1>3, <2>1, <2>2 DEF NewestInv
<1>5. CASE lines # <<>>
  <2>1. \E s \in Schemas \ {<<>>} : FlattenSeq(lines) = HeaderLine(s) \o Content(log)
    BY <1>1, <1>5 DEF Recreating
  <2>2. Content(log) = <<>> \o Content(log)
    BY <1>2, ConcatEmptySeq
  <2> QED
    BY <1>2, <1>3, <2>1, <2>2 DEF NewestInv
<1> QED
  BY <1>4, <1>5

(* The bytes of the file and those of the rows owed, in one step.          *)
LEMMA NewestStep ==
    ASSUME TypeOK, StatementsChecked, Recreating, NewestInv, [Next]_vars
    PROVE  \E lost, newest \in Seq(Byte) :
              /\ Content(log') = lost \o newest
              /\ \/ FlattenSeq(lines') = newest
                 \/ \E s \in Schemas \ {<<>>} : FlattenSeq(lines') = HeaderLine(s) \o newest
<1> DEFINE Kept(owed, stored) ==
      \E lost, newest \in Seq(Byte) :
          /\ owed = lost \o newest
          /\ stored = newest \/ \E s \in Schemas \ {<<>>} : stored = HeaderLine(s) \o newest
<1> SUFFICES Kept(Content(log'), FlattenSeq(lines'))
  OBVIOUS
<1>1. lines \in Lines /\ log \in Seq(Seq(Text)) /\ Content(log) \in Seq(Byte) /\ <<>> \in Seq(Byte)
  BY ContentType, EmptySeq DEF TypeOK
<1>2. CASE UNCHANGED <<lines, log>>
  BY <1>2 DEF NewestInv
<1>3. ASSUME NEW p \in Process, CreateDataFile(p)
      PROVE  Kept(Content(log'), FlattenSeq(lines'))
  <2>1. log' = log /\ (lines' = lines \/ lines' = <<>>)
    BY <1>3 DEF CreateDataFile, file
  <2>2. CASE lines' = <<>>
    <3>1. FlattenSeq(lines') = <<>>
      BY <2>2 DEF FlattenSeq
    <3>2. Content(log') = Content(log) \o <<>>
      BY <1>1, <2>1, ConcatEmptySeq
    <3> QED
      BY <1>1, <3>1, <3>2
  <2> QED
    BY <1>2, <2>1, <2>2
<1>4. PICK lost \in Seq(Byte), newest \in Seq(Byte) :
        /\ Content(log) = lost \o newest
        /\ \/ FlattenSeq(lines) = newest
           \/ \E s \in Schemas \ {<<>>} : FlattenSeq(lines) = HeaderLine(s) \o newest
  BY DEF NewestInv
<1>5. ASSUME NEW p \in Process, WriteHeader(p)
      PROVE  Kept(Content(log'), FlattenSeq(lines'))
  <2>1. PICK header : header = HeaderLine(sch[p])
    OBVIOUS
  <2>2. /\ sch[p] \in Schemas \ {<<>>} /\ header \in Line /\ Whole(header) /\ header \in Seq(Byte)
        /\ lines = <<>> \/ \A s \in Schemas \ {<<>>} : HeaderLine(s) = header
    <3>1. sch[p] \in Schemas \ {<<>>}
      BY <1>5 DEF WriteHeader, StatementsChecked, Checked, InsertSteps
    <3>2. CASE Alone
      BY <1>5, <2>1, <3>1, <3>2, HeaderOf DEF WriteHeader, NewestInv
    <3>3. CASE ~Alone
      <4>1. \A s \in Schemas \ {<<>>} : HeaderLine(s) = HeaderLine(sch[p])
        BY <3>1, <3>3 DEF Recreating, HeaderLine
      <4> QED
        BY <2>1, <3>1, <4>1, HeaderOf
    <3> QED
      BY <3>2, <3>3
  <2>3. lines' \in WriteAtStart(lines, header) /\ log' = log
    BY <1>5, <2>1 DEF WriteHeader, Recreating
  <2>4. PICK old \in Seq(Byte), H \in Nat, N \in Nat :
          old = FlattenSeq(lines) /\ H = Len(header) /\ N = Len(old)
    BY <1>1, <2>2, LinesBytes, LenProperties
  <2>5. PICK pre \in Seq(Byte), e \in Seq(Byte) :
          old = pre \o e /\ FlattenSeq(lines') = header \o e /\ Len(e) = IF H >= N THEN 0 ELSE N - H
    <3>1. PICK pre \in Seq(Byte), e \in Seq(Byte) :
            /\ FlattenSeq(lines) = pre \o e /\ FlattenSeq(lines') = header \o e
            /\ Len(e) = IF Len(header) >= Len(FlattenSeq(lines)) THEN 0
                        ELSE Len(FlattenSeq(lines)) - Len(header)
      <4>1. PICK new : new = lines'
        OBVIOUS
      <4>2. new \in WriteAtStart(lines, header)
        BY <2>3, <4>1
      <4> QED
        BY <1>1, <2>2, <4>1, <4>2, BytesAtStart
    <3> QED
      BY <2>4, <3>1
  <2>6. CASE old = newest
    <3>1. Content(log') = lost \o (pre \o e)
      BY <1>4, <2>3, <2>5, <2>6
    <3>2. (lost \o pre) \o e = lost \o (pre \o e) /\ lost \o pre \in Seq(Byte)
      BY Regroup
    <3> QED
      BY <2>1, <2>2, <2>5, <3>1, <3>2
  <2>7. CASE old = header \o newest
    <3>1. PICK E \in Nat, F \in Nat, P \in Nat : E = Len(e) /\ F = Len(newest) /\ P = Len(pre)
      BY LenProperties
    <3>2. N = H + F /\ N = P + E
      BY <2>2, <2>4, <2>5, <2>7, <3>1, ConcatProperties
    <3>3. E = F /\ P = H
      BY <2>5, <3>1, <3>2
    <3>4. e = newest
      <4>1. \A k \in 1 .. E : old[P + k] = e[k]
        BY <2>5, <3>1, ConcatFacts
      <4>2. \A k \in 1 .. F : old[H + k] = newest[k]
        BY <2>2, <2>4, <2>7, <3>1, ConcatFacts
      <4>3. Len(e) = Len(newest) /\ \A k \in 1 .. Len(e) : e[k] = newest[k]
        BY <3>1, <3>3, <4>1, <4>2
      <4> QED
        BY <4>3, SeqEqual
    <3> QED
      BY <1>4, <2>1, <2>2, <2>3, <2>5, <3>4
  <2>8. CASE lines = <<>>
    <3>1. old = <<>>
      BY <2>4, <2>8 DEF FlattenSeq
    <3>2. ASSUME NEW s \in Schemas \ {<<>>}, old = HeaderLine(s) \o newest
          PROVE  FALSE
      <4>1. PICK b \in Seq(Byte) : b = HeaderLine(s) /\ b # <<>>
        BY HeaderOf DEF Whole
      <4>2. b \o newest = <<>>
        BY <3>1, <3>2, <4>1
      <4> QED
        BY <4>1, <4>2, ConcatEmpty
    <3> QED
      BY <1>4, <2>4, <2>6, <3>2
  <2> QED
    BY <1>4, <2>2, <2>4, <2>6, <2>7, <2>8
<1>6. ASSUME NEW p \in Process, AppendRow(p)
      PROVE  Kept(Content(log'), FlattenSeq(lines'))
  <2>1. PICK row : row = WriteRow(Row(p))
    OBVIOUS
  <2>2. row \in Line /\ row \in Seq(Byte) /\ Row(p) \in Seq(Text)
    <3>1. pc[p] \in InsertSteps
      BY <1>6 DEF AppendRow, InsertSteps
    <3> QED
      BY <2>1, <3>1, InsertLines, LineFacts
  <2>3. \/ UNCHANGED <<lines, log>>
        \/ lines' = WriteAtEnd(lines, row) /\ log' = Append(log, Row(p))
    BY <1>6, <2>1 DEF AppendRow, Recreating
  <2>4. CASE lines' = WriteAtEnd(lines, row) /\ log' = Append(log, Row(p))
    <3>1. FlattenSeq(lines') = FlattenSeq(lines) \o row
      BY <1>1, <2>2, <2>4, BytesAtEnd
    <3>2. Content(log') = (lost \o newest) \o row
      BY <1>1, <1>4, <2>1, <2>2, <2>4, ContentMore
    <3>3. Content(log') = lost \o (newest \o row) /\ newest \o row \in Seq(Byte)
      BY <2>2, <3>2, ConcatAssociative, ConcatProperties
    <3>4. CASE FlattenSeq(lines) = newest
      BY <3>1, <3>3, <3>4
    <3>5. ASSUME NEW s \in Schemas \ {<<>>}, FlattenSeq(lines) = HeaderLine(s) \o newest
          PROVE  Kept(Content(log'), FlattenSeq(lines'))
      <4>1. FlattenSeq(lines') = HeaderLine(s) \o (newest \o row)
        BY <2>2, <3>1, <3>5, HeaderOf, ConcatAssociative
      <4> QED
        BY <3>3, <4>1
    <3> QED
      BY <1>4, <3>4, <3>5
  <2> QED
    BY <1>2, <2>3, <2>4
<1>7. \/ UNCHANGED <<lines, log>>
      \/ \E p \in Process : CreateDataFile(p) \/ WriteHeader(p) \/ AppendRow(p)
  BY DEF Next, Step, EditSchema, RunProgram, Kill, EndProgram, BeginInsert,
     BeginSelect, BeginStatement, EnsureDataFile, OpenForSelect, PrintRow, vars
<1> QED
  BY <1>2, <1>3, <1>5, <1>6, <1>7

(* One run at a time never finds the file it has emptied filled.           *)
LEMMA HeaderStep ==
    ASSUME TypeOK, NewestInv, Alone, [Next]_vars
    PROVE  \A p \in Process : pc'[p] = "header" => lines' = <<>>
<1>1. CASE EditSchema \/ UNCHANGED vars
  BY <1>1 DEF EditSchema, vars, NewestInv
<1>2. ASSUME NEW p \in Process, CreateDataFile(p)
      PROVE  \A q \in Process : pc'[q] = "header" => lines' = <<>>
  <2>1. (lines' = <<>> /\ Goto(p, "header")) \/ Goto(p, "failed")
    BY <1>2 DEF CreateDataFile
  <2>2. lines' = <<>> \/ pc'[p] = "failed"
    BY <2>1 DEF Goto, TypeOK
  <2> QED
    BY <2>2 DEF Alone
<1>3. ASSUME NEW p \in Process,
             \/ RunProgram(p) \/ Kill(p) \/ EndProgram(p) \/ BeginInsert(p) \/ BeginSelect(p)
             \/ EnsureDataFile(p) \/ WriteHeader(p) \/ AppendRow(p) \/ OpenForSelect(p) \/ PrintRow(p)
      PROVE  \A q \in Process : pc'[q] # "header"
  <2>1. \E l \in {"statement", "killed", "done", "failed", "ensure", "append", "create",
                  "open", "rows"} : Goto(p, l)
    BY <1>3 DEF RunProgram, Kill, EndProgram, BeginInsert, BeginSelect, BeginStatement,
                EnsureDataFile, WriteHeader, AppendRow, OpenForSelect, PrintRow, AfterLine, Finish
  <2>2. pc'[p] # "header"
    BY <2>1 DEF Goto, TypeOK
  <2> QED
    BY <2>2 DEF Alone
<1> QED
  BY <1>1, <1>2, <1>3 DEF Next, Step

LEMMA NewestCounted ==
    ASSUME NewestInv PROVE NewestKept
<1>1. PICK lost \in Seq(Byte), newest \in Seq(Byte) :
        /\ Content(log) = lost \o newest
        /\ \/ FlattenSeq(lines) = newest
           \/ \E s \in Schemas \ {<<>>} : FlattenSeq(lines) = HeaderLine(s) \o newest
  BY DEF NewestInv
<1>2. PICK owed : owed = Content(log)
  OBVIOUS
<1> DEFINE n == Len(lost)
           m == Len(newest)
<1>3. /\ owed \in Seq(Byte) /\ Len(owed) = n + m /\ n \in 0 .. Len(owed)
      /\ \A k \in 1 .. m : owed[n + k] = newest[k]
      /\ n \in Nat /\ m \in Nat
  <2>1. /\ n \in Nat /\ m \in Nat
        /\ owed \in Seq(Byte) /\ Len(owed) = n + m
        /\ \A k \in 1 .. m : owed[n + k] = newest[k]
    BY <1>1, <1>2, ConcatFacts
  <2> QED
    BY <1>2, <2>1
<1> HIDE DEF n, m
<1>4. PICK s : s = SubSeq(owed, n + 1, Len(owed))
  OBVIOUS
<1>5. s \in Seq(Byte) /\ owed = SubSeq(owed, 1, n) \o s /\ SubSeq(owed, 1, n) \in Seq(Byte)
      /\ Len(SubSeq(owed, 1, n)) = n
  BY <1>3, <1>4, Halves
<1>6. Len(s) = m /\ \A k \in 1 .. m : owed[n + k] = s[k]
  <2>1. PICK h : h = SubSeq(owed, 1, n)
    OBVIOUS
  <2>2. h \in Seq(Byte) /\ s \in Seq(Byte) /\ owed = h \o s /\ Len(h) = n
    BY <1>5, <2>1
  <2>3. /\ Len(owed) = Len(h) + Len(s) /\ Len(s) \in Nat
        /\ \A k \in 1 .. Len(s) : owed[Len(h) + k] = s[k]
    <3>1. /\ Len(h \o s) = Len(h) + Len(s) /\ Len(s) \in Nat
          /\ \A k \in 1 .. Len(s) : (h \o s)[Len(h) + k] = s[k]
      <4>1. h \in Seq(Byte) /\ s \in Seq(Byte)
        BY <2>2
      <4> QED
        BY <4>1, ConcatFacts
    <3> QED
      BY <2>2, <3>1
  <2> QED
    BY <1>3, <2>2, <2>3
<1>7. s = newest
  <2>1. Len(s) = Len(newest) /\ \A k \in 1 .. Len(s) : s[k] = newest[k]
    BY <1>3, <1>6 DEF m
  <2> QED
    BY <1>5, <2>1, SeqEqual
<1> QED
  BY <1>1, <1>2, <1>3, <1>4, <1>7 DEF NewestKept

(* A file that does not open, or that two runs create, is emptied.  What   *)
(* the table has then lost is the oldest bytes of its rows and, of its     *)
(* header, all or nothing: the newest are all there, in their order.       *)
THEOREM NewestRowsKept ==
    ASSUME Recreating
    PROVE  Spec => []NewestKept
<1> DEFINE Inv == TypeOK /\ StatementsChecked /\ NewestInv
<1>1. Init => Inv
  BY InitType, NewestInit
<1>2. Inv /\ [Next]_vars => Inv'
  <2>1. Alone' <=> Alone
    BY DEF Alone
  <2> QED
    BY <2>1, TypeStep, NewestStep, HeaderStep DEF NewestInv
<1>3. Inv => NewestKept
  BY NewestCounted
<1> HIDE DEF Inv
<1> QED
  BY <1>1, <1>2, <1>3, PTL DEF Spec

-----------------------------------------------------------------------------
(* Table takes its operators from the same module Executor, with the same  *)
(* texts: through the INSTANCE they are what they are here.                *)
-----------------------------------------------------------------------------
LEMMA SameErrors ==
    /\ Implemented!NoError = NoError
    /\ \A m, w, n : Implemented!Failure(m, w, n) = Failure(m, w, n)
    /\ \A S : Implemented!Least(S) = Least(S)
    /\ \A s : Implemented!Names(s) = Names(s)
BY DEF Implemented!NoError, NoError, Implemented!Failure, Failure,
       Implemented!Least, Least, Implemented!Names, Names

LEMMA SameFind ==
    \A s, n : Implemented!FindSchemaColumn(s, n) = FindSchemaColumn(s, n)
BY SameErrors DEF Implemented!FindSchemaColumn, FindSchemaColumn

LEMMA SameLiteralFault ==
    \A c, l : Implemented!LiteralFault(c, l) = LiteralFault(c, l)
BY DEF Implemented!LiteralFault, LiteralFault

LEMMA SameTarget ==
    \A s, stmt, i : Implemented!Target(s, stmt, i) = Target(s, stmt, i)
BY SameFind DEF Implemented!Target, Target

LEMMA SamePairFault ==
    \A s, stmt, i : Implemented!PairFault(s, stmt, i) = PairFault(s, stmt, i)
BY SameTarget, SameLiteralFault DEF Implemented!PairFault, PairFault

LEMMA SamePairFailure ==
    \A s, stmt, i : Implemented!PairFailure(s, stmt, i) = PairFailure(s, stmt, i)
BY SamePairFault, SameErrors DEF Implemented!PairFailure, PairFailure

LEMMA SameChecks ==
    \A s, stmt :
       /\ Implemented!CountIsWrong(s, stmt) = CountIsWrong(s, stmt)
       /\ Implemented!FaultyPairs(s, stmt) = FaultyPairs(s, stmt)
       /\ Implemented!Covered(s, stmt) = Covered(s, stmt)
BY SamePairFault, SameTarget DEF Implemented!CountIsWrong, CountIsWrong,
   Implemented!FaultyPairs, FaultyPairs, Implemented!Covered, Covered

LEMMA SameInsertError ==
    \A s, stmt : Implemented!InsertError(s, stmt) = InsertError(s, stmt)
BY SameChecks, SamePairFailure, SameErrors DEF Implemented!InsertError, InsertError

LEMMA SameInsertRow ==
    \A s, stmt : Implemented!InsertRow(s, stmt) = InsertRow(s, stmt)
BY DEF Implemented!InsertRow, InsertRow, Implemented!Target, Target,
       Implemented!FindSchemaColumn, FindSchemaColumn, Implemented!Least, Least

LEMMA SameSelectError ==
    \A s, stmt : Implemented!SelectError(s, stmt) = SelectError(s, stmt)
<1>1. \A s, stmt : Implemented!UnknownColumns(s, stmt) = UnknownColumns(s, stmt)
  BY SameFind DEF Implemented!UnknownColumns, UnknownColumns
<1> QED
  BY <1>1, SameErrors DEF Implemented!SelectError, SelectError

LEMMA SameSelectedIndices ==
    \A s, stmt : Implemented!SelectedIndices(s, stmt) = SelectedIndices(s, stmt)
BY SameFind DEF Implemented!SelectedIndices, SelectedIndices

LEMMA SameProject ==
    \A row, selected : Implemented!Project(row, selected) = Project(row, selected)
BY DEF Implemented!Project, Project

-----------------------------------------------------------------------------
(* What a run still knows                                                  *)
-----------------------------------------------------------------------------
(* A SELECT past the header reads below the names of its copy of the       *)
(* schema.                                                                 *)
Informed(p) == pc[p] = "rows" => lines # <<>> /\ CellsOf(lines[1]) = Names(sch[p])
InformedInv == \A p \in Process : Informed(p)

(* The first line is there to stay.                                        *)
LEMMA FirstLineStays ==
    ASSUME NEW old \in Seq(Line), NEW new \in Seq(Line), IsPrefix(old, new), old # <<>>
    PROVE  new # <<>> /\ new[1] = old[1]
<1>1. /\ Len(old) \in Nat \ {0} /\ Len(new) \in Nat
      /\ Len(old) <= Len(new) /\ SubSeq(old, 1, Len(old)) = SubSeq(new, 1, Len(old))
  BY EmptySeq DEF IsPrefix
<1>2. 1 \in 1 .. Len(old) /\ 1 \in 1 .. Len(new)
  BY <1>1
<1>3. SubSeq(old, 1, Len(old))[1] = old[1] /\ SubSeq(new, 1, Len(old))[1] = new[1]
  BY <1>1
<1> QED
  BY <1>1, <1>3

LEMMA InformedStep ==
    ASSUME TypeOK, StatementsChecked, Dependable, FileInv, ReadInv, InformedInv, [Next]_vars
    PROVE  InformedInv'
<1> SUFFICES ASSUME NEW q \in Process PROVE Informed(q)'
  BY DEF InformedInv
<1>0. lines' \in Seq(Line) /\ lines \in Seq(Line) /\ IsPrefix(lines, lines')
  <2>1. lines' \in Lines /\ lines \in Lines
    BY TypeStep DEF TypeOK
  <2> QED
    BY <2>1, FileStep, LinesFacts
<1>1. lines # <<>> => lines' # <<>> /\ lines'[1] = lines[1]
  BY <1>0, FirstLineStays
<1>2. CASE pc'[q] = pc[q] /\ sch'[q] = sch[q]
  BY <1>1, <1>2 DEF InformedInv, Informed
<1>3. CASE ~(pc'[q] = pc[q] /\ sch'[q] = sch[q])
  <2>1. RunProgram(q) \/ Step(q) \/ Kill(q)
    <3>1. ~EditSchema /\ ~UNCHANGED vars
      BY <1>3 DEF EditSchema, local, vars
    <3>2. PICK p \in Process : RunProgram(p) \/ Step(p) \/ Kill(p)
      BY <3>1 DEF Next
    <3> QED
      BY <1>3, <3>2, OthersKept
  <2>2. CASE RunProgram(q) \/ Kill(q) \/ EndProgram(q)
    <3>1. pc'[q] \in {"statement", "killed", "done"}
      BY <2>2 DEF RunProgram, Kill, EndProgram, Goto, TypeOK
    <3> QED
      BY <3>1 DEF Informed, InsertSteps, SelectSteps
  <2>3. CASE BeginInsert(q) \/ BeginSelect(q)
    <3>1. pc'[q] \in {"failed", "ensure", "open"}
      BY <2>3 DEF BeginInsert, BeginSelect, BeginStatement, Goto, TypeOK
    <3> QED
      BY <3>1 DEF Informed
  <2>4. CASE EnsureDataFile(q) \/ CreateDataFile(q) \/ WriteHeader(q) \/ AppendRow(q)
    <3>1. pc[q] \in InsertSteps /\ sch' = sch /\ pc'[q] # "rows"
      BY <2>4 DEF EnsureDataFile, CreateDataFile, WriteHeader, AppendRow, Finish, Goto,
                  local, TypeOK, InsertSteps
    <3> QED
      BY <3>1 DEF InformedInv, Informed
  <2>5. CASE OpenForSelect(q) \/ PrintRow(q)
    <3>1. pc[q] \in SelectSteps /\ sch' = sch /\ lines' = lines
      BY <2>5 DEF OpenForSelect, PrintRow, SelectSteps
    <3>2. CASE pc'[q] = "rows"
      <4>1. pc[q] = "open"
        BY <1>3, <2>5, <3>1, <3>2 DEF OpenForSelect, PrintRow
      <4>2. lines # <<>> /\ HeaderMatches(sch[q], lines[1])
        BY <2>5, <3>2, <4>1 DEF OpenForSelect, PrintRow, Finish, Goto, TypeOK
      <4> QED
        BY <3>1, <4>2 DEF HeaderMatches, InformedInv, Informed
    <3>3. CASE pc'[q] # "rows"
      BY <3>1, <3>3 DEF InformedInv, Informed
    <3> QED
      BY <3>2, <3>3
  <2> QED
    BY <2>1, <2>2, <2>3, <2>4, <2>5 DEF Step
<1> QED
  BY <1>2, <1>3

-----------------------------------------------------------------------------
(* Steps                                                                   *)
-----------------------------------------------------------------------------
Answering == {"rows", "failed", "killed"}
Shows(p) == IF pc[p] \in Answering THEN <<>> ELSE out[p]

(* What a step of p does to what the processes have shown.                 *)
LEMMA ShownByOne ==
    ASSUME TypeOK, NEW p \in Process,
           \A q \in Process : q # p => pc'[q] = pc[q] /\ out'[q] = out[q]
    PROVE  [q \in Process |-> Shows(q)]' =
              [[q \in Process |-> Shows(q)] EXCEPT ![p] = Shows(p)']
BY DEF Shows

(* A statement more is reported successful.                                *)
LEMMA DoneByOne ==
    ASSUME TypeOK, NEW p \in Process, item' = [item EXCEPT ![p] = @ + 1]
    PROVE  [q \in Process |-> item[q] - 1]' =
              [[q \in Process |-> item[q] - 1] EXCEPT ![p] = @ + 1]
<1>1. item \in [Process -> Nat \ {0}] /\ item' = [item EXCEPT ![p] = item[p] + 1]
  BY DEF TypeOK
<1>2. (item[p] + 1) - 1 = (item[p] - 1) + 1
  BY <1>1
<1> DEFINE before == [q \in Process |-> item[q] - 1]
           after == [q \in Process |-> item'[q] - 1]
<1>3. \A q \in Process : after[q] = IF q = p THEN before[p] + 1 ELSE before[q]
  BY <1>1, <1>2
<1>4. [before EXCEPT ![p] = @ + 1] = [q \in Process |-> IF q = p THEN before[p] + 1 ELSE before[q]]
  OBVIOUS
<1> QED
  BY <1>3, <1>4

(* A step that leaves the file alone, reports nothing and shows nothing    *)
(* new.                                                                    *)
LEMMA QuietMaps ==
    ASSUME TypeOK, NEW p \in Process, UNCHANGED <<lines, item>>,
           \A q \in Process : q # p => pc'[q] = pc[q] /\ out'[q] = out[q],
           Shows(p)' \in {<<>>, Shows(p)}
    PROVE  [Implemented!Next]_Implemented!tableVars
<1> DEFINE shown == [q \in Process |-> Shows(q)]
<1>1. shown' = [shown EXCEPT ![p] = Shows(p)']
  BY ShownByOne
<1>2. CASE Shows(p)' = <<>>
  <2>1. Implemented!Forget(p)
    BY <1>1, <1>2 DEF Implemented!Forget, Shows, Answering
  <2> QED
    BY <2>1 DEF Implemented!Next
<1>3. CASE Shows(p)' = Shows(p)
  <2>1. shown' = shown
    BY <1>1, <1>3
  <2> QED
    BY <2>1 DEF Implemented!tableVars, Shows, Answering
<1> QED
  BY <1>2, <1>3

LEMMA SelectMaps ==
    ASSUME TypeOK, StatementsChecked, InformedInv, NEW p \in Process,
           pc[p] \in SelectSteps, UNCHANGED lines, item' = [item EXCEPT ![p] = @ + 1],
           \A q \in Process : q # p => pc'[q] = pc[q] /\ out'[q] = out[q],
           lines # <<>> => CellsOf(lines[1]) = Names(sch[p]),
           Shows(p)' = <<Project(Names(sch[p]), Selected(p))>>
                         \o [k \in DOMAIN Rows(lines) |-> Project(Rows(lines)[k], Selected(p))]
    PROVE  Implemented!Next
<1> DEFINE shown == [q \in Process |-> Shows(q)]
<1>1. shown' = [shown EXCEPT ![p] = Shows(p)']
  BY ShownByOne
<1>2. /\ sch[p] \in Schemas \ {<<>>} /\ Stmt(p) \in SelectStatement
      /\ SelectError(sch[p], Stmt(p)) = NoError
  BY DEF StatementsChecked, Checked
<1>3. Stmt(p) \in Implemented!Selects
  <2>1. program[p] \in Programs /\ item[p] \in DOMAIN program[p]
    BY DEF TypeOK, StatementsChecked, Checked
  <2>2. Stmt(p) \in UNION {{pr[k] : k \in DOMAIN pr} : pr \in Programs}
    BY <2>1 DEF Stmt
  <2> QED
    BY <1>2, <2>2 DEF Implemented!Selects, SelectStatement
<1>4. Implemented!Answer(Names(sch[p]), Selected(p)) = Shows(p)'
  BY SameProject DEF Implemented!Answer
<1>5. Implemented!Succeed(p)
  BY DoneByOne DEF Implemented!Succeed
<1>6. Implemented!Select(p)
  <2>1. /\ Implemented!Names(sch[p]) = Names(sch[p])
        /\ Implemented!SelectedIndices(sch[p], Stmt(p)) = Selected(p)
        /\ Implemented!SelectError(sch[p], Stmt(p)) = Implemented!NoError
    BY <1>2, SameErrors, SameSelectError, SameSelectedIndices DEF Selected
  <2>2. shown' = [shown EXCEPT ![p] = Implemented!Answer(Implemented!Names(sch[p]),
                     Implemented!SelectedIndices(sch[p], Stmt(p)))]
    BY <1>1, <1>4, <2>1
  <2>3. (IF lines = <<>> THEN <<>> ELSE CellsOf(lines[1])) \in {<<>>, Implemented!Names(sch[p])}
    BY <2>1
  <2> QED
    BY <1>2, <1>3, <1>5, <2>1, <2>2, <2>3 DEF Implemented!Select, Shows, Answering
<1> QED
  BY <1>6 DEF Implemented!Next

(* The file is there and empty.                                            *)
LEMMA SelectNothingMaps ==
    ASSUME TypeOK, StatementsChecked, NEW p \in Process,
           pc[p] \in SelectSteps, lines = <<>>, UNCHANGED <<lines, out>>,
           item' = [item EXCEPT ![p] = @ + 1],
           \A q \in Process : q # p => pc'[q] = pc[q],
           Shows(p) = <<>>, Shows(p)' = <<>>
    PROVE  Implemented!Next
<1>1. /\ sch[p] \in Schemas \ {<<>>} /\ Stmt(p) \in SelectStatement
      /\ SelectError(sch[p], Stmt(p)) = NoError
  BY DEF StatementsChecked, Checked
<1>2. Stmt(p) \in Implemented!Selects
  <2>1. program[p] \in Programs /\ item[p] \in DOMAIN program[p]
    BY DEF TypeOK, StatementsChecked, Checked
  <2>2. Stmt(p) \in UNION {{pr[k] : k \in DOMAIN pr} : pr \in Programs}
    BY <2>1 DEF Stmt
  <2> QED
    BY <1>1, <2>2 DEF Implemented!Selects, SelectStatement
<1>3. \A q \in Process : Shows(q)' = Shows(q)
  BY DEF Shows
<1>4. [q \in Process |-> Shows(q)]' = [q \in Process |-> Shows(q)]
  BY <1>3
<1>5. Implemented!Succeed(p)
  BY DoneByOne DEF Implemented!Succeed
<1>6. \E s \in Schemas \ {<<>>}, stmt \in Implemented!Selects :
         Implemented!SelectError(s, stmt) = Implemented!NoError
  BY <1>1, <1>2, SameErrors, SameSelectError
<1>7. Implemented!SelectNothing(p)
  BY <1>4, <1>5, <1>6 DEF Implemented!SelectNothing, Shows, Answering
<1> QED
  BY <1>7 DEF Implemented!Next

LEMMA WriteHeaderMaps ==
    ASSUME TypeOK, StatementsChecked, Dependable, FileInv, InformedInv,
           NEW p \in Process, WriteHeader(p)
    PROVE  Implemented!Next
<1>1. pc[p] = "header" /\ lines = <<>> /\ UNCHANGED <<out, item>>
  BY DEF WriteHeader, FileInv, local
<1> DEFINE header == HeaderLine(sch[p])
<1>2. header \in Line /\ Whole(header) /\ CellsOf(header) = Names(sch[p])
  <2>1. sch[p] \in Schemas /\ sch[p] # <<>>
    BY <1>1 DEF StatementsChecked, Checked, InsertSteps
  <2> QED
    BY <1>1, <2>1, InsertLines, HeaderRead DEF InsertSteps, Dependable
<1>3. lines' \in WriteAtStart(lines, header) /\ Goto(p, "append")
  BY DEF WriteHeader, Dependable
<1> HIDE DEF header
<1>4. lines' = <<header>>
  BY <1>1, <1>2, <1>3, WriteToEmpty
<1>5. Rows(lines) = <<>> /\ Rows(lines)' = <<>>
  BY <1>1, <1>2, <1>4, RowsOfHeader
<1>6. sch[p] \in Schemas \ {<<>>}
  BY <1>1 DEF StatementsChecked, Checked, InsertSteps
<1>7. \A q \in Process : Shows(q)' = Shows(q)
  BY <1>1, <1>3 DEF Goto, TypeOK, Shows, Answering
<1>8. Implemented!CreateTable
  BY <1>1, <1>2, <1>4, <1>5, <1>6, <1>7, SameErrors
     DEF Implemented!CreateTable, Shows, Answering
<1> QED
  BY <1>8 DEF Implemented!Next

LEMMA AppendRowMaps ==
    ASSUME TypeOK, StatementsChecked, Dependable, FileInv, InformedInv,
           NEW p \in Process, AppendRow(p)
    PROVE  [Implemented!Next]_Implemented!tableVars
<1>1. /\ pc[p] = "append" /\ UNCHANGED out /\ lines \in Lines /\ lines \in Seq(Line)
      /\ lines # <<>> /\ CellsOf(lines[1]) = Names(sch[p])
      /\ Whole(Last(lines)) /\ \A k \in DOMAIN lines : Whole(lines[k])
  <2>1. pc[p] = "append" /\ UNCHANGED out /\ lines \in Lines
    BY DEF AppendRow, TypeOK
  <2>2. lines # <<>> /\ CellsOf(lines[1]) = Names(sch[p])
    BY <2>1 DEF FileInv
  <2>3. \A k \in DOMAIN lines : Whole(lines[k])
    BY DEF FileInv, RowsMatchHeader, WellFormed
  <2> QED
    BY <2>1, <2>2, <2>3, LinesFacts
<1> DEFINE row == WriteRow(Row(p))
<1>2. row \in Line /\ Whole(row) /\ CellsOf(row) = Row(p)
  BY <1>1, InsertLines DEF InsertSteps
<1>3. CASE Goto(p, "failed")
  <2>1. pc'[p] = "failed" /\ \A q \in Process : q # p => pc'[q] = pc[q]
    BY <1>3 DEF Goto, TypeOK
  <2>2. UNCHANGED <<lines, item>>
    BY <2>1 DEF AppendRow, Dependable, Finish, Goto, TypeOK
  <2> QED
    BY <1>1, <2>1, <2>2, QuietMaps DEF Shows, Answering
<1>4. CASE ~Goto(p, "failed")
  <2>1. /\ lines' = WriteAtEnd(lines, row) /\ Goto(p, "statement")
        /\ item' = [item EXCEPT ![p] = @ + 1]
    BY <1>4 DEF AppendRow, Dependable, Finish
  <2> HIDE DEF row
  <2>2. lines' = Append(lines, row)
    BY <1>1, <1>2, <2>1, AppendWhole
  <2>3. Rows(lines)' = Append(Rows(lines), InsertRow(sch[p], Stmt(p)))
    BY <1>1, <1>2, <2>2, RowsOfAppend DEF Row
  <2>4. lines' # <<>> /\ lines'[1] = lines[1]
    BY <1>1, <1>2, <2>2
  <2>5. \A q \in Process : Shows(q)' = Shows(q)
    BY <1>1, <2>1 DEF Goto, TypeOK, Shows, Answering
  <2>6. /\ sch[p] \in Schemas \ {<<>>} /\ Stmt(p) \in InsertStatement
        /\ InsertError(sch[p], Stmt(p)) = NoError
    BY <1>1 DEF StatementsChecked, Checked, InsertSteps
  <2>7. Stmt(p) \in Implemented!Inserts
    <3>1. program[p] \in Programs /\ item[p] \in DOMAIN program[p]
      BY <1>1 DEF TypeOK, StatementsChecked, Checked, InsertSteps
    <3>2. Stmt(p) \in UNION {{pr[k] : k \in DOMAIN pr} : pr \in Programs}
      BY <3>1 DEF Stmt
    <3> QED
      BY <2>6, <3>2 DEF Implemented!Inserts, InsertStatement
  <2>8. Implemented!Succeed(p)
    BY <2>1, DoneByOne DEF Implemented!Succeed
  <2>9. Implemented!Insert(p)
    BY <1>1, <2>3, <2>4, <2>5, <2>6, <2>7, <2>8, SameErrors, SameInsertError, SameInsertRow
       DEF Implemented!Insert, Shows, Answering
  <2> QED
    BY <2>9 DEF Implemented!Next
<1> QED
  BY <1>3, <1>4

(* An absent file is answered at once; a file that is there is answered    *)
(* when its last line has been read.                                       *)
LEMMA OpenMaps ==
    ASSUME TypeOK, StatementsChecked, Dependable, FileInv, ReadInv, InformedInv,
           "bad_read" \notin Faults, NEW p \in Process, OpenForSelect(p)
    PROVE  [Implemented!Next]_Implemented!tableVars
<1>1. /\ pc[p] = "open" /\ UNCHANGED <<lines, sch>> /\ out[p] = <<>> /\ lines \in Lines
      /\ Shows(p) = <<>>
  BY DEF OpenForSelect, ReadInv, Reading, TypeOK, Shows, Answering
<1>2. \A q \in Process : q # p => pc'[q] = pc[q] /\ out'[q] = out[q]
  BY OthersKept DEF Step
<1>3. CASE Goto(p, "rows") \/ Goto(p, "failed")
  <2>1. pc'[p] \in Answering /\ pc'[p] # "statement"
    BY <1>3 DEF Goto, TypeOK, Answering
  <2>2. item' = item
    BY <2>1 DEF OpenForSelect, PrintRow, AfterLine, Finish, Goto, TypeOK
  <2> QED
    BY <1>1, <1>2, <2>1, <2>2, QuietMaps DEF Shows
<1>4. CASE Goto(p, "statement")
  <2>1. pc'[p] = "statement"
    BY <1>4 DEF Goto, TypeOK
  <2>2. \A l \in {"rows", "failed"} : ~Goto(p, l)
    BY <2>1 DEF Goto, TypeOK
  <2>3. lines = <<>> \/ ~exists \/ Whole(lines[1])
    <3>1. lines # <<>> => 1 \in DOMAIN lines
      BY <1>1, LinesFacts, EmptySeq
    <3> QED
      BY <3>1 DEF FileInv, RowsMatchHeader, WellFormed
  <2>4. /\ \/ lines = <<>> /\ UNCHANGED out
           \/ ~exists /\ Show(p, Project(Names(sch[p]), Selected(p)))
        /\ item' = [item EXCEPT ![p] = @ + 1] /\ pc[p] \in SelectSteps
    BY <1>1, <2>2, <2>3 DEF OpenForSelect, AfterLine, Finish, SelectSteps
  <2>5. CASE lines = <<>> /\ UNCHANGED out
    <3>1. Shows(p)' = <<>>
      BY <1>1, <2>1, <2>5 DEF Shows
    <3> QED
      BY <1>1, <1>2, <2>4, <2>5, <3>1, SelectNothingMaps
  <2>6. CASE ~exists /\ Show(p, Project(Names(sch[p]), Selected(p)))
    <3>1. lines = <<>> /\ Rows(lines) = <<>>
      <4>1. 1 .. 0 - 1 = {}
        OBVIOUS
      <4> QED
        BY <2>6, <4>1 DEF FileInv, Rows
    <3>2. Shows(p)' = <<Project(Names(sch[p]), Selected(p))>>
      BY <1>1, <2>1, <2>6 DEF Show, TypeOK, Shows, Answering
    <3>3. [k \in DOMAIN Rows(lines) |-> Project(Rows(lines)[k], Selected(p))] = <<>>
      BY <3>1
    <3>4. Shows(p)' = <<Project(Names(sch[p]), Selected(p))>>
             \o [k \in DOMAIN Rows(lines) |-> Project(Rows(lines)[k], Selected(p))]
      BY <3>2, <3>3
    <3> QED
      BY <1>1, <1>2, <2>4, <3>1, <3>4, SelectMaps
  <2> QED
    BY <2>4, <2>5, <2>6
<1> QED
  BY <1>3, <1>4 DEF OpenForSelect, AfterLine, Finish

LEMMA PrintMaps ==
    ASSUME TypeOK, StatementsChecked, Dependable, FileInv, ReadInv, InformedInv,
           "bad_read" \notin Faults, NEW p \in Process, PrintRow(p)
    PROVE  [Implemented!Next]_Implemented!tableVars
<1>1. /\ pc[p] = "rows" /\ UNCHANGED <<lines, sch>> /\ lines \in Lines
      /\ lines # <<>> /\ CellsOf(lines[1]) = Names(sch[p]) /\ Shows(p) = <<>>
  BY DEF PrintRow, InformedInv, Informed, TypeOK, Shows, Answering
<1>2. \A q \in Process : q # p => pc'[q] = pc[q] /\ out'[q] = out[q]
  BY OthersKept DEF Step
<1>3. CASE Goto(p, "rows") \/ Goto(p, "failed")
  <2>1. pc'[p] \in Answering /\ pc'[p] # "statement"
    BY <1>3 DEF Goto, TypeOK, Answering
  <2>2. item' = item
    BY <2>1 DEF OpenForSelect, PrintRow, AfterLine, Finish, Goto, TypeOK
  <2> QED
    BY <1>1, <1>2, <2>1, <2>2, QuietMaps DEF Shows
<1>4. CASE Goto(p, "statement")
  <2>0. /\ Len(lines) \in Nat \ {0} /\ DOMAIN lines = 1 .. Len(lines)
        /\ pos[p] \in 1 .. Len(log) + 1 /\ out[p] = Shown(p, pos[p])
        /\ log = [k \in 1 .. Len(lines) - 1 |-> CellsOf(lines[k + 1])] /\ Len(log) \in Nat
    BY <1>1, EmptySeq, LinesFacts, LenProperties DEF ReadInv, Reading, FileInv, StoredIsLog, Rows, TypeOK
  <2>1. pc'[p] = "statement"
    BY <1>4 DEF Goto, TypeOK
  <2>2. \A l \in {"rows", "failed"} : ~Goto(p, l)
    BY <2>1 DEF Goto, TypeOK
  <2>3. pos[p] < Len(lines) => Whole(lines[pos[p] + 1])
    BY <2>0 DEF FileInv, RowsMatchHeader, WellFormed
  <2>4. /\ pos[p] >= Len(lines) /\ UNCHANGED out
        /\ item' = [item EXCEPT ![p] = @ + 1]
    BY <2>2, <2>3 DEF PrintRow, AfterLine, Finish
  <2>5. Len(log) = Len(lines) - 1 /\ DOMAIN log = 1 .. Len(lines) - 1
    BY <2>0
  <2>6. pos[p] - 1 = Len(lines) - 1
    BY <2>0, <2>4, <2>5
  <2>7. Shows(p)' = Shown(p, pos[p])
    BY <2>0, <2>1, <2>4 DEF Shows, Answering
  <2>8. Shown(p, pos[p]) =
           <<Project(Names(sch[p]), Selected(p))>>
             \o [k \in DOMAIN Rows(lines) |-> Project(Rows(lines)[k], Selected(p))]
    BY <2>5, <2>6, Zenon DEF Shown, FileInv, StoredIsLog
  <2>9. pc[p] \in SelectSteps
    BY <1>1 DEF SelectSteps
  <2> QED
    BY <1>1, <1>2, <2>4, <2>7, <2>8, <2>9, SelectMaps
<1> QED
  BY <1>3, <1>4 DEF PrintRow, AfterLine, Finish

(* Every other step stores nothing, and forgets what p has shown or keeps  *)
(* it.                                                                     *)
LEMMA OthersMap ==
    ASSUME TypeOK, StatementsChecked, Dependable, FileInv, NEW p \in Process,
           \/ RunProgram(p) \/ Kill(p) \/ EndProgram(p) \/ BeginInsert(p) \/ BeginSelect(p)
           \/ EnsureDataFile(p) \/ CreateDataFile(p)
    PROVE  [Implemented!Next]_Implemented!tableVars
<1>1. UNCHANGED lines
  BY DEF RunProgram, Kill, EndProgram, BeginInsert, BeginSelect, BeginStatement,
         EnsureDataFile, CreateDataFile, FileInv, file
<1>2. \A q \in Process : q # p => pc'[q] = pc[q] /\ out'[q] = out[q]
  BY OthersKept DEF Step
<1>3. CASE RunProgram(p)
  <2>1. Shows(p)' = <<>>
    BY <1>3 DEF RunProgram, Shows, TypeOK
  <2>2. [q \in Process |-> Shows(q)]' = [[q \in Process |-> Shows(q)] EXCEPT ![p] = <<>>]
    BY <1>2, <2>1, ShownByOne
  <2>3. [q \in Process |-> item[q] - 1]' = [[q \in Process |-> item[q] - 1] EXCEPT ![p] = 0]
    <3>1. item \in [Process -> Nat \ {0}] /\ item' = [item EXCEPT ![p] = 1]
      BY <1>3 DEF RunProgram, TypeOK
    <3>2. \A q \in Process : item'[q] - 1 = IF q = p THEN 0 ELSE item[q] - 1
      BY <3>1
    <3>3. [q \in Process |-> item'[q] - 1] =
             [q \in Process |-> IF q = p THEN 0 ELSE item[q] - 1]
      BY <3>2
    <3> QED
      BY <3>3
  <2>4. Implemented!Restart(p)
    BY <1>1, <2>2, <2>3 DEF Implemented!Restart, Shows, Answering
  <2> QED
    BY <2>4 DEF Implemented!Next
<1>4. CASE ~RunProgram(p)
  <2>0. item' = item
    BY <1>4 DEF Kill, EndProgram, BeginInsert, BeginSelect, BeginStatement,
                EnsureDataFile, CreateDataFile, local
  <2>1. CASE BeginInsert(p) \/ BeginSelect(p)
    <3>1. out'[p] = <<>>
      BY <2>1 DEF BeginInsert, BeginSelect, BeginStatement, TypeOK
    <3> QED
      BY <1>1, <1>2, <2>0, <3>1, QuietMaps DEF Shows
  <2>2. CASE Kill(p)
    <3>1. pc'[p] = "killed"
      BY <2>2 DEF Kill, Goto, TypeOK
    <3>2. Shows(p)' = <<>>
      BY <3>1 DEF Shows, Answering
    <3> QED
      BY <1>1, <1>2, <2>0, <3>2, QuietMaps
  <2>3. CASE EndProgram(p) \/ EnsureDataFile(p) \/ CreateDataFile(p)
    <3>1. UNCHANGED out /\ pc[p] \notin Answering
      BY <2>3 DEF EndProgram, EnsureDataFile, CreateDataFile, local, Answering
    <3>2. Shows(p)' \in {<<>>, Shows(p)}
      BY <3>1 DEF Shows
    <3> QED
      BY <1>1, <1>2, <2>0, <3>2, QuietMaps
  <2> QED
    BY <1>4, <2>1, <2>2, <2>3
<1> QED
  BY <1>3, <1>4

LEMMA InitMaps ==
    ASSUME Dependable
    PROVE  Init => Implemented!Init
<1> SUFFICES ASSUME Init PROVE Implemented!Init
  OBVIOUS
<1>0. lines \in Lines /\ WellFormed(lines)
  BY InitType, FileInit DEF TypeOK, FileInv, RowsMatchHeader
<1> DEFINE columns == IF lines = <<>> THEN <<>> ELSE CellsOf(lines[1])
<1>1. columns \in Seq(Text)
  <2>1. lines # <<>> => lines[1] \in Line
    BY <1>0, LinesFacts, EmptySeq
  <2> QED
    BY <2>1, LineFacts, CellsType
<1>2. Rows(lines) \in Seq({r \in Seq(Text) : Len(r) = Len(columns)})
  <2>1. CASE lines = <<>>
    BY <1>0, <2>1, RowsFacts
  <2>2. CASE lines # <<>>
    <3>1. PICK n \in Nat : n = Len(Rows(lines)) /\ n = Len(lines) - 1 /\ Len(lines) = n + 1
      BY <1>0, <2>2, RowsFacts, LinesFacts, EmptySeq
    <3>2. ASSUME NEW k \in 1 .. n
          PROVE  Rows(lines)[k] \in {r \in Seq(Text) : Len(r) = Len(columns)}
      <4>1. k + 1 \in 1 .. Len(lines) /\ k \in 1 .. Len(lines) - 1 /\ k + 1 \in DOMAIN lines
        BY <1>0, <3>1, LinesFacts
      <4>2. Rows(lines)[k] = CellsOf(lines[k + 1]) /\ CellsOf(lines[k + 1]) \in Seq(Text)
        BY <1>0, <4>1, RowsFacts, LinesFacts, LineFacts, CellsType
      <4>3. Len(CellsOf(lines[k + 1])) = Len(columns)
        BY <1>0, <2>2, <4>1 DEF WellFormed, Width
      <4> QED
        BY <4>2, <4>3
    <3>3. Rows(lines) \in Seq(Seq(Text))
      BY <1>0, RowsFacts
    <3>4. Rows(lines) = [k \in 1 .. n |-> Rows(lines)[k]]
      BY <3>1, <3>3, LenProperties
    <3> HIDE DEF columns
    <3>5. Rows(lines) \in [1 .. n -> {r \in Seq(Text) : Len(r) = Len(columns)}]
      BY <3>2, <3>4
    <3> QED
      BY <3>5, SeqDef
  <2> QED
    BY <2>1, <2>2
<1>3. \A p \in Process : Shows(p) = <<>> /\ item[p] - 1 = 0
  BY DEF Init, Shows
<1>4. /\ [p \in Process |-> Shows(p)] = [p \in Process |-> <<>>]
      /\ [p \in Process |-> item[p] - 1] = [p \in Process |-> 0]
  BY <1>3
<1> QED
  BY <1>1, <1>2, <1>4, Zenon DEF Implemented!Init, Implemented!Text, Text, Shows, Answering

LEMMA StepMaps ==
    ASSUME TypeOK, StatementsChecked, Dependable, FileInv, ReadInv, InformedInv,
           "bad_read" \notin Faults, [Next]_vars
    PROVE  [Implemented!Next]_Implemented!tableVars
<1>1. CASE EditSchema \/ UNCHANGED vars
  BY <1>1 DEF EditSchema, vars, local, Implemented!tableVars
<1>2. ASSUME NEW p \in Process, RunProgram(p) \/ Step(p) \/ Kill(p)
      PROVE  [Implemented!Next]_Implemented!tableVars
  BY <1>2, OthersMap, WriteHeaderMaps, AppendRowMaps, OpenMaps, PrintMaps DEF Step
<1> QED
  BY <1>1, <1>2 DEF Next

(* Statements look atomic although each opens, checks, creates, writes and *)
(* reads the file in steps of its own and nothing locks it: in the step    *)
(* that reports an INSERT successful its row is appended, and a SELECT     *)
(* that is reported successful shows the names and all the rows there are  *)
(* at one moment of it, or nothing if the file is empty.  A read that      *)
(* fails in the middle is left out: fgets then ends the loop over the rows *)
(* as the end of the file does, and the SELECT succeeds with less.         *)
THEOREM TableRefined ==
    ASSUME Dependable, "bad_read" \notin Faults
    PROVE  Spec => TableImplemented
<1> DEFINE Inv == TypeOK /\ StatementsChecked /\ FileInv /\ ReadInv /\ InformedInv
<1>1. Init => Inv /\ Implemented!Init
  <2>1. Init => ReadInv /\ InformedInv
    BY DEF Init, ReadInv, Reading, InformedInv, Informed, InsertSteps, SelectSteps
  <2> QED
    BY <2>1, InitType, FileInit, InitMaps
<1>2. Inv /\ [Next]_vars => Inv'
  BY TypeStep, FileStep, ReadStep, InformedStep
<1>3. Inv /\ [Next]_vars => [Implemented!Next]_Implemented!tableVars
  BY StepMaps
<1> HIDE DEF Inv
<1> QED
  BY <1>1, <1>2, <1>3, PTL DEF Spec, TableImplemented, Implemented!Spec

-----------------------------------------------------------------------------
(* Types of the rows                                                       *)
-----------------------------------------------------------------------------
Typed(s, row) ==
    \A c \in DOMAIN s :
        IF s[c].type = "INT" THEN row[c] \in IntText ELSE row[c] \notin FormulaText

(* Schemas of the same names have the same types, and the files that were  *)
(* there before have rows of the types of the schema they have the names   *)
(* of.                                                                     *)
TypesKept ==
    /\ \A s, t \in Schemas : Names(s) = Names(t) => s = t
    /\ \A f \in InitFiles, s \in Schemas :
         f.lines # <<>> /\ CellsOf(f.lines[1]) = Names(s) =>
             \A k \in DOMAIN Rows(f.lines) : Typed(s, Rows(f.lines)[k])

TypedInv ==
    \A s \in Schemas :
        lines # <<>> /\ CellsOf(lines[1]) = Names(s) => \A k \in DOMAIN log : Typed(s, log[k])

LEMMA RowTyped ==
    ASSUME NEW s \in TableSchema, NEW stmt \in InsertStatement, InsertError(s, stmt) = NoError
    PROVE  Typed(s, InsertRow(s, stmt))
<1> SUFFICES ASSUME NEW c \in DOMAIN s
             PROVE  IF s[c].type = "INT" THEN InsertRow(s, stmt)[c] \in IntText
                    ELSE InsertRow(s, stmt)[c] \notin FormulaText
  BY DEF Typed
<1>1. PICK i \in DOMAIN stmt.values : Target(s, stmt, i) = c
  BY AcceptedProperties DEF Covered
<1>2. /\ LiteralFault(s[c], stmt.values[i]) = "none"
      /\ InsertRow(s, stmt)[c] = stmt.values[i].text
  BY <1>1, AcceptedPairs
<1>3. s[c].type \in {"INT", "STRING"}
  <2>1. s \in Seq(Column) /\ c \in 1 .. Len(s)
    BY DEF TableSchema
  <2>2. s[c] \in Column
    BY <2>1, ElementOfSeq
  <2> QED
    BY <2>2 DEF Column, DataType
<1>4. stmt.values[i].type = s[c].type
  BY <1>2 DEF LiteralFault
<1>5. CASE s[c].type = "INT"
  BY <1>2, <1>4, <1>5, Zenon DEF LiteralFault
<1>6. CASE s[c].type = "STRING"
  <2>1. s[c].type # "INT"
    BY <1>6
  <2> QED
    BY <1>2, <1>4, <1>6, <2>1, Zenon DEF LiteralFault
<1> QED
  BY <1>3, <1>5, <1>6

LEMMA TypedInit ==
    ASSUME TypesKept
    PROVE  Init => TypedInv
<1> SUFFICES ASSUME Init PROVE TypedInv
  OBVIOUS
<1>1. PICK f \in InitFiles : exists = f.exists /\ lines = f.lines /\ log = Rows(f.lines)
  BY DEF Init
<1> QED
  BY <1>1 DEF TypesKept, TypedInv

LEMMA TypedStep ==
    ASSUME TypeOK, StatementsChecked, Dependable, FileInv, InformedInv, TypesKept, TypedInv,
           [Next]_vars
    PROVE  TypedInv'
<1>0. lines \in Seq(Line) /\ log \in Seq(Seq(Text))
  BY LinesFacts DEF TypeOK
<1>1. CASE UNCHANGED <<lines, log>>
  BY <1>1 DEF TypedInv
<1>2. ASSUME NEW p \in Process, CreateDataFile(p) \/ WriteHeader(p)
      PROVE  TypedInv'
  <2>1. lines = <<>> /\ UNCHANGED log
    BY <1>2 DEF CreateDataFile, WriteHeader, FileInv
  <2>2. DOMAIN log = {}
    <3>1. 1 .. 0 - 1 = {}
      OBVIOUS
    <3> QED
      BY <2>1, <3>1 DEF FileInv, StoredIsLog, Rows
  <2> QED
    BY <2>1, <2>2 DEF TypedInv
<1>3. ASSUME NEW p \in Process, AppendRow(p)
      PROVE  TypedInv'
  <2>1. /\ lines # <<>> /\ CellsOf(lines[1]) = Names(sch[p])
        /\ sch[p] \in Schemas /\ sch[p] \in TableSchema /\ Stmt(p) \in InsertStatement
        /\ InsertError(sch[p], Stmt(p)) = NoError
    BY <1>3 DEF AppendRow, FileInv, InformedInv, Informed, StatementsChecked, Checked,
                InsertSteps, TypeOK
  <2>2. lines' \in Seq(Line) /\ lines' # <<>> /\ lines'[1] = lines[1]
    <3>1. lines' \in Seq(Line) /\ IsPrefix(lines, lines')
      BY TypeStep, FileStep, LinesFacts DEF TypeOK
    <3> QED
      BY <1>0, <2>1, <3>1, FirstLineStays
  <2>3. log' = log \/ log' = Append(log, Row(p))
    BY <1>3 DEF AppendRow
  <2>4. Row(p) \in Seq(Text) /\ Typed(sch[p], Row(p))
    BY <2>1, RowTyped, InsertRowType DEF Row
  <2>5. \A k \in DOMAIN log : Typed(sch[p], log[k])
    BY <2>1 DEF TypedInv
  <2>6. \A k \in DOMAIN log' : Typed(sch[p], log'[k])
    <3>1. CASE log' = log
      BY <2>5, <3>1
    <3>2. CASE log' = Append(log, Row(p))
      <4>1. /\ Len(log) \in Nat /\ DOMAIN log = 1 .. Len(log)
            /\ DOMAIN log' = 1 .. Len(log) + 1 /\ log'[Len(log) + 1] = Row(p)
            /\ \A k \in 1 .. Len(log) : log'[k] = log[k]
        BY <1>0, <2>4, <3>2, AppendProperties, LenProperties
      <4>2. \A k \in 1 .. Len(log) + 1 : k \in 1 .. Len(log) \/ k = Len(log) + 1
        BY <4>1
      <4> QED
        BY <2>4, <2>5, <4>1, <4>2
    <3> QED
      BY <2>3, <3>1, <3>2
  <2> QED
    BY <2>1, <2>2, <2>6 DEF TypedInv, TypesKept
<1> QED
  BY <1>1, <1>2, <1>3 DEF Next, Step, EditSchema, RunProgram, Kill, EndProgram, BeginInsert,
     BeginSelect, BeginStatement, EnsureDataFile, OpenForSelect, PrintRow, vars

(* The types of the rows are nowhere checked when they are read: they hold *)
(* because every INSERT checks them and the header, and only if the schema *)
(* file never gives the names of the header other types.                   *)
THEOREM RowsTyped ==
    ASSUME Dependable, TypesKept
    PROVE  Spec => []TypedRows
<1> DEFINE Inv == TypeOK /\ StatementsChecked /\ FileInv /\ ReadInv /\ InformedInv /\ TypedInv
<1>1. Init => Inv
  <2>1. Init => ReadInv /\ InformedInv
    BY DEF Init, ReadInv, Reading, InformedInv, Informed, InsertSteps, SelectSteps
  <2> QED
    BY <2>1, InitType, FileInit, TypedInit
<1>2. Inv /\ [Next]_vars => Inv'
  BY TypeStep, FileStep, ReadStep, InformedStep, TypedStep
<1>3. Inv => TypedRows
  <2> SUFFICES ASSUME Inv, NEW p \in Process, pc[p] \in {"append", "rows"}
               PROVE  \A k \in DOMAIN log : Typed(sch[p], log[k])
    BY DEF TypedRows, Typed
  <2>1. sch[p] \in Schemas /\ lines # <<>> /\ CellsOf(lines[1]) = Names(sch[p])
    BY DEF FileInv, InformedInv, Informed, InsertSteps, SelectSteps, StatementsChecked, Checked
  <2> QED
    BY <2>1 DEF TypedInv
<1> HIDE DEF Inv
<1> QED
  BY <1>1, <1>2, <1>3, PTL DEF Spec

-----------------------------------------------------------------------------
(* Rows that can be read                                                   *)
-----------------------------------------------------------------------------
(* The rows that may be inserted fit the buffers of SELECT, and those that *)
(* were there before do.                                                   *)
RowsFit ==
    /\ \A f \in InitFiles : \A k \in 2 .. Len(f.lines) : Readable(f.lines[k])
    /\ \A s \in Schemas, pr \in Programs : \A k \in DOMAIN pr :
         pr[k].kind = "INSERT" /\ s # <<>> /\ InsertError(s, pr[k]) = NoError =>
             Readable(WriteRow(InsertRow(s, pr[k])))

(* Nothing ever shortens what may follow the header, and a SELECT goes on  *)
(* to the rows only below a header that it could read.                     *)
FitInv ==
    /\ \A k \in 2 .. Len(lines) : Readable(lines[k])
    /\ \A p \in Process : pc[p] = "rows" => Readable(lines[1])

LEMMA FitStep ==
    ASSUME TypeOK, StatementsChecked, Dependable, FileInv, ReadInv, InformedInv, RowsFit, FitInv,
           [Next]_vars
    PROVE  FitInv'
<1>0. /\ lines \in Lines /\ lines \in Seq(Line) /\ Len(lines) \in Nat
      /\ lines' \in Seq(Line) /\ IsPrefix(lines, lines')
      /\ lines # <<>> => lines' # <<>> /\ lines'[1] = lines[1]
  <2>1. lines \in Lines /\ lines' \in Lines /\ IsPrefix(lines, lines')
    BY TypeStep, FileStep DEF TypeOK
  <2> QED
    BY <2>1, FirstLineStays, LinesFacts
<1>1. \A k \in 2 .. Len(lines') : Readable(lines'[k])
  <2>1. CASE UNCHANGED lines
    BY <2>1 DEF FitInv
  <2>2. ASSUME NEW p \in Process, CreateDataFile(p) \/ WriteHeader(p)
        PROVE  \A k \in 2 .. Len(lines') : Readable(lines'[k])
    <3>1. Len(lines') <= 1
      <4>1. CASE CreateDataFile(p)
        <5>1. lines' = <<>>
          BY <4>1, CreateFile, Zenon DEF CreateDataFile, file, FileInv
        <5> QED
          BY <5>1
      <4>2. CASE WriteHeader(p)
        <5>1. pc[p] = "header" /\ lines = <<>>
          BY <4>2 DEF WriteHeader, FileInv
        <5>2. HeaderLine(sch[p]) \in Line /\ Whole(HeaderLine(sch[p]))
          BY <5>1, InsertLines DEF InsertSteps
        <5>3. lines' \in WriteAtStart(lines, HeaderLine(sch[p]))
          BY <4>2 DEF WriteHeader, Dependable
        <5>4. lines' = <<HeaderLine(sch[p])>>
          BY <5>1, <5>2, <5>3, WriteToEmpty
        <5> QED
          BY <5>4
      <4> QED
        BY <2>2, <4>1, <4>2
    <3>2. Len(lines') \in Nat
      BY <1>0, LenProperties
    <3>3. \A k \in 2 .. Len(lines') : FALSE
      BY <3>1, <3>2
    <3> QED
      BY <3>3
  <2>3. ASSUME NEW p \in Process, AppendRow(p), ~UNCHANGED lines
        PROVE  \A k \in 2 .. Len(lines') : Readable(lines'[k])
    <3>1. /\ lines # <<>> /\ pc[p] \in InsertSteps
          /\ sch[p] \in Schemas /\ sch[p] # <<>> /\ Stmt(p) \in InsertStatement
          /\ InsertError(sch[p], Stmt(p)) = NoError
          /\ item[p] \in DOMAIN program[p] /\ program[p] \in Programs \cup {<<>>}
      BY <2>3 DEF AppendRow, FileInv, InformedInv, Informed, StatementsChecked, Checked,
                  InsertSteps, TypeOK
    <3>2. PICK row : row = WriteRow(Row(p)) /\ row \in Line /\ Whole(row)
      BY <3>1, InsertLines
    <3>3. Readable(row)
      <4>1. program[p] \in Programs /\ Stmt(p) = program[p][item[p]] /\ Stmt(p).kind = "INSERT"
        BY <3>1 DEF Stmt, InsertStatement
      <4> QED
        BY <3>1, <3>2, <4>1 DEF RowsFit, Row
    <3>4. lines' = Append(lines, row)
      <4>1. lines' = WriteAtEnd(lines, row)
        BY <2>3, <3>2 DEF AppendRow, Dependable
      <4> QED
        BY <1>0, <3>1, <3>2, <4>1, AppendWhole DEF FileInv, RowsMatchHeader, WellFormed
    <3>5. /\ Len(lines') = Len(lines) + 1 /\ lines'[Len(lines) + 1] = row
          /\ \A k \in 1 .. Len(lines) : lines'[k] = lines[k]
      BY <1>0, <3>2, <3>4, AppendProperties
    <3>6. \A k \in 2 .. Len(lines) + 1 :
             (k \in 2 .. Len(lines) /\ k \in 1 .. Len(lines)) \/ k = Len(lines) + 1
      BY <1>0
    <3> QED
      BY <3>3, <3>5, <3>6 DEF FitInv
  <2> QED
    BY <2>1, <2>2, <2>3 DEF Next, Step, EditSchema, RunProgram, Kill, EndProgram, BeginInsert,
       BeginSelect, BeginStatement, EnsureDataFile, OpenForSelect, PrintRow, vars
<1>2. ASSUME NEW q \in Process, pc'[q] = "rows" PROVE Readable(lines'[1])
  <2>1. CASE pc[q] = "rows"
    BY <1>0, <2>1 DEF FitInv, InformedInv, Informed
  <2>2. CASE pc[q] # "rows"
    <3>1. RunProgram(q) \/ Step(q) \/ Kill(q)
      <4>1. ~EditSchema /\ ~UNCHANGED vars
        BY <1>2, <2>2 DEF EditSchema, local, vars
      <4>2. PICK p \in Process : RunProgram(p) \/ Step(p) \/ Kill(p)
        BY <4>1 DEF Next
      <4> QED
        BY <1>2, <2>2, <4>2, OthersKept
    <3>2. ~(RunProgram(q) \/ Kill(q) \/ EndProgram(q) \/ BeginInsert(q) \/ BeginSelect(q))
      BY <1>2 DEF RunProgram, Kill, EndProgram, BeginInsert, BeginSelect, BeginStatement, Goto, TypeOK
    <3>3. ~(EnsureDataFile(q) \/ CreateDataFile(q) \/ WriteHeader(q) \/ AppendRow(q))
      BY <1>2 DEF EnsureDataFile, CreateDataFile, WriteHeader, AppendRow, Finish, Goto, TypeOK
    <3>4. OpenForSelect(q)
      BY <2>2, <3>1, <3>2, <3>3 DEF Step, PrintRow
    <3>5. lines' = lines /\ lines # <<>> /\ HeaderMatches(sch[q], lines[1])
      BY <1>2, <3>4 DEF OpenForSelect, Finish, Goto, TypeOK
    <3> QED
      BY <3>5 DEF HeaderMatches
  <2> QED
    BY <2>1, <2>2
<1> QED
  BY <1>1, <1>2 DEF FitInv

(* Where every row that may be inserted fits the buffers of SELECT, no     *)
(* SELECT meets a row that it cannot read, whatever runs overlap, fail,    *)
(* are killed or have their schema edited.                                 *)
THEOREM RowsStayReadable ==
    ASSUME Dependable, RowsFit
    PROVE  Spec => []RowsReadable
<1> DEFINE Inv == TypeOK /\ StatementsChecked /\ FileInv /\ ReadInv /\ InformedInv /\ FitInv
<1>1. Init => Inv
  <2>1. Init => ReadInv /\ InformedInv
    BY DEF Init, ReadInv, Reading, InformedInv, Informed, InsertSteps, SelectSteps
  <2>2. Init => FitInv
    <3> SUFFICES ASSUME Init PROVE FitInv
      OBVIOUS
    <3>1. PICK f \in InitFiles : lines = f.lines
      BY DEF Init
    <3>2. \A p \in Process : pc[p] # "rows"
      BY DEF Init
    <3> QED
      BY <3>1, <3>2 DEF RowsFit, FitInv
  <2> QED
    BY <2>1, <2>2, InitType, FileInit
<1>2. Inv /\ [Next]_vars => Inv'
  BY TypeStep, FileStep, ReadStep, InformedStep, FitStep
<1>3. Inv => RowsReadable
  <2> SUFFICES ASSUME Inv, NEW p \in Process, pc[p] = "rows", NEW k \in DOMAIN lines
               PROVE  Readable(lines[k])
    BY DEF RowsReadable
  <2>1. DOMAIN lines = 1 .. Len(lines) /\ Len(lines) \in Nat
    BY LinesFacts DEF TypeOK
  <2>2. k = 1 \/ k \in 2 .. Len(lines)
    BY <2>1
  <2> QED
    BY <2>2 DEF FitInv
<1> HIDE DEF Inv
<1> QED
  BY <1>1, <1>2, <1>3, PTL DEF Spec

(* The limits that make the rows fit: values shorter than the array of a   *)
(* cell, as the tokenizer leaves them, and a line buffer that holds as     *)
(* many of them as a table may have columns, each with its quotes, every   *)
(* quote in it doubled, and a comma; or each with a comma, if no value     *)
(* calls for quotes.  sqlproc has the first and neither of the others.     *)
ValuesPlain ==
    \A pr \in Programs : \A k \in DOMAIN pr : pr[k].kind = "INSERT" =>
        \A i \in DOMAIN pr[k].values : ~Has(pr[k].values[i].text, {Comma, Quote})

Roomy ==
    /\ \/ MaxColumns * (2 * MaxValueLen + 1) <= LineMax
       \/ ValuesPlain /\ MaxColumns * MaxValueLen <= LineMax
    /\ \A pr \in Programs : \A k \in DOMAIN pr : pr[k].kind = "INSERT" =>
         \A i \in DOMAIN pr[k].values : Len(pr[k].values[i].text) < MaxValueLen
    /\ \A f \in InitFiles : \A k \in 2 .. Len(f.lines) : Readable(f.lines[k])

LEMMA RowFits ==
    ASSUME NEW s \in TableSchema, s # <<>>, NEW stmt \in InsertStatement,
           InsertError(s, stmt) = NoError, NEW M \in Nat, MaxColumns * (M + 1) <= LineMax,
           \A i \in DOMAIN stmt.values : /\ Len(stmt.values[i].text) < MaxValueLen
                                         /\ Len(WriteField(stmt.values[i].text)) <= M
    PROVE  Readable(WriteRow(InsertRow(s, stmt)))
<1>1. PICK row : row = InsertRow(s, stmt) /\ row \in Seq(Text) /\ Len(row) = Len(s)
  BY InsertRowType
<1>2. PICK n \in Nat \ {0} : n = Len(s) /\ n <= MaxColumns /\ DOMAIN s = 1 .. n
  <2>1. s \in Seq(Column) /\ Len(s) <= MaxColumns
    BY DEF TableSchema
  <2> QED
    BY <2>1, EmptySeq, LenProperties
<1>3. row # <<>> /\ DOMAIN row = 1 .. n
  BY <1>1, <1>2, EmptySeq, LenProperties
<1>4. ASSUME NEW c \in 1 .. n PROVE Len(row[c]) < MaxValueLen /\ Len(WriteField(row[c])) <= M
  <2>1. PICK i \in DOMAIN stmt.values : Target(s, stmt, i) = c
    BY <1>2, <1>4, AcceptedProperties DEF Covered
  <2>2. row[c] = stmt.values[i].text
    BY <1>1, <1>2, <2>1, AcceptedPairs
  <2> QED
    BY <2>2
<1>5. PICK line : line = WriteRow(row)
  OBVIOUS
<1>6. Whole(line) /\ CellsOf(line) = row
  BY <1>1, <1>3, <1>5, RowWritten
<1>7. Len(line) \in Nat /\ Len(line) <= n * (M + 1)
  BY <1>1, <1>2, <1>3, <1>4, <1>5, RowLength
<1>8. n * (M + 1) <= LineMax
  <2>1. PICK m \in Nat, N \in Nat : m = M + 1 /\ N = MaxColumns
    BY MaxColumnsAssumption
  <2>2. LineMax \in Nat
    BY BoundAssumption
  <2>3. n * m <= N * m
    BY <1>2, <2>1
  <2> QED
    BY <1>2, <2>1, <2>2, <2>3
<1>9. ~TooLong(line)
  <2>1. LineMax \in Nat /\ n * (M + 1) \in Nat
    BY <1>2, BoundAssumption
  <2>2. ~(Len(line) > LineMax)
    BY <1>7, <1>8, <2>1
  <2> QED
    BY <1>6, <2>2 DEF TooLong
<1>10. Parses(line)
  BY <1>1, <1>2, <1>3, <1>4, <1>6 DEF Parses
<1> QED
  BY <1>1, <1>5, <1>9, <1>10 DEF Readable

(* A line buffer of MaxColumns times twice MaxValueLen and one bytes is    *)
(* large enough whatever is inserted, one of MaxColumns times MaxValueLen  *)
(* if no value has a comma or a quote.                                     *)
THEOREM RoomIsEnough ==
    ASSUME Dependable, Roomy
    PROVE  Spec => []RowsReadable
<1>1. RowsFit
  <2>1. ASSUME NEW s \in Schemas, NEW pr \in Programs, NEW k \in DOMAIN pr,
               pr[k].kind = "INSERT", s # <<>>, InsertError(s, pr[k]) = NoError
        PROVE  Readable(WriteRow(InsertRow(s, pr[k])))
    <3>1. s \in TableSchema /\ pr \in Seq(Statement)
      BY InstanceAssumption
    <3>2. pr[k] \in Statement
      BY <3>1, ElementOfSeq, LenProperties
    <3>3. pr[k] \in InsertStatement
      BY <2>1, <3>2 DEF Statement, SelectStatement
    <3>4. ASSUME NEW i \in DOMAIN pr[k].values
          PROVE  /\ pr[k].values[i].text \in Text
                 /\ Len(pr[k].values[i].text) < MaxValueLen
      <4>1. pr[k].values \in Seq(Literal)
        BY <3>3 DEF InsertStatement
      <4>2. pr[k].values[i] \in Literal
        BY <4>1, ElementOfSeq, LenProperties
      <4> QED
        BY <2>1, <4>2 DEF Literal, Roomy
    <3>5. MaxValueLen \in Nat /\ MaxColumns \in Nat /\ LineMax \in Nat
      BY BoundAssumption, MaxColumnsAssumption
    <3>6. CASE MaxColumns * (2 * MaxValueLen + 1) <= LineMax
      <4>1. ASSUME NEW i \in DOMAIN pr[k].values
            PROVE  Len(WriteField(pr[k].values[i].text)) <= 2 * MaxValueLen
        <5>1. PICK t \in Text : t = pr[k].values[i].text /\ Len(t) < MaxValueLen
          BY <3>4
        <5>2. /\ Len(t) \in Nat /\ Len(WriteField(t)) \in Nat
              /\ Len(WriteField(t)) <= 2 * Len(t) + 2
          BY FieldLength
        <5> QED
          BY <3>5, <5>1, <5>2
      <4>2. 2 * MaxValueLen \in Nat
        BY <3>5
      <4> QED
        BY <2>1, <3>1, <3>3, <3>4, <3>6, <4>1, <4>2, RowFits
    <3>7. CASE ValuesPlain /\ MaxColumns * MaxValueLen <= LineMax
      <4>1. CASE MaxValueLen = 0
        <5>1. DOMAIN pr[k].values = {}
          <6>1. ASSUME NEW i \in DOMAIN pr[k].values PROVE FALSE
            <7>1. PICK t \in Text : t = pr[k].values[i].text /\ Len(t) < MaxValueLen
              BY <3>4
            <7>2. Len(t) \in Nat
              BY FieldLength
            <7> QED
              BY <4>1, <7>1, <7>2
          <6> QED
            BY <6>1
        <5>2. s \in Seq(Column) /\ 1 \in DOMAIN s
          <6>1. s \in Seq(Column)
            BY <3>1 DEF TableSchema
          <6> QED
            BY <2>1, <6>1, EmptySeq, LenProperties
        <5>3. PICK i \in DOMAIN pr[k].values : Target(s, pr[k], i) = 1
          BY <2>1, <3>1, <3>3, <5>2, AcceptedProperties DEF Covered
        <5> QED
          BY <5>1, <5>3
      <4>2. CASE MaxValueLen # 0
        <5>1. PICK M \in Nat : MaxValueLen = M + 1
          <6>1. MaxValueLen - 1 \in Nat /\ MaxValueLen = (MaxValueLen - 1) + 1
            BY <3>5, <4>2
          <6> QED
            BY <6>1
        <5>2. ASSUME NEW i \in DOMAIN pr[k].values
              PROVE  Len(WriteField(pr[k].values[i].text)) <= M
          <6>1. PICK t \in Text : t = pr[k].values[i].text /\ Len(t) < MaxValueLen
            BY <3>4
          <6>2. ~Has(t, {Comma, Quote})
            BY <2>1, <3>7, <6>1 DEF ValuesPlain
          <6>3. Len(t) \in Nat /\ WriteField(t) = t
            BY <6>2, FieldLength
          <6> QED
            BY <5>1, <6>1, <6>3
        <5> QED
          BY <2>1, <3>1, <3>3, <3>4, <3>7, <5>1, <5>2, RowFits
      <4> QED
        BY <4>1, <4>2
    <3> QED
      BY <3>6, <3>7 DEF Roomy
  <2> QED
    BY <2>1 DEF RowsFit, Roomy
<1> QED
  BY <1>1, RowsStayReadable
=============================================================================
