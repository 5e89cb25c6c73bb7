----------------------------- MODULE AppProofs ------------------------------
(***************************************************************************)
(* What main and app.c hand to the tokenizer, and the tokenizer to the     *)
(* parser, for every command line and every text.                          *)
(***************************************************************************)
EXTENDS App, SequenceLemmas, FiniteSetTheorems

-----------------------------------------------------------------------------
(* Pieces of a text                                                        *)
-----------------------------------------------------------------------------
(* The first element that is in a set, and 0 if none is.                   *)
First(s, S) ==
    LET I == {i \in 1 .. Len(s) : s[i] \in S} IN IF I # {} THEN Min(I) ELSE 0

LEMMA FirstProperties ==
    ASSUME NEW s \in Seq(STRING), NEW S
    PROVE  /\ First(s, S) \in 0 .. Len(s) /\ Len(s) \in Nat
           /\ First(s, S) = 0 => \A i \in 1 .. Len(s) : s[i] \notin S
           /\ First(s, S) # 0 => /\ s[First(s, S)] \in S
                                 /\ \A i \in 1 .. First(s, S) - 1 : s[i] \notin S
<1> DEFINE I == {i \in 1 .. Len(s) : s[i] \in S}
<1>1. Len(s) \in Nat
  BY LenProperties
<1>2. CASE I = {}
  BY <1>1, <1>2 DEF First
<1>3. CASE I # {}
  <2>1. I \in SUBSET Nat
    BY <1>1
  <2>2. First(s, S) = Min(I)
    BY <1>3 DEF First
  <2>3. First(s, S) \in I /\ \A m \in I : First(s, S) <= m
    BY <1>3, <2>1, <2>2, MinProperties
  <2> QED
    BY <1>1, <2>3
<1> QED
  BY <1>2, <1>3

(* A piece of the text, character by character.                            *)
LEMMA PieceProperties ==
    ASSUME NEW s \in Seq(STRING), NEW m \in 1 .. Len(s) + 1, NEW n \in m - 1 .. Len(s)
    PROVE  /\ SubSeq(s, m, n) \in Seq(STRING) /\ Len(SubSeq(s, m, n)) = n - m + 1
           /\ \A i \in 1 .. n - m + 1 : SubSeq(s, m, n)[i] = s[m + i - 1]
<1>1. Len(s) \in Nat
  BY LenProperties
<1>2. m \in Int /\ n \in Int /\ m - 1 <= n
  BY <1>1
<1>3. \A i \in m .. n : i \in 1 .. Len(s)
  BY <1>1
<1>4. \A i \in m .. n : s[i] \in STRING
  BY <1>3, ElementOfSeq
<1>5. /\ SubSeq(s, m, n) \in Seq(STRING)
      /\ Len(SubSeq(s, m, n)) = IF m <= n THEN n - m + 1 ELSE 0
      /\ \A i \in 1 .. n - m + 1 : SubSeq(s, m, n)[i] = s[m + i - 1]
  BY <1>2, <1>4, SubSeqProperties
<1> QED
  BY <1>2, <1>5

(* Two pieces are one if they have the same characters.                    *)
LEMMA SamePiece ==
    ASSUME NEW s \in Seq(STRING), NEW m \in 1 .. Len(s) + 1, NEW w \in Seq(STRING),
           m + Len(w) - 1 <= Len(s),
           \A i \in 1 .. Len(w) : w[i] = s[m + i - 1]
    PROVE  w = SubSeq(s, m, m + Len(w) - 1)
<1> DEFINE n == m + Len(w) - 1
           v == SubSeq(s, m, n)
<1>1. Len(s) \in Nat /\ Len(w) \in Nat
  BY LenProperties
<1>2. n \in m - 1 .. Len(s) /\ n - m + 1 = Len(w)
  BY <1>1
<1> HIDE DEF n
<1>3. /\ v \in Seq(STRING) /\ Len(v) = Len(w)
      /\ \A i \in 1 .. Len(w) : v[i] = s[m + i - 1]
  BY <1>2, PieceProperties
<1> HIDE DEF v
<1>4. v = w
  BY <1>3, SeqEqual
<1> QED
  BY <1>4 DEF v, n

(* What Stretch returns starts at k, is made of its characters and goes as *)
(* far as they do.                                                         *)
LEMMA StretchProperties ==
    ASSUME text \in Seq(STRING), NEW k \in 1 .. Len(text) + 1, NEW characters
    PROVE  LET w == Stretch(k, characters) IN
           /\ w \in Seq(STRING) /\ Len(w) \in Nat /\ k + Len(w) \in 1 .. Len(text) + 1
           /\ \A i \in 1 .. Len(w) : w[i] = text[k + i - 1] /\ w[i] \in characters
           /\ k + Len(w) \in 1 .. Len(text) => text[k + Len(w)] \notin characters
<1> DEFINE rest == SubSeq(text, k, Len(text))
           stop == First(rest, STRING \ characters)
           w == IF stop = 0 THEN rest ELSE SubSeq(rest, 1, stop - 1)
<1>1. Len(text) \in Nat
  BY LenProperties
<1>2. /\ rest \in Seq(STRING) /\ Len(rest) = Len(text) - k + 1
      /\ \A i \in 1 .. Len(rest) : rest[i] = text[k + i - 1] /\ rest[i] \in STRING
  <2>1. Len(text) \in k - 1 .. Len(text)
    BY <1>1
  <2>2. /\ rest \in Seq(STRING) /\ Len(rest) = Len(text) - k + 1
        /\ \A i \in 1 .. Len(text) - k + 1 : rest[i] = text[k + i - 1]
    BY <2>1, PieceProperties
  <2> HIDE DEF rest
  <2>3. \A i \in 1 .. Len(rest) : rest[i] \in STRING
    BY <2>2, ElementOfSeq
  <2> QED
    BY <2>2, <2>3
<1>3. Stretch(k, characters) = w
  <2>1. {i \in 1 .. Len(rest) : rest[i] \notin characters}
          = {i \in 1 .. Len(rest) : rest[i] \in STRING \ characters}
    BY <1>2
  <2> QED
    BY <2>1 DEF Stretch, SelectInSeq, First
<1> HIDE DEF rest
<1>4. /\ stop \in 0 .. Len(rest)
      /\ stop = 0 => \A i \in 1 .. Len(rest) : rest[i] \notin STRING \ characters
      /\ stop # 0 => /\ rest[stop] \in STRING \ characters
                     /\ \A i \in 1 .. stop - 1 : rest[i] \notin STRING \ characters
  BY <1>2, FirstProperties
<1> HIDE DEF stop
<1>5. CASE stop = 0
  BY <1>1, <1>2, <1>3, <1>4, <1>5
<1>6. CASE stop # 0
  <2>1. stop - 1 \in 0 .. Len(rest) /\ 1 \in 1 .. Len(rest) + 1
    BY <1>1, <1>2, <1>4, <1>6
  <2>2. /\ w \in Seq(STRING) /\ Len(w) = stop - 1
        /\ \A i \in 1 .. stop - 1 : w[i] = rest[i]
    BY <1>2, <1>6, <2>1, PieceProperties
  <2> HIDE DEF w
  <2>3. k + stop - 1 \in 1 .. Len(text) /\ Len(w) \in Nat
    BY <1>1, <1>2, <1>4, <1>6, <2>2
  <2>4. text[k + Len(w)] \notin characters
    BY <1>1, <1>2, <1>4, <1>6, <2>2
  <2>5. \A i \in 1 .. Len(w) : w[i] = text[k + i - 1] /\ w[i] \in characters
    <3>1. \A i \in 1 .. stop - 1 : i \in 1 .. Len(rest)
      BY <1>4, <2>1
    <3>2. \A i \in 1 .. stop - 1 : rest[i] = text[k + i - 1] /\ rest[i] \in characters
      BY <1>2, <1>4, <1>6, <3>1
    <3> QED
      BY <2>2, <3>2
  <2> QED
    BY <1>1, <1>3, <2>2, <2>3, <2>4, <2>5
<1> QED
  BY <1>5, <1>6

(* What load_sql_file leaves of the bytes it read.                         *)
LEMMA UptoNulProperties ==
    ASSUME NEW s \in Seq(STRING)
    PROVE  LET t == UptoNul(s) IN
           /\ t \in Seq(STRING) /\ Len(t) \in 0 .. Len(s)
           /\ \A i \in 1 .. Len(t) : t[i] = s[i]
           /\ Len(t) < Len(s) => s[Len(t) + 1] = Nul
<1> DEFINE stop == First(s, {Nul})
           t == IF stop = 0 THEN s ELSE SubSeq(s, 1, stop - 1)
<1>1. UptoNul(s) = t
  <2>1. {i \in 1 .. Len(s) : s[i] = Nul} = {i \in 1 .. Len(s) : s[i] \in {Nul}}
    OBVIOUS
  <2> QED
    BY <2>1 DEF UptoNul, SelectInSeq, First
<1>2. stop \in 0 .. Len(s) /\ Len(s) \in Nat /\ (stop # 0 => s[stop] = Nul)
  BY FirstProperties
<1> HIDE DEF stop
<1>3. CASE stop = 0
  BY <1>1, <1>2, <1>3
<1>4. CASE stop # 0
  <2>1. stop - 1 \in 0 .. Len(s) /\ 1 \in 1 .. Len(s) + 1
    BY <1>2, <1>4
  <2>2. t \in Seq(STRING) /\ Len(t) = stop - 1 /\ \A i \in 1 .. stop - 1 : t[i] = s[i]
    BY <1>4, <2>1, PieceProperties
  <2> HIDE DEF t
  <2> QED
    BY <1>1, <1>2, <1>4, <2>1, <2>2
<1> QED
  BY <1>3, <1>4

-----------------------------------------------------------------------------
(* Places                                                                  *)
-----------------------------------------------------------------------------
LEMMA LineEndsFinite ==
    ASSUME NEW s, NEW k \in Nat
    PROVE  /\ LineEndsBefore(s, k) \in SUBSET (1 .. k - 1) /\ IsFiniteSet(LineEndsBefore(s, k))
           /\ Cardinality(LineEndsBefore(s, k)) \in Nat
<1>1. LineEndsBefore(s, k) \in SUBSET (1 .. k - 1)
  BY DEF LineEndsBefore
<1>2. IsFiniteSet(1 .. k - 1)
  BY FS_Interval
<1>3. IsFiniteSet(LineEndsBefore(s, k))
  BY <1>1, <1>2, FS_Subset
<1> QED
  BY <1>1, <1>3, FS_CardinalityType

(* A line and a column belong to one character.                            *)
LEMMA OnePlace ==
    ASSUME NEW s, NEW j \in Nat, NEW k \in Nat, NEW there, LocatedAt(s, j, there), LocatedAt(s, k, there)
    PROVE  j = k
<1>1. SUFFICES ASSUME NEW m \in Nat, NEW n \in Nat, m < n,
                      LocatedAt(s, m, there), LocatedAt(s, n, there)
               PROVE  FALSE
  <2>1. ~(j < k) /\ ~(k < j)
    BY <1>1
  <2> QED
    BY <2>1
<1> DEFINE A == LineEndsBefore(s, m)
           B == LineEndsBefore(s, n)
<1>2. A \subseteq 1 .. m - 1 /\ A \subseteq B
  BY <1>1 DEF LineEndsBefore
<1>3. /\ IsFiniteSet(B) /\ Cardinality(A) \in Nat /\ Cardinality(B) \in Nat
  BY LineEndsFinite
<1>4. Cardinality(A) = Cardinality(B)
  BY <1>3, <1>1 DEF LocatedAt
<1>5. A = B
  BY <1>2, <1>3, <1>4, FS_Subset
<1>6. PICK a \in {0} \cup A : there.column = m - a /\ \A i \in A : i <= a
  BY <1>1 DEF LocatedAt
<1>7. PICK b \in {0} \cup B : there.column = n - b /\ \A i \in B : i <= b
  BY <1>1 DEF LocatedAt
<1> HIDE DEF A, B
<1>8. a \in Nat /\ b \in Nat /\ a <= b /\ b <= a
  BY <1>2, <1>5, <1>6, <1>7
<1> QED
  BY <1>1, <1>6, <1>7, <1>8

LEMMA PlaceFound ==
    ASSUME NEW s \in Seq(STRING), NEW k \in 1 .. Len(s) + 1, NEW there, LocatedAt(s, k, there)
    PROVE  Place(s, there) = k
<1>1. Len(s) \in Nat
  BY LenProperties
<1>2. \A j \in 1 .. Len(s) + 1 : LocatedAt(s, j, there) => j = k
  BY <1>1, OnePlace
<1> QED
  BY <1>2 DEF Place

(* The place of the next character moves with the column along a line, and *)
(* to the start of a line behind a line end.                               *)
LEMMA FirstPlace ==
    ASSUME NEW s, NEW there, there.line = 1, there.column = 1
    PROVE  LocatedAt(s, 1, there)
<1>1. LineEndsBefore(s, 1) = {}
  BY DEF LineEndsBefore
<1> QED
  BY <1>1, FS_EmptySet DEF LocatedAt

LEMMA AlongTheLine ==
    ASSUME NEW s, NEW k \in Nat \ {0}, NEW n \in Nat, NEW here, NEW there, LocatedAt(s, k, here),
           \A m \in k .. k + n - 1 : s[m] # "\n",
           there.line = here.line, there.column = here.column + n
    PROVE  LocatedAt(s, k + n, there)
<1>1. LineEndsBefore(s, k + n) = LineEndsBefore(s, k)
  BY DEF LineEndsBefore
<1>2. PICK a \in {0} \cup LineEndsBefore(s, k) :
        here.column = k - a /\ \A m \in LineEndsBefore(s, k) : m <= a
  BY DEF LocatedAt
<1>3. a \in Nat
  BY <1>2 DEF LineEndsBefore
<1>4. there.column = k + n - a
  BY <1>2, <1>3
<1> QED
  BY <1>1, <1>2, <1>4 DEF LocatedAt

LEMMA ToTheNextLine ==
    ASSUME NEW s, NEW k \in Nat \ {0}, NEW here, NEW there, LocatedAt(s, k, here), s[k] = "\n",
           there.line = here.line + 1, there.column = 1
    PROVE  LocatedAt(s, k + 1, there)
<1> DEFINE A == LineEndsBefore(s, k)
<1>1. LineEndsBefore(s, k + 1) = A \cup {k} /\ k \notin A
  BY DEF LineEndsBefore
<1>2. A \in SUBSET (1 .. k - 1) /\ IsFiniteSet(A) /\ Cardinality(A) \in Nat
  BY LineEndsFinite
<1> HIDE DEF A
<1>3. Cardinality(A \cup {k}) = Cardinality(A) + 1
  BY <1>1, <1>2, FS_AddElement
<1>4. here.line = 1 + Cardinality(A)
  BY DEF LocatedAt, A
<1>5. there.line = 1 + Cardinality(LineEndsBefore(s, k + 1))
  <2>1. Cardinality(LineEndsBefore(s, k + 1)) = Cardinality(A) + 1
    BY <1>1, <1>3
  <2> QED
    BY <1>2, <1>4, <2>1
<1>6. /\ k \in LineEndsBefore(s, k + 1) /\ there.column = k + 1 - k
      /\ \A m \in LineEndsBefore(s, k + 1) : m <= k
  <2>1. \A m \in A : m <= k
    BY <1>2
  <2> QED
    BY <1>1, <2>1
<1> QED
  BY <1>5, <1>6 DEF LocatedAt

-----------------------------------------------------------------------------
(* The invariant                                                           *)
-----------------------------------------------------------------------------
Token == [type : TokenType, text : Seq(STRING), line : Nat, column : Nat]
Here == [line |-> line, column |-> column]
Before == {"arguments", "usage", "load"}

(* The index behind a token.                                               *)
Behind(s, token) ==
    Place(s, token) + Len(token.text) + (IF token.type = "STRING" THEN 2 ELSE 0)
(* A token that stands in the text where it says.                          *)
Sound(s, token) ==
    /\ Place(s, token) \in 1 .. Len(s) + 1 /\ LocatedAt(s, Place(s, token), token)
    /\ Written(s, Place(s, token), token) /\ Typed(s, Place(s, token), token)
    /\ Len(token.text) < MaxValueLen
    /\ token.type # "EOF" => Place(s, token) < Behind(s, token)
(* A list of tokens, one behind the other and all before n.                *)
Ordered(s, list, n) ==
    \A i \in DOMAIN list :
        /\ Behind(s, list[i]) <= n
        /\ i > 1 => Behind(s, list[i - 1]) <= Place(s, list[i])
Covered(s, list, n) ==
    \A k \in 1 .. n - 1 :
        s[k] \in Blank \cup {"\n"} \/ \E i \in DOMAIN list : k \in Extent(Place(s, list[i]), list[i])
(* The end marker is the last token of a complete list, and only there.    *)
Ends(list, done) ==
    /\ \A i \in DOMAIN list : list[i].type = "EOF" <=> done /\ i = Len(list)
    /\ done => list # <<>>

ScanInv ==
    /\ call \in Calls /\ text \in Seq(STRING) /\ tokens \in Seq(Token)
    /\ pc \in Before \cup {"scan", "tokens", "refused"}
    /\ index \in 1 .. Len(text) + 1 /\ line \in Nat \ {0} /\ column \in Nat \ {0}
    /\ pc \in Before => tokens = <<>> /\ index = 1 /\ line = 1 /\ column = 1
    /\ LocatedAt(text, index, Here)
    /\ Len(tokens) <= MaxTokens
    /\ \A i \in DOMAIN tokens : Sound(text, tokens[i])
    /\ Ordered(text, tokens, index) /\ Covered(text, tokens, index)
    /\ Ends(tokens, pc = "tokens")
    /\ pc # "refused" => error = NoError
    /\ ErrorIsThere

LEMMA ScanFacts ==
    ASSUME ScanInv
    PROVE  /\ Len(text) \in Nat /\ DOMAIN text = 1 .. Len(text)
           /\ Len(tokens) \in Nat /\ DOMAIN tokens = 1 .. Len(tokens)
           /\ index \in Nat \ {0} /\ line \in Nat \ {0} /\ column \in Nat \ {0}
           /\ \A i \in 1 .. Len(tokens) : tokens[i] \in Token
           /\ \A k \in 1 .. Len(text) : text[k] \in STRING
<1>1. text \in Seq(STRING) /\ tokens \in Seq(Token)
  BY DEF ScanInv
<1>2. /\ Len(text) \in Nat /\ DOMAIN text = 1 .. Len(text)
      /\ Len(tokens) \in Nat /\ DOMAIN tokens = 1 .. Len(tokens)
  BY <1>1, LenProperties
<1>3. /\ \A i \in 1 .. Len(tokens) : tokens[i] \in Token
      /\ \A k \in 1 .. Len(text) : text[k] \in STRING
  BY <1>1, ElementOfSeq
<1> QED
  BY <1>2, <1>3 DEF ScanInv

LEMMA BehindType ==
    ASSUME NEW s \in Seq(STRING), NEW token \in Token, Sound(s, token)
    PROVE  Place(s, token) \in Nat /\ Len(token.text) \in Nat /\ Behind(s, token) \in Nat
<1>1. Len(s) \in Nat /\ token.text \in Seq(STRING)
  BY LenProperties DEF Token
<1>2. Place(s, token) \in Nat /\ Len(token.text) \in Nat
  BY <1>1, LenProperties DEF Sound
<1> QED
  BY <1>2 DEF Behind

LEMMA SamePlace ==
    ASSUME NEW s, NEW k, NEW here, NEW there, here.line = there.line, here.column = there.column,
           LocatedAt(s, k, here)
    PROVE  LocatedAt(s, k, there)
BY DEF LocatedAt

-----------------------------------------------------------------------------
(* Steps of the scan                                                       *)
-----------------------------------------------------------------------------
(* The scan is given up, with what is wrong at the place reported.         *)
LEMMA Refused ==
    ASSUME ScanInv, pc = "scan", call' = call, NEW message, NEW n, NEW c, FailAt(message, n, c),
           NEW k \in 1 .. Len(text) + 1, LocatedAt(text, k, [line |-> n, column |-> c]),
           Wrong(message, k)
    PROVE  ScanInv'
<1>1. /\ pc' = "refused" /\ error' = [message |-> message, line |-> n, column |-> c]
      /\ UNCHANGED <<text, index, line, column, tokens>>
  BY DEF FailAt
<1>2. LocatedAt(text, k, error') /\ text \in Seq(STRING)
  <2>1. error'.line = n /\ error'.column = c
    BY <1>1
  <2> QED
    BY <2>1, SamePlace DEF ScanInv
<1>3. Place(text, error') = k
  BY <1>2, PlaceFound
<1>4. Wrong(error.message, k)'
  <2>1. error'.message = message
    BY <1>1
  <2> QED
    BY <1>1, <2>1 DEF Wrong
<1>5. ErrorIsThere'
  BY <1>1, <1>2, <1>3, <1>4 DEF ErrorIsThere
<1>6. LocatedAt(text, index, Here)'
  BY <1>1 DEF ScanInv, Here
<1>7. Ends(tokens', pc' = "tokens")
  BY <1>1 DEF ScanInv, Ends
<1> QED
  BY <1>1, <1>5, <1>6, <1>7 DEF ScanInv, Before

(* A token is added, or there is no room for it.                           *)
TokenHere(type, spelling) ==
    [type |-> type, text |-> spelling, line |-> line, column |-> column]

LEMMA OneMore ==
    ASSUME NEW S, NEW s \in Seq(S), NEW e \in S, NEW t, t = Append(s, e)
    PROVE  /\ t \in Seq(S) /\ Len(t) = Len(s) + 1 /\ DOMAIN t = 1 .. Len(s) + 1
           /\ \A i \in 1 .. Len(s) : t[i] = s[i]
           /\ t[Len(s) + 1] = e /\ t # <<>>
<1>1. /\ t \in Seq(S) /\ Len(t) = Len(s) + 1
      /\ \A i \in 1 .. Len(s) : t[i] = s[i]
      /\ t[Len(s) + 1] = e
  BY AppendProperties
<1>2. DOMAIN t = 1 .. Len(s) + 1 /\ Len(s) \in Nat
  BY <1>1, LenProperties
<1>3. Len(t) # 0
  BY <1>1, <1>2
<1> QED
  BY <1>1, <1>2, <1>3, EmptySeq

LEMMA TokenAdded ==
    ASSUME ScanInv, pc = "scan", call' = call,
           NEW type \in TokenType, NEW spelling \in Seq(STRING), NEW taken \in Nat,
           NEW next \in {"scan", "tokens"}, AppendToken(type, spelling, taken, next),
           taken = Width(type, spelling), index + taken <= Len(text) + 1,
           \A m \in index .. index + taken - 1 : text[m] # "\n",
           Len(spelling) < MaxValueLen,
           Written(text, index, TokenHere(type, spelling)),
           Typed(text, index, TokenHere(type, spelling)),
           type = "EOF" <=> next = "tokens", type # "EOF" => taken > 0,
           index \in DOMAIN text => text[index] \notin Blank \cup {"\n"}
    PROVE  ScanInv'
<1> USE ScanFacts
<1> DEFINE token == TokenHere(type, spelling)
<1>1. CASE Fail("tokens")
  <2>1. Len(tokens) >= MaxTokens
    BY <1>1, ScanInv DEF AppendToken, Appended, Fail, FailAt
  <2>2. Wrong("tokens", index)
    BY <2>1, TokenizerAssumption DEF Wrong, ScanInv
  <2> QED
    BY <1>1, <2>2, Refused DEF Fail, ScanInv, Here
<1>2. CASE Len(tokens) < MaxTokens /\ Appended(type, spelling, taken, next)
  <2>1. /\ tokens' = Append(tokens, token) /\ index' = index + taken
        /\ column' = column + taken /\ pc' = next /\ UNCHANGED <<text, line, error>>
    BY <1>2 DEF Appended, TokenHere
  <2>2. /\ token \in Token /\ token.type = type /\ token.text = spelling
        /\ token.line = line /\ token.column = column
    BY DEF Token, TokenHere
  <2> HIDE DEF token
  <2>3. Len(spelling) \in Nat /\ text \in Seq(STRING) /\ tokens \in Seq(Token)
    BY LenProperties DEF ScanInv
  <2>4. LocatedAt(text, index, token) /\ Place(text, token) = index
    <3>1. LocatedAt(text, index, token)
      BY <2>2, SamePlace DEF ScanInv, Here
    <3>2. index \in 1 .. Len(text) + 1
      BY DEF ScanInv
    <3> QED
      BY <2>3, <3>1, <3>2, PlaceFound
  <2>5. Behind(text, token) = index + taken
    BY <2>2, <2>3, <2>4 DEF Behind, Width
  <2>6. Sound(text, token)
    BY <2>2, <2>4, <2>5 DEF Sound, ScanInv, token
  <2> DEFINE m == Len(tokens)
  <2>7. /\ tokens' \in Seq(Token) /\ Len(tokens') = m + 1 /\ DOMAIN tokens' = 1 .. m + 1
        /\ \A i \in 1 .. m : tokens'[i] = tokens[i]
        /\ tokens'[m + 1] = token /\ tokens' # <<>>
    BY <2>1, <2>2, <2>3, OneMore
  <2>8. m \in Nat /\ DOMAIN tokens = 1 .. m /\ \A i \in 1 .. m + 1 : i \in 1 .. m \/ i = m + 1
    OBVIOUS
  <2> HIDE DEF m
  <2>9. \A i \in DOMAIN tokens' : Sound(text, tokens'[i])
    BY <2>6, <2>7, <2>8 DEF ScanInv
  <2>10. Ordered(text, tokens', index + taken)
    <3>1. ASSUME NEW i \in 1 .. m + 1
          PROVE  /\ Behind(text, tokens'[i]) <= index + taken
                 /\ i > 1 => Behind(text, tokens'[i - 1]) <= Place(text, tokens'[i])
      <4>1. \A j \in 1 .. m : Behind(text, tokens[j]) \in Int /\ Behind(text, tokens[j]) <= index
        <5>1. \A j \in 1 .. m : tokens[j] \in Token /\ Sound(text, tokens[j])
          BY <2>8 DEF ScanInv, m
        <5>2. \A j \in 1 .. m : Behind(text, tokens[j]) \in Nat
          BY <2>3, <5>1, BehindType
        <5>3. \A j \in 1 .. m : Behind(text, tokens[j]) <= index
          BY <2>8 DEF ScanInv, Ordered
        <5> QED
          BY <5>2, <5>3
      <4>2. CASE i = m + 1
        <5>1. i > 1 => i - 1 \in 1 .. m /\ tokens'[i - 1] = tokens[i - 1]
          BY <2>7, <2>8, <4>2
        <5>2. i > 1 => Behind(text, tokens'[i - 1]) <= Place(text, tokens'[i])
          BY <2>4, <2>7, <4>1, <4>2, <5>1
        <5>3. Behind(text, tokens'[i]) <= index + taken
          <6>1. Behind(text, tokens'[i]) = index + taken
            BY <2>5, <2>7, <4>2
          <6>2. index + taken \in Nat
            OBVIOUS
          <6> QED
            BY <6>1, <6>2
        <5> QED
          BY <5>2, <5>3
      <4>3. CASE i \in 1 .. m
        <5>1. i > 1 => i - 1 \in 1 .. m /\ tokens'[i - 1] = tokens[i - 1]
          BY <2>7, <2>8, <4>3
        <5>2. i > 1 => Behind(text, tokens[i - 1]) <= Place(text, tokens[i])
          BY <2>8, <4>3 DEF ScanInv, Ordered
        <5>3. Behind(text, tokens'[i]) <= index + taken
          <6>1. /\ Behind(text, tokens'[i]) \in Int /\ Behind(text, tokens'[i]) <= index
                /\ index \in Nat /\ taken \in Nat
            BY <2>7, <4>1, <4>3
          <6> QED
            BY <6>1
        <5>4. tokens'[i] = tokens[i]
          BY <2>7, <4>3
        <5> QED
          BY <5>1, <5>2, <5>3, <5>4
      <4> QED
        BY <2>8, <4>2, <4>3
    <3> QED
      BY <2>7, <3>1 DEF Ordered
  <2>11. Covered(text, tokens', index + taken)
    <3>1. ASSUME NEW k \in 1 .. index + taken - 1
          PROVE  \/ text[k] \in Blank \cup {"\n"}
                 \/ \E i \in DOMAIN tokens' : k \in Extent(Place(text, tokens'[i]), tokens'[i])
      <4>1. CASE k \in 1 .. index - 1
        <5>1. \/ text[k] \in Blank \cup {"\n"}
              \/ \E i \in DOMAIN tokens : k \in Extent(Place(text, tokens[i]), tokens[i])
          BY <4>1 DEF ScanInv, Covered
        <5>2. \A i \in DOMAIN tokens : i \in DOMAIN tokens' /\ tokens'[i] = tokens[i]
          <6>1. 1 .. m \subseteq 1 .. m + 1
            BY <2>8
          <6> QED
            BY <2>7, <2>8, <6>1, Zenon
        <5> QED
          BY <5>1, <5>2
      <4>2. CASE k \in index .. index + taken - 1
        <5>1. k \in Extent(Place(text, token), token)
          BY <2>2, <2>3, <2>4, <4>2 DEF Extent, Width
        <5>2. m + 1 \in DOMAIN tokens'
          BY <2>7, <2>8
        <5> QED
          BY <2>7, <5>1, <5>2
      <4> QED
        BY <4>1, <4>2
    <3> QED
      BY <3>1 DEF Covered
  <2>12. Ends(tokens', pc' = "tokens")
    <3>1. \A i \in 1 .. m : tokens'[i].type # "EOF" /\ i # m + 1
      <4>1. \A i \in 1 .. m : tokens[i].type # "EOF"
        BY <2>8 DEF ScanInv, Ends
      <4>2. \A i \in 1 .. m : i # m + 1
        BY <2>8
      <4> QED
        BY <2>7, <4>1, <4>2
    <3>2. token.type = "EOF" <=> pc' = "tokens"
      BY <2>1, <2>2
    <3> QED
      BY <2>7, <2>8, <3>1, <3>2 DEF Ends
  <2>13. LocatedAt(text, index + taken, Here')
    <3>1. /\ Here'.line = Here.line /\ Here'.column = Here.column + taken
      BY <2>1 DEF Here
    <3>2. LocatedAt(text, index, Here)
      BY DEF ScanInv
    <3> QED
      BY <3>1, <3>2, AlongTheLine
  <2>14. Len(tokens') <= MaxTokens
    BY <1>2, <2>7, <2>8, TokenizerAssumption DEF m
  <2>15. /\ pc' \in {"scan", "tokens"} /\ error' = NoError /\ text' = text /\ call' = call
         /\ index' \in 1 .. Len(text') + 1 /\ line' \in Nat \ {0} /\ column' \in Nat \ {0}
    <3>1. pc' \in {"scan", "tokens"} /\ error' = NoError /\ text' = text /\ call' = call
      BY <2>1 DEF ScanInv
    <3>2. index + taken \in 1 .. Len(text) + 1 /\ column + taken \in Nat \ {0}
      OBVIOUS
    <3> QED
      BY <2>1, <3>1, <3>2
  <2>16. ErrorIsThere'
    BY <2>15 DEF ErrorIsThere
  <2> QED
    BY <2>1, <2>7, <2>9, <2>10, <2>11, <2>12, <2>13, <2>14, <2>15, <2>16 DEF ScanInv, Before
<1> QED
  BY <1>1, <1>2, TokenizerAssumption DEF AppendToken

(* A blank or the end of a line is passed over.                            *)
LEMMA BlankPassed ==
    ASSUME ScanInv, pc = "scan", index \in DOMAIN text, text[index] \in Blank \cup {"\n"},
           index' = index + 1, UNCHANGED <<call, pc, text, tokens, error>>,
           LocatedAt(text, index + 1, Here'), line' \in Nat \ {0}, column' \in Nat \ {0}
    PROVE  ScanInv'
<1> USE ScanFacts
<1>1. Ordered(text, tokens, index + 1)
  <2>1. ASSUME NEW i \in 1 .. Len(tokens)
        PROVE  Behind(text, tokens[i]) <= index + 1
    <3>1. tokens[i] \in Token /\ Sound(text, tokens[i]) /\ text \in Seq(STRING)
      BY DEF ScanInv
    <3>2. Behind(text, tokens[i]) \in Nat
      BY <3>1, BehindType
    <3>3. Behind(text, tokens[i]) <= index
      BY DEF ScanInv, Ordered
    <3> QED
      BY <3>2, <3>3
  <2> QED
    BY <2>1 DEF ScanInv, Ordered
<1>2. Covered(text, tokens, index + 1)
  <2>1. \A k \in 1 .. index : k \in 1 .. index - 1 \/ k = index
    OBVIOUS
  <2> QED
    BY <2>1 DEF ScanInv, Covered
<1>3. index' \in 1 .. Len(text) + 1 /\ error' = NoError
  BY DEF ScanInv
<1>4. ErrorIsThere'
  BY DEF ErrorIsThere
<1> QED
  BY <1>1, <1>2, <1>3, <1>4 DEF ScanInv, Before

-----------------------------------------------------------------------------
(* Words                                                                   *)
-----------------------------------------------------------------------------
LEMMA TypesApart ==
    /\ {"EOF", "IDENTIFIER", "NUMBER", "STRING"} \subseteq TokenType
    /\ {"EOF", "NUMBER", "STRING"} \cap WordType = {}
    /\ \A word \in DOMAIN Keywords :
         /\ Keywords[word] \in TokenType /\ Keywords[word] \in WordType
         /\ Keywords[word] \notin {"EOF", "IDENTIFIER", "NUMBER", "STRING"}
    /\ \A ch \in DOMAIN Symbols :
         /\ Symbols[ch] \in TokenType /\ Symbols[ch] \notin WordType
         /\ Symbols[ch] \notin {"EOF", "IDENTIFIER", "NUMBER", "STRING"}
<1>1. \A word \in DOMAIN Keywords : Keywords[word] \notin OtherType
  BY TokenizerAssumption
<1>2. \A ch \in DOMAIN Symbols :
        /\ Symbols[ch] \in OtherType
        /\ Symbols[ch] \notin {"EOF", "IDENTIFIER", "NUMBER", "STRING"}
  BY DEF OtherType, Symbols
<1>3. {"EOF", "IDENTIFIER", "NUMBER", "STRING"} \subseteq OtherType
  BY DEF OtherType
<1> QED
  BY <1>1, <1>2, <1>3 DEF WordType, TokenType

LEMMA CharactersApart ==
    /\ WordStart \subseteq WordPart /\ Digit \subseteq WordPart /\ WordPart \subseteq STRING
    /\ WordPart \cap (Blank \cup {"\n", Quote, "-"} \cup DOMAIN Symbols) = {}
    /\ DOMAIN Symbols \cap (Blank \cup {"\n", Quote}) = {}
    /\ Quote \notin Blank \cup {"\n"} /\ "-" \notin Blank \cup {"\n"}
<1>1. WordStart \subseteq WordPart /\ Digit \subseteq WordPart /\ WordPart \subseteq STRING
  BY TokenizerAssumption DEF WordPart
<1>2. WordPart \cap (Blank \cup {"\n", Quote, "-"} \cup DOMAIN Symbols) = {}
  BY TokenizerAssumption DEF LineEnds
<1>3. DOMAIN Symbols = {",", ";", "(", ")", "*"}
  BY DEF Symbols
<1>4. Blank = {" ", "\t", "\r"} /\ Quote = "'"
  BY DEF Blank, Quote
<1>5. DOMAIN Symbols \cap (Blank \cup {"\n", Quote}) = {}
  BY <1>3, <1>4
<1>6. Quote \notin Blank \cup {"\n"} /\ "-" \notin Blank \cup {"\n"}
  BY <1>4
<1> QED
  BY <1>1, <1>2, <1>5, <1>6

(* The word at the index, and the same in lower case.                      *)
LEMMA WordProperties ==
    ASSUME ScanInv, At(WordStart)
    PROVE  LET word == Stretch(index, WordPart)
               lower == LowerText(word)
           IN  /\ word \in Seq(STRING) /\ Len(word) \in Nat \ {0}
               /\ index + Len(word) <= Len(text) + 1
               /\ \A i \in 1 .. Len(word) : word[i] = text[index + i - 1] /\ word[i] \in WordPart
               /\ index + Len(word) \in DOMAIN text => text[index + Len(word)] \notin WordPart
               /\ word = SubSeq(text, index, index + Len(word) - 1)
               /\ lower \in Seq(STRING) /\ Len(lower) = Len(word)
               /\ \A i \in 1 .. Len(word) : lower[i] = Lower[word[i]] /\ lower[i] \in WordPart
               /\ word[1] \in WordStart /\ lower[1] \in WordStart /\ LowerText(lower) = lower
<1> DEFINE word == Stretch(index, WordPart)
           lower == LowerText(word)
<1> USE ScanFacts
<1>1. /\ text \in Seq(STRING) /\ index \in 1 .. Len(text) + 1 /\ index \in Nat
      /\ index \in 1 .. Len(text) /\ Len(text) \in Nat /\ text[index] \in WordStart
  BY DEF ScanInv, At
<1>2. /\ word \in Seq(STRING) /\ Len(word) \in Nat /\ index + Len(word) \in 1 .. Len(text) + 1
      /\ \A i \in 1 .. Len(word) : word[i] = text[index + i - 1] /\ word[i] \in WordPart
      /\ index + Len(word) \in 1 .. Len(text) => text[index + Len(word)] \notin WordPart
  BY <1>1, StretchProperties
<1> HIDE DEF word
<1>3. Len(word) \in Nat \ {0}
  <2>1. ASSUME Len(word) = 0 PROVE FALSE
    <3>1. index + Len(word) = index
      BY <1>1, <2>1
    <3> QED
      BY <1>1, <1>2, <3>1, CharactersApart
  <2> QED
    BY <1>2, <2>1
<1>4. word = SubSeq(text, index, index + Len(word) - 1)
  <2>1. index + Len(word) - 1 <= Len(text)
    BY <1>1, <1>2
  <2> QED
    BY <1>1, <1>2, <2>1, SamePiece
<1>5. DOMAIN word = 1 .. Len(word)
  BY <1>2, LenProperties
<1>6. lower = [i \in 1 .. Len(word) |-> Lower[word[i]]]
  BY <1>5 DEF LowerText
<1>7. \A i \in 1 .. Len(word) : lower[i] = Lower[word[i]] /\ lower[i] \in WordPart
  BY <1>2, <1>6, TokenizerAssumption
<1>8. lower \in Seq(STRING) /\ Len(lower) = Len(word) /\ DOMAIN lower = 1 .. Len(word)
  <2>1. lower \in [1 .. Len(word) -> STRING]
    BY <1>6, <1>7, CharactersApart
  <2>2. lower \in Seq(STRING)
    BY <1>2, <2>1, SeqDef
  <2> QED
    BY <1>2, <2>1, <2>2, LenProperties
<1>9. word[1] \in WordStart /\ lower[1] \in WordStart
  BY <1>1, <1>2, <1>3, <1>7, TokenizerAssumption
<1>10. LowerText(lower) = lower
  <2>1. \A i \in 1 .. Len(word) : Lower[lower[i]] = lower[i]
    BY <1>2, <1>7, TokenizerAssumption
  <2>2. LowerText(lower) = [i \in 1 .. Len(word) |-> Lower[lower[i]]]
    BY <1>8 DEF LowerText
  <2>3. lower = [i \in 1 .. Len(word) |-> lower[i]]
    BY <1>6
  <2> QED
    BY <2>1, <2>2, <2>3
<1> HIDE DEF lower
<1> QED
  BY <1>2, <1>3, <1>4, <1>7, <1>8, <1>9, <1>10 DEF word, lower

LEMMA WordRead == ASSUME ScanInv, ReadWord, call' = call PROVE ScanInv'
<1> DEFINE word == Stretch(index, WordPart)
           lower == LowerText(word)
           type == Keywords[lower]
<1> USE ScanFacts
<1>1. /\ At(WordStart) /\ pc = "scan" /\ index \in DOMAIN text /\ text[index] \in WordStart
      /\ text[index] \notin Blank \cup {"\n"} /\ index \in 1 .. Len(text) + 1 /\ index \in Nat
      /\ Len(text) \in Nat /\ DOMAIN text = 1 .. Len(text)
      /\ LocatedAt(text, index, Here)
  BY CharactersApart DEF ReadWord, At, ScanInv
<1>2. /\ word \in Seq(STRING) /\ Len(word) \in Nat \ {0}
      /\ index + Len(word) <= Len(text) + 1
      /\ \A i \in 1 .. Len(word) : word[i] = text[index + i - 1] /\ word[i] \in WordPart
      /\ index + Len(word) \in DOMAIN text => text[index + Len(word)] \notin WordPart
      /\ word = SubSeq(text, index, index + Len(word) - 1)
      /\ lower \in Seq(STRING) /\ Len(lower) = Len(word)
      /\ \A i \in 1 .. Len(word) : lower[i] = Lower[word[i]] /\ lower[i] \in WordPart
      /\ word[1] \in WordStart /\ lower[1] \in WordStart /\ LowerText(lower) = lower
  BY <1>1, WordProperties
<1>3. \/ Len(word) >= MaxValueLen /\ Fail("word")
      \/ /\ Len(word) < MaxValueLen /\ lower \in DOMAIN Keywords
         /\ AppendToken(type, word, Len(word), "scan")
      \/ /\ Len(word) < MaxValueLen /\ lower \notin DOMAIN Keywords
         /\ AppendToken("IDENTIFIER", lower, Len(word), "scan")
  <2>1. Len(word) >= MaxValueLen \/ Len(word) < MaxValueLen
    BY <1>2, TokenizerAssumption
  <2> QED
    BY <2>1, Zenon DEF ReadWord
<1> HIDE DEF word, lower
<1>4. /\ \A m \in index .. index + Len(word) - 1 : text[m] \in WordPart
      /\ \A m \in index .. index + Len(word) - 1 : text[m] # "\n"
  <2>1. ASSUME NEW m \in index .. index + Len(word) - 1 PROVE text[m] \in WordPart
    <3> DEFINE i == m - index + 1
    <3>1. i \in 1 .. Len(word) /\ index + i - 1 = m
      <4>1. index \in Nat /\ Len(word) \in Nat
        BY <1>1, <1>2
      <4> QED
        BY <4>1
    <3> HIDE DEF i
    <3> QED
      BY <1>2, <3>1
  <2> QED
    BY <2>1, CharactersApart
<1>5. CASE Len(word) >= MaxValueLen /\ Fail("word")
  <2>1. \A n \in 0 .. MaxValueLen - 1 :
          index + n \in DOMAIN text /\ index + n \in index .. index + Len(word) - 1
    <3>1. /\ index \in Nat \ {0} /\ Len(word) \in Nat /\ Len(text) \in Nat
          /\ index + Len(word) <= Len(text) + 1 /\ DOMAIN text = 1 .. Len(text)
          /\ MaxValueLen \in Nat /\ Len(word) >= MaxValueLen
      BY <1>1, <1>2, <1>5, TokenizerAssumption
    <3> QED
      BY <3>1
  <2>2. Wrong("word", index)
    BY <1>1, <1>4, <2>1 DEF Wrong
  <2> QED
    BY <1>1, <1>5, <2>2, Refused DEF Fail, Here
<1>6. ToSet(word) \subseteq WordPart /\ ToSet(lower) \subseteq WordPart
  <2>1. DOMAIN word = 1 .. Len(word) /\ DOMAIN lower = 1 .. Len(word)
    BY <1>2, LenProperties
  <2> QED
    BY <1>2, <2>1 DEF ToSet
<1>7. CASE /\ Len(word) < MaxValueLen /\ lower \in DOMAIN Keywords
           /\ AppendToken(type, word, Len(word), "scan")
  <2>1. type \in TokenType /\ type \in WordType
        /\ type \notin {"EOF", "IDENTIFIER", "NUMBER", "STRING"}
    BY <1>7, TypesApart
  <2> HIDE DEF type
  <2>2. Written(text, index, TokenHere(type, word))
    BY <1>2, <2>1 DEF Written, TokenHere
  <2>3. Typed(text, index, TokenHere(type, word))
    BY <1>2, <1>6, <1>7, <2>1 DEF Typed, TokenHere, lower, type
  <2>4. Len(word) = Width(type, word)
    BY <1>2, <2>1 DEF Width
  <2> QED
    BY <1>1, <1>2, <1>4, <1>7, <2>1, <2>2, <2>3, <2>4, TokenAdded
<1>8. CASE /\ Len(word) < MaxValueLen /\ lower \notin DOMAIN Keywords
           /\ AppendToken("IDENTIFIER", lower, Len(word), "scan")
  <2> DEFINE name == "IDENTIFIER"
  <2>1. name \in TokenType /\ name \in WordType /\ name \notin {"EOF", "STRING"}
    BY TypesApart DEF WordType
  <2>2. Written(text, index, TokenHere(name, lower))
    BY <1>2, <2>1 DEF Written, TokenHere, lower
  <2>3. Typed(text, index, TokenHere(name, lower))
    BY <1>2, <1>6, <1>8, <2>1 DEF Typed, TokenHere
  <2>4. Len(word) = Width(name, lower)
    BY <1>2 DEF Width
  <2>5. AppendToken(name, lower, Len(word), "scan")
    BY <1>8
  <2> HIDE DEF name
  <2> QED
    BY <1>1, <1>2, <1>4, <1>8, <2>1, <2>2, <2>3, <2>4, <2>5, TokenAdded
<1> QED
  BY <1>3, <1>5, <1>7, <1>8

-----------------------------------------------------------------------------
(* Numbers                                                                 *)
-----------------------------------------------------------------------------
LEMMA NumberProperties ==
    ASSUME ScanInv, AtNumber
    PROVE  LET number == <<text[index]>> \o Stretch(index + 1, Digit) IN
           /\ number \in Seq(STRING) /\ Len(number) \in Nat \ {0}
           /\ index + Len(number) <= Len(text) + 1
           /\ \A i \in 1 .. Len(number) : /\ number[i] = text[index + i - 1]
                                          /\ number[i] \in Digit \cup {"-"}
                                          /\ i > 1 => number[i] \in Digit
           /\ index + Len(number) \in DOMAIN text => text[index + Len(number)] \notin Digit
           /\ number = SubSeq(text, index, index + Len(number) - 1)
           /\ number # <<"-">>
<1> DEFINE digits == Stretch(index + 1, Digit)
           first == <<text[index]>>
           number == first \o digits
<1>1. /\ text \in Seq(STRING) /\ index \in Nat \ {0} /\ Len(text) \in Nat
      /\ DOMAIN text = 1 .. Len(text) /\ index \in 1 .. Len(text) /\ text[index] \in STRING
      /\ text[index] \in Digit
         \/ (text[index] = "-" /\ index + 1 \in 1 .. Len(text) /\ text[index + 1] \in Digit)
  BY ScanFacts DEF ScanInv, AtNumber, At
<1>2. index + 1 \in 1 .. Len(text) + 1
  BY <1>1
<1>3. /\ digits \in Seq(STRING) /\ Len(digits) \in Nat
      /\ (index + 1) + Len(digits) \in 1 .. Len(text) + 1
      /\ \A i \in 1 .. Len(digits) : digits[i] = text[(index + 1) + i - 1] /\ digits[i] \in Digit
      /\ (index + 1) + Len(digits) \in 1 .. Len(text)
            => text[(index + 1) + Len(digits)] \notin Digit
  BY <1>1, <1>2, StretchProperties
<1> HIDE DEF digits
<1>4. first \in Seq(STRING) /\ Len(first) = 1 /\ first[1] = text[index]
  BY <1>1
<1> HIDE DEF first
<1>5. /\ number \in Seq(STRING) /\ Len(number) = 1 + Len(digits)
      /\ \A i \in 1 .. 1 + Len(digits) :
           number[i] = IF i <= 1 THEN first[i] ELSE digits[i - 1]
  <2>1. /\ number \in Seq(STRING) /\ Len(number) = Len(first) + Len(digits)
        /\ \A i \in 1 .. Len(first) + Len(digits) :
             number[i] = IF i <= Len(first) THEN first[i] ELSE digits[i - Len(first)]
    BY <1>3, <1>4, ConcatProperties
  <2> HIDE DEF number
  <2> QED
    BY <1>4, <2>1
<1> HIDE DEF number
<1> DEFINE n == Len(number)
<1>6. n \in Nat \ {0} /\ n = 1 + Len(digits) /\ index + n <= Len(text) + 1
  BY <1>1, <1>3, <1>5
<1>7. \A i \in 1 .. n : i = 1 \/ (i > 1 /\ i - 1 \in 1 .. Len(digits))
  BY <1>3, <1>6
<1>8. ASSUME NEW i \in 1 .. n
      PROVE  /\ number[i] = text[index + i - 1] /\ number[i] \in Digit \cup {"-"}
             /\ i > 1 => number[i] \in Digit
  <2>1. CASE i = 1
    <3>1. number[1] = text[index] /\ index + 1 - 1 = index
      BY <1>1, <1>4, <1>5, <1>6
    <3> QED
      BY <1>1, <2>1, <3>1
  <2>2. CASE i > 1 /\ i - 1 \in 1 .. Len(digits)
    <3>1. number[i] = digits[i - 1] /\ (index + 1) + (i - 1) - 1 = index + i - 1
      BY <1>1, <1>5, <1>6, <2>2
    <3> QED
      BY <1>3, <2>2, <3>1
  <2> QED
    BY <1>7, <2>1, <2>2
<1>9. index + n \in 1 .. Len(text) => text[index + n] \notin Digit
  <2>1. (index + 1) + Len(digits) = index + n
    BY <1>1, <1>3, <1>6
  <2> QED
    BY <1>3, <2>1
<1>10. number = SubSeq(text, index, index + n - 1)
  <2>1. index + n - 1 <= Len(text) /\ index \in 1 .. Len(text) + 1
    BY <1>1, <1>6
  <2> QED
    BY <1>1, <1>5, <1>8, <2>1, SamePiece
<1>11. number # <<"-">>
  <2>1. ASSUME number = <<"-">> PROVE FALSE
    <3>1. n = 1 /\ number[1] = "-" /\ Len(digits) = 0
      BY <1>3, <1>6, <2>1
    <3>2. text[index] = "-"
      BY <1>1, <1>8, <3>1
    <3>3. "-" \notin Digit
      BY CharactersApart
    <3>4. index + 1 \in 1 .. Len(text) /\ text[index + 1] \in Digit
      BY <1>1, <3>2, <3>3
    <3>5. index + n = index + 1
      BY <3>1
    <3> QED
      BY <1>9, <3>4, <3>5
  <2> QED
    BY <2>1
<1> QED
  BY <1>1, <1>5, <1>6, <1>8, <1>9, <1>10, <1>11 DEF number, first, digits

LEMMA NumberRead == ASSUME ScanInv, ReadNumber, call' = call PROVE ScanInv'
<1> DEFINE number == <<text[index]>> \o Stretch(index + 1, Digit)
           n == Len(number)
           type == "NUMBER"
<1>1. AtNumber /\ pc = "scan" /\ LocatedAt(text, index, Here)
  BY DEF ReadNumber, AtNumber, At, ScanInv
<1>2. /\ number \in Seq(STRING) /\ n \in Nat \ {0}
      /\ index + n <= Len(text) + 1
      /\ \A i \in 1 .. n : /\ number[i] = text[index + i - 1]
                           /\ number[i] \in Digit \cup {"-"}
                           /\ i > 1 => number[i] \in Digit
      /\ index + n \in DOMAIN text => text[index + n] \notin Digit
      /\ number = SubSeq(text, index, index + n - 1)
      /\ number # <<"-">>
  BY <1>1, NumberProperties
<1>3. \/ n >= MaxValueLen /\ Fail("number")
      \/ ~(n >= MaxValueLen) /\ AppendToken(type, number, n, "scan")
  BY Zenon DEF ReadNumber
<1> HIDE DEF number, n
<1>4. /\ index \in Nat \ {0} /\ Len(text) \in Nat /\ DOMAIN text = 1 .. Len(text)
      /\ index \in 1 .. Len(text) + 1 /\ n \in Nat \ {0} /\ index + n <= Len(text) + 1
      /\ MaxValueLen \in Nat \ {0}
  BY <1>2, ScanFacts, TokenizerAssumption DEF ScanInv
<1>5. /\ \A m \in index .. index + n - 1 : text[m] \in Digit \cup {"-"}
      /\ \A m \in index .. index + n - 1 : text[m] \notin Blank \cup {"\n"}
  <2>1. ASSUME NEW m \in index .. index + n - 1 PROVE text[m] \in Digit \cup {"-"}
    <3> DEFINE i == m - index + 1
    <3>1. i \in 1 .. n /\ index + i - 1 = m
      BY <1>4
    <3> HIDE DEF i
    <3> QED
      BY <1>2, <3>1
  <2> QED
    BY <2>1, CharactersApart
<1>6. CASE n >= MaxValueLen /\ Fail("number")
  <2>1. \A k \in 0 .. MaxValueLen - 1 :
          index + k \in DOMAIN text /\ index + k \in index .. index + n - 1
    BY <1>4, <1>6
  <2>2. Wrong("number", index)
    BY <1>5, <2>1 DEF Wrong
  <2> QED
    BY <1>1, <1>4, <1>6, <2>2, Refused DEF Fail, Here
<1>7. CASE ~(n >= MaxValueLen) /\ AppendToken(type, number, n, "scan")
  <2>1. /\ type \in TokenType /\ type \notin WordType
        /\ type \notin {"EOF", "IDENTIFIER", "STRING"}
    BY TypesApart
  <2>2. Written(text, index, TokenHere(type, number))
    BY <1>2, <2>1 DEF Written, TokenHere, n
  <2>3. Typed(text, index, TokenHere(type, number))
    <3>1. DOMAIN number = 1 .. n /\ number # <<>>
      BY <1>2, <1>4, EmptySeq, LenProperties DEF n
    <3>2. ToSet(number) \subseteq Digit \cup {"-"}
      BY <1>2, <3>1 DEF ToSet
    <3>3. /\ Tail(number) \in Seq(STRING) /\ Len(Tail(number)) = n - 1
          /\ \A i \in 1 .. n - 1 : Tail(number)[i] = number[i + 1]
      BY <1>2, <3>1, HeadTailProperties DEF n
    <3>4. DOMAIN Tail(number) = 1 .. n - 1
      BY <3>3, LenProperties
    <3>5. \A i \in 1 .. n - 1 : i + 1 \in 1 .. n /\ i + 1 > 1
      BY <1>4
    <3>6. \A i \in DOMAIN Tail(number) : Tail(number)[i] \in Digit
      BY <1>2, <3>3, <3>4, <3>5
    <3>7. ToSet(Tail(number)) \subseteq Digit
      BY <3>6 DEF ToSet
    <3> QED
      BY <1>2, <2>1, <3>2, <3>7 DEF Typed, TokenHere, n
  <2>4. n = Width(type, number) /\ Len(number) < MaxValueLen
    BY <1>4, <1>7 DEF Width, n
  <2>5. \A m \in index .. index + n - 1 : text[m] # "\n"
    BY <1>5
  <2>6. index \in index .. index + n - 1
    BY <1>4
  <2>7. n \in Nat /\ n > 0
    BY <1>4
  <2> HIDE DEF type
  <2> QED
    BY <1>1, <1>2, <1>4, <1>5, <1>7, <2>1, <2>2, <2>3, <2>4, <2>5, <2>6, <2>7, TokenAdded
<1> QED
  BY <1>3, <1>6, <1>7

-----------------------------------------------------------------------------
(* Strings                                                                 *)
-----------------------------------------------------------------------------
StringEnds == LineEnds \cup {Quote}

(* What is behind a quote up to the first line end or quote.               *)
LEMMA StringProperties ==
    ASSUME text \in Seq(STRING), NEW k \in 1 .. Len(text)
    PROVE  LET rest == SubSeq(text, k + 1, Len(text))
               stop == First(rest, StringEnds)
               content == IF stop = 0 THEN rest ELSE SubSeq(rest, 1, stop - 1)
           IN  /\ content \in Seq(STRING) /\ Len(content) \in Nat
               /\ k + Len(content) <= Len(text)
               /\ \A i \in 1 .. Len(content) :
                    content[i] = text[k + i] /\ content[i] \notin StringEnds
               /\ stop = 0 => k + Len(content) = Len(text)
               /\ stop # 0 => /\ k + Len(content) + 1 \in 1 .. Len(text)
                              /\ rest[stop] = text[k + Len(content) + 1]
                              /\ rest[stop] \in StringEnds
<1> DEFINE rest == SubSeq(text, k + 1, Len(text))
           stop == First(rest, StringEnds)
           content == IF stop = 0 THEN rest ELSE SubSeq(rest, 1, stop - 1)
<1>1. Len(text) \in Nat /\ k \in Nat \ {0} /\ k <= Len(text)
  BY LenProperties
<1>2. /\ rest \in Seq(STRING) /\ Len(rest) = Len(text) - k
      /\ \A i \in 1 .. Len(text) - k : rest[i] = text[k + i]
  <2>1. k + 1 \in 1 .. Len(text) + 1 /\ Len(text) \in (k + 1) - 1 .. Len(text)
    BY <1>1
  <2>2. /\ rest \in Seq(STRING) /\ Len(rest) = Len(text) - (k + 1) + 1
        /\ \A i \in 1 .. Len(text) - (k + 1) + 1 : rest[i] = text[(k + 1) + i - 1]
    BY <2>1, PieceProperties
  <2> HIDE DEF rest
  <2>3. Len(text) - (k + 1) + 1 = Len(text) - k /\ \A i \in Nat : (k + 1) + i - 1 = k + i
    BY <1>1
  <2> QED
    BY <2>2, <2>3
<1> HIDE DEF rest
<1>3. /\ stop \in 0 .. Len(rest)
      /\ stop = 0 => \A i \in 1 .. Len(rest) : rest[i] \notin StringEnds
      /\ stop # 0 => /\ rest[stop] \in StringEnds
                     /\ \A i \in 1 .. stop - 1 : rest[i] \notin StringEnds
  BY <1>2, FirstProperties
<1> HIDE DEF stop
<1>4. CASE stop = 0
  <2>1. content = rest
    BY <1>4
  <2> HIDE DEF content
  <2>2. Len(content) = Len(text) - k
    BY <1>2, <2>1
  <2>3. \A i \in 1 .. Len(content) : content[i] = text[k + i] /\ content[i] \notin StringEnds
    BY <1>2, <1>3, <1>4, <2>1
  <2>4. /\ content \in Seq(STRING) /\ Len(content) \in Nat /\ k + Len(content) = Len(text)
        /\ k + Len(content) <= Len(text)
    BY <1>1, <1>2, <2>1, <2>2
  <2> QED
    BY <1>4, <2>3, <2>4 DEF content, stop, rest
<1>5. CASE stop # 0
  <2>1. stop - 1 \in 0 .. Len(rest) /\ 1 \in 1 .. Len(rest) + 1 /\ stop \in 1 .. Len(text) - k
    BY <1>1, <1>2, <1>3, <1>5
  <2>2. /\ content \in Seq(STRING) /\ Len(content) = stop - 1
        /\ \A i \in 1 .. stop - 1 : content[i] = rest[i]
    BY <1>2, <1>5, <2>1, PieceProperties
  <2> HIDE DEF content
  <2>3. /\ Len(content) \in Nat /\ k + Len(content) <= Len(text)
        /\ k + Len(content) + 1 \in 1 .. Len(text) /\ k + Len(content) + 1 = k + stop
    BY <1>1, <2>1, <2>2
  <2>4. rest[stop] = text[k + Len(content) + 1]
    BY <1>2, <2>1, <2>3
  <2>5. \A i \in 1 .. stop - 1 : i \in 1 .. Len(text) - k
    BY <1>1, <2>1
  <2>6. \A i \in 1 .. Len(content) : content[i] = text[k + i] /\ content[i] \notin StringEnds
    BY <1>2, <1>3, <1>5, <2>2, <2>5
  <2> QED
    BY <1>3, <1>5, <2>2, <2>3, <2>4, <2>6 DEF content, stop, rest
<1> QED
  BY <1>4, <1>5

LEMMA StringRead == ASSUME ScanInv, ReadString, call' = call PROVE ScanInv'
<1> DEFINE rest == SubSeq(text, index + 1, Len(text))
           stop == First(rest, StringEnds)
           content == IF stop = 0 THEN rest ELSE SubSeq(rest, 1, stop - 1)
           n == Len(content)
           type == "STRING"
<1>1. /\ pc = "scan" /\ LocatedAt(text, index, Here) /\ text \in Seq(STRING)
      /\ index \in Nat \ {0} /\ Len(text) \in Nat /\ DOMAIN text = 1 .. Len(text)
      /\ index \in 1 .. Len(text) + 1 /\ index \in 1 .. Len(text) /\ text[index] = Quote
      /\ line \in Nat /\ column \in Nat
      /\ MaxValueLen \in Nat \ {0}
  BY ScanFacts, TokenizerAssumption DEF ReadString, At, ScanInv
<1>2. /\ content \in Seq(STRING) /\ n \in Nat /\ index + n <= Len(text)
      /\ \A i \in 1 .. n : content[i] = text[index + i] /\ content[i] \notin StringEnds
      /\ stop = 0 => index + n = Len(text)
      /\ stop # 0 => /\ index + n + 1 \in 1 .. Len(text)
                     /\ rest[stop] = text[index + n + 1] /\ rest[stop] \in StringEnds
  BY <1>1, StringProperties
<1>3. \/ n >= MaxValueLen /\ Fail("string")
      \/ n < MaxValueLen /\ stop = 0 /\ Fail("unclosed")
      \/ n < MaxValueLen /\ stop # 0 /\ rest[stop] \in LineEnds /\ FailAt("newline", line, column + n + 1)
      \/ /\ n < MaxValueLen /\ stop # 0 /\ rest[stop] \notin LineEnds
         /\ AppendToken(type, content, n + 2, "scan")
  <2>1. SelectInSeq(rest, LAMBDA ch : ch \in LineEnds \cup {Quote}) = stop
    BY DEF SelectInSeq, First, StringEnds
  <2>2. n >= MaxValueLen \/ n < MaxValueLen
    <3>1. n \in Nat /\ MaxValueLen \in Nat
      BY <1>1, <1>2
    <3> HIDE DEF n
    <3> QED
      BY <3>1
  <2> HIDE DEF stop
  <2> QED
    BY <2>1, <2>2, Zenon DEF ReadString
<1> HIDE DEF rest, stop, content, n
<1>11. /\ index \in Nat \ {0} /\ n \in Nat /\ Len(text) \in Nat /\ MaxValueLen \in Nat
       /\ index + n <= Len(text)
  BY <1>1, <1>2
<1>4. \A m \in index + 1 .. index + n : text[m] \notin StringEnds
  <2>1. ASSUME NEW m \in index + 1 .. index + n PROVE text[m] \notin StringEnds
    <3> DEFINE i == m - index
    <3>1. i \in 1 .. n /\ index + i = m
      BY <1>11
    <3> HIDE DEF i
    <3> QED
      BY <1>2, <3>1
  <2> QED
    BY <2>1
<1>5. Quote \in StringEnds /\ "\n" \in StringEnds /\ Quote # "\n" /\ Quote \notin Blank
  BY CharactersApart DEF StringEnds, LineEnds
<1>6. \A m \in index .. index + n : text[m] # "\n"
  <2>1. \A m \in index .. index + n : m = index \/ m \in index + 1 .. index + n
    BY <1>1, <1>2
  <2> QED
    BY <1>1, <1>4, <1>5, <2>1
<1>7. CASE n >= MaxValueLen /\ Fail("string")
  <2>1. \A m \in index + 1 .. index + MaxValueLen :
          m \in DOMAIN text /\ m \in index + 1 .. index + n
    BY <1>1, <1>2, <1>7
  <2>2. Wrong("string", index)
    BY <1>4, <2>1 DEF Wrong, StringEnds
  <2> QED
    BY <1>1, <1>7, <2>2, Refused DEF Fail, Here
<1>8. CASE stop = 0 /\ Fail("unclosed")
  <2>1. Wrong("unclosed", index)
    BY <1>1, <1>2, <1>4, <1>8 DEF Wrong, StringEnds
  <2> QED
    BY <1>1, <1>8, <2>1, Refused DEF Fail, Here
<1>9. CASE stop # 0 /\ rest[stop] \in LineEnds /\ FailAt("newline", line, column + n + 1)
  <2> DEFINE k == index + (n + 1)
             there == [line |-> line, column |-> column + n + 1]
  <2>1. /\ k \in 1 .. Len(text) + 1 /\ k = index + n + 1 /\ k - 1 = index + n
        /\ n + 1 \in Nat /\ index + (n + 1) - 1 = index + n
    <3>1. index + n + 1 \in 1 .. Len(text)
      BY <1>2, <1>9
    <3> QED
      BY <1>11, <3>1
  <2>2. LocatedAt(text, k, there)
    <3>1. there.line = Here.line /\ there.column = Here.column + (n + 1)
      <4>1. column + n + 1 = column + (n + 1)
        BY <1>1, <1>11
      <4> QED
        BY <4>1 DEF Here
    <3> HIDE DEF there
    <3> QED
      BY <1>1, <1>6, <2>1, <3>1, AlongTheLine
  <2>3. Wrong("newline", k)
    <3>1. text[k] \in LineEnds
      BY <1>2, <1>9, <2>1
    <3>2. \A m \in index + 1 .. k - 1 : text[m] \notin LineEnds \cup {Quote}
      BY <1>4, <2>1 DEF StringEnds
    <3> HIDE DEF k
    <3> QED
      BY <1>1, <3>1, <3>2 DEF Wrong
  <2> HIDE DEF k
  <2> QED
    BY <1>1, <1>9, <2>1, <2>2, <2>3, Refused
<1>10. CASE /\ n < MaxValueLen /\ stop # 0 /\ rest[stop] \notin LineEnds
            /\ AppendToken(type, content, n + 2, "scan")
  <2>1. type \in TokenType /\ type \notin WordType /\ type \notin {"EOF", "NUMBER"}
    BY TypesApart
  <2>2. /\ index + n + 1 \in 1 .. Len(text) /\ text[index + n + 1] = Quote
    BY <1>2, <1>10 DEF StringEnds
  <2>3. Written(text, index, TokenHere(type, content))
    <3>1. /\ index + 1 \in 1 .. Len(text) + 1 /\ (index + 1) + n - 1 = index + n
          /\ (index + 1) + n - 1 <= Len(text)
          /\ \A i \in 1 .. n : (index + 1) + i - 1 = index + i
      BY <1>11
    <3>2. \A i \in 1 .. Len(content) : content[i] = text[(index + 1) + i - 1]
      BY <1>2, <3>1 DEF n
    <3>3. content = SubSeq(text, index + 1, (index + 1) + n - 1)
      BY <1>1, <1>2, <3>1, <3>2, SamePiece DEF n
    <3>4. content = SubSeq(text, index + 1, index + n)
      BY <3>1, <3>3
    <3> QED
      BY <1>1, <2>2, <3>4 DEF Written, TokenHere, n
  <2>4. Typed(text, index, TokenHere(type, content))
    <3>1. DOMAIN content = 1 .. n
      BY <1>2, LenProperties DEF n
    <3>2. ToSet(content) \cap (LineEnds \cup {Quote}) = {}
      BY <1>2, <3>1 DEF ToSet, StringEnds
    <3> QED
      BY <2>1, <3>2 DEF Typed, TokenHere
  <2>5. n + 2 = Width(type, content) /\ n + 2 \in Nat /\ n + 2 > 0 /\ Len(content) < MaxValueLen
    BY <1>2, <1>10 DEF Width, n
  <2>6. /\ \A m \in index .. index + (n + 2) - 1 : text[m] # "\n"
        /\ index + (n + 2) <= Len(text) + 1
    <3>1. \A m \in index .. index + (n + 2) - 1 : m \in index .. index + n \/ m = index + n + 1
      BY <1>11
    <3>2. index + (n + 2) <= Len(text) + 1
      BY <1>11, <2>2
    <3> QED
      BY <1>5, <1>6, <2>2, <3>1, <3>2
  <2>7. text[index] \notin Blank \cup {"\n"}
    BY <1>1, <1>5
  <2> HIDE DEF type
  <2> QED
    BY <1>1, <1>2, <1>10, <2>1, <2>3, <2>4, <2>5, <2>6, <2>7, TokenAdded
<1> QED
  BY <1>3, <1>7, <1>8, <1>9, <1>10

-----------------------------------------------------------------------------
(* Marks, blanks and the end                                               *)
-----------------------------------------------------------------------------
LEMMA SymbolRead == ASSUME ScanInv, ReadSymbol, call' = call PROVE ScanInv'
<1> DEFINE ch == text[index]
           type == Symbols[ch]
<1>1. /\ pc = "scan" /\ LocatedAt(text, index, Here) /\ text \in Seq(STRING)
      /\ index \in Nat \ {0} /\ Len(text) \in Nat /\ DOMAIN text = 1 .. Len(text)
      /\ index \in 1 .. Len(text) + 1 /\ index \in 1 .. Len(text) /\ ch \in STRING
      /\ MaxValueLen \in Nat \ {0, 1}
  BY ScanFacts, TokenizerAssumption DEF ReadSymbol, ScanInv
<1>2. ch \notin Blank \cup {"\n", Quote} \cup WordStart /\ ~AtNumber
  BY <1>1 DEF ReadSymbol, At
<1>3. \/ ch \in DOMAIN Symbols /\ AppendToken(type, <<ch>>, 1, "scan")
      \/ ch \notin DOMAIN Symbols /\ Fail("symbol")
  BY Zenon DEF ReadSymbol
<1>4. CASE ch \notin DOMAIN Symbols /\ Fail("symbol")
  <2>1. ch \notin Digit
    BY <1>1, <1>2 DEF AtNumber, At
  <2>2. ch \notin WordPart
    BY <1>2, <2>1 DEF WordPart
  <2>3. ch = "-" /\ index < Len(text) => text[index + 1] \notin Digit
    <3>1. index < Len(text) => index + 1 \in DOMAIN text
      BY <1>1
    <3> QED
      BY <1>1, <1>2, <3>1 DEF AtNumber, At
  <2>4. Wrong("symbol", index)
    BY <1>2, <1>4, <2>2, <2>3 DEF Wrong
  <2> QED
    BY <1>1, <1>4, <2>4, Refused DEF Fail, Here
<1>5. CASE ch \in DOMAIN Symbols /\ AppendToken(type, <<ch>>, 1, "scan")
  <2> DEFINE spelling == <<ch>>
  <2>1. /\ type \in TokenType /\ type \notin WordType
        /\ type \notin {"EOF", "IDENTIFIER", "NUMBER", "STRING"}
    BY <1>5, TypesApart
  <2> HIDE DEF type
  <2>2. spelling \in Seq(STRING) /\ Len(spelling) = 1 /\ spelling[1] = text[index]
    BY <1>1
  <2>3. Typed(text, index, TokenHere(type, spelling))
    BY <1>5, <2>1 DEF Typed, TokenHere
  <2>4. AppendToken(type, spelling, 1, "scan")
    BY <1>5
  <2> HIDE DEF spelling
  <2>5. spelling = SubSeq(text, index, index + 1 - 1)
    <3>1. index + 1 - 1 <= Len(text) /\ \A i \in 1 .. 1 : i = 1 /\ index + i - 1 = index
      BY <1>1
    <3> QED
      BY <1>1, <2>2, <3>1, SamePiece
  <2>6. Written(text, index, TokenHere(type, spelling))
    BY <2>1, <2>2, <2>5 DEF Written, TokenHere
  <2>7. 1 = Width(type, spelling) /\ Len(spelling) < MaxValueLen
    BY <1>1, <2>1, <2>2 DEF Width
  <2>8. \A m \in index .. index + 1 - 1 : text[m] # "\n"
    BY <1>1, <1>2
  <2>9. index + 1 <= Len(text) + 1 /\ text[index] \notin Blank \cup {"\n"}
    BY <1>1, <1>2
  <2> DEFINE next == "scan"
  <2>10. /\ AppendToken(type, spelling, 1, next) /\ next \in {"scan", "tokens"}
         /\ type = "EOF" <=> next = "tokens"
    BY <2>1, <2>4
  <2> HIDE DEF next
  <2>11. 1 \in Nat /\ 1 > 0
    OBVIOUS
  <2> QED
    BY <1>1, <2>1, <2>2, <2>3, <2>6, <2>7, <2>8, <2>9, <2>10, <2>11, TokenAdded
<1> QED
  BY <1>3, <1>4, <1>5

LEMMA EndReached == ASSUME ScanInv, EndOfText, call' = call PROVE ScanInv'
<1> DEFINE type == "EOF"
           spelling == <<>>
<1>1. /\ pc = "scan" /\ text \in Seq(STRING) /\ index \in Nat \ {0} /\ Len(text) \in Nat
      /\ DOMAIN text = 1 .. Len(text) /\ index = Len(text) + 1
      /\ AppendToken(type, spelling, 0, "tokens") /\ MaxValueLen \in Nat \ {0, 1}
  BY ScanFacts, TokenizerAssumption DEF EndOfText, ScanInv
<1>2. spelling \in Seq(STRING) /\ Len(spelling) = 0
  OBVIOUS
<1>3. /\ type \in TokenType /\ type \notin WordType
      /\ type = "EOF" /\ type \notin {"IDENTIFIER", "NUMBER", "STRING"}
  BY TypesApart
<1>4. Typed(text, index, TokenHere(type, spelling))
  BY <1>1, <1>3 DEF Typed, TokenHere
<1>5. SubSeq(text, index, index - 1) = <<>> /\ index + Len(spelling) - 1 = index - 1
  BY <1>1, <1>2, SubSeqEmpty
<1>6. Written(text, index, TokenHere(type, spelling))
  BY <1>3, <1>5 DEF Written, TokenHere
<1> HIDE DEF spelling
<1>7. 0 = Width(type, spelling) /\ Len(spelling) < MaxValueLen
  BY <1>1, <1>2, <1>3 DEF Width
<1>8. /\ index + 0 <= Len(text) + 1 /\ index \notin DOMAIN text
      /\ \A m \in index .. index + 0 - 1 : text[m] # "\n"
  BY <1>1
<1> HIDE DEF type
<1> QED
  BY <1>1, <1>2, <1>3, <1>4, <1>6, <1>7, <1>8, TokenAdded

LEMMA BlanksRead == ASSUME ScanInv, SkipBlank \/ NewLine, call' = call PROVE ScanInv'
<1>1. /\ LocatedAt(text, index, Here) /\ index \in Nat \ {0} /\ line \in Nat \ {0}
      /\ column \in Nat \ {0} /\ "\n" \notin Blank
  BY ScanFacts DEF ScanInv, Blank
<1>2. CASE SkipBlank
  <2>1. /\ pc = "scan" /\ index \in DOMAIN text /\ text[index] \in Blank
        /\ index' = index + 1 /\ column' = column + 1
        /\ UNCHANGED <<pc, text, line, tokens, error>>
    BY <1>2 DEF SkipBlank, At
  <2>2. Here'.line = Here.line /\ Here'.column = Here.column + 1
    BY <2>1 DEF Here
  <2>3. \A m \in index .. index + 1 - 1 : text[m] # "\n"
    BY <1>1, <2>1
  <2>4. LocatedAt(text, index + 1, Here')
    BY <1>1, <2>2, <2>3, AlongTheLine
  <2> QED
    BY <1>1, <2>1, <2>4, BlankPassed
<1>3. CASE NewLine
  <2>1. /\ pc = "scan" /\ index \in DOMAIN text /\ text[index] = "\n"
        /\ index' = index + 1 /\ line' = line + 1 /\ column' = 1
        /\ UNCHANGED <<pc, text, tokens, error>>
    BY <1>3 DEF NewLine, At
  <2>2. Here'.line = Here.line + 1 /\ Here'.column = 1
    BY <2>1 DEF Here
  <2>3. LocatedAt(text, index + 1, Here')
    BY <1>1, <2>1, <2>2, ToTheNextLine
  <2> QED
    BY <1>1, <2>1, <2>3, BlankPassed
<1> QED
  BY <1>2, <1>3

-----------------------------------------------------------------------------
(* Before the scan                                                         *)
-----------------------------------------------------------------------------
(* Nothing is scanned yet, or ever.                                        *)
LEMMA Unscanned ==
    ASSUME call' \in Calls, text' \in Seq(STRING), pc' \in Before \cup {"scan", "refused"},
           index' = 1, line' = 1, column' = 1, tokens' = <<>>,
           pc' # "refused" => error' = NoError, error'.line = 0
    PROVE  ScanInv'
<1>1. /\ tokens' \in Seq(Token) /\ Len(tokens') = 0 /\ DOMAIN tokens' = {}
  OBVIOUS
<1>2. LocatedAt(text', 1, Here')
  BY FirstPlace DEF Here
<1>3. /\ Len(text') \in Nat /\ Len(tokens') <= MaxTokens /\ 1 \in 1 .. Len(text') + 1
  BY <1>1, TokenizerAssumption, LenProperties
<1>4. Ordered(text', tokens', 1) /\ Covered(text', tokens', 1) /\ Ends(tokens', FALSE)
  BY <1>1 DEF Ordered, Covered, Ends
<1>5. ErrorIsThere'
  BY DEF ErrorIsThere
<1>6. pc' # "tokens" /\ pc' \in Before \cup {"scan", "tokens", "refused"}
  BY DEF Before
<1>7. Ends(tokens', pc' = "tokens")
  BY <1>4, <1>6
<1>8. \A i \in DOMAIN tokens' : Sound(text', tokens'[i])
  BY <1>1
<1>9. /\ index' \in 1 .. Len(text') + 1 /\ line' \in Nat \ {0} /\ column' \in Nat \ {0}
      /\ LocatedAt(text', index', Here')
      /\ Ordered(text', tokens', index') /\ Covered(text', tokens', index')
  BY <1>2, <1>3, <1>4
<1> QED
  BY <1>1, <1>3, <1>5, <1>6, <1>7, <1>8, <1>9, Zenon DEF ScanInv

LEMMA ScanInit == Init => ScanInv
<1> SUFFICES ASSUME Init PROVE ScanInv
  OBVIOUS
<1>1. /\ call \in Calls /\ text = <<>> /\ pc = "arguments" /\ index = 1 /\ line = 1
      /\ column = 1 /\ tokens = <<>> /\ error = NoError
  BY DEF Init
<1>2. /\ tokens \in Seq(Token) /\ Len(tokens) = 0 /\ DOMAIN tokens = {}
      /\ text \in Seq(STRING) /\ Len(text) = 0
  BY <1>1
<1>3. LocatedAt(text, 1, Here)
  BY <1>1, FirstPlace DEF Here
<1>4. Ordered(text, tokens, 1) /\ Covered(text, tokens, 1) /\ Ends(tokens, FALSE)
  BY <1>2 DEF Ordered, Covered, Ends
<1>5. ErrorIsThere
  BY <1>1 DEF ErrorIsThere
<1>6. /\ pc # "tokens" /\ pc \in Before \cup {"scan", "tokens", "refused"}
      /\ index \in 1 .. Len(text) + 1 /\ line \in Nat \ {0} /\ column \in Nat \ {0}
      /\ Len(tokens) <= MaxTokens
  BY <1>1, <1>2, TokenizerAssumption DEF Before
<1>7. Ends(tokens, pc = "tokens")
  BY <1>4, <1>6
<1>8. /\ \A i \in DOMAIN tokens : Sound(text, tokens[i])
      /\ LocatedAt(text, index, Here) /\ Ordered(text, tokens, index)
      /\ Covered(text, tokens, index)
  BY <1>1, <1>2, <1>3, <1>4
<1> QED
  BY <1>1, <1>2, <1>5, <1>6, <1>7, <1>8, Zenon DEF ScanInv

LEMMA ScanStep == ScanInv /\ [Next]_vars => ScanInv'
<1> SUFFICES ASSUME ScanInv, [Next]_vars PROVE ScanInv'
  OBVIOUS
<1>1. CASE UNCHANGED vars
  BY <1>1 DEF ScanInv, vars, scan, Here, ErrorIsThere, Wrong
<1>2. CASE ParseArguments
  <2>1. /\ pc = "arguments" /\ pc' \in {"load", "usage"}
        /\ UNCHANGED <<call, text, index, line, column, tokens, error>>
    BY <1>2 DEF ParseArguments
  <2>2. error' = NoError /\ error'.line = 0
    BY <2>1 DEF ScanInv, NoError
  <2> QED
    BY <2>1, <2>2, Unscanned DEF ScanInv, Before
<1>3. CASE LoadSqlFile
  <2> DEFINE file == call.file
             bytes == SubSeq(file.bytes, 1, FirstRead(file))
  <2>1. /\ pc = "load" /\ UNCHANGED <<call, config, index, line, column, tokens>>
    BY <1>3 DEF LoadSqlFile
  <2>2. call' \in Calls /\ index' = 1 /\ line' = 1 /\ column' = 1 /\ tokens' = <<>>
        /\ error = NoError
    BY <2>1 DEF ScanInv, Before
  <2>3. \/ /\ pc' = "refused" /\ text' = text
           /\ \E message \in {"open", "read", "large"} : error' = [NoError EXCEPT !.message = message]
        \/ /\ pc' = "scan" /\ text' = UptoNul(bytes) /\ error' = error
    BY <1>3 DEF LoadSqlFile
  <2>4. error'.line = 0
    BY <2>2, <2>3 DEF NoError
  <2>5. text' \in Seq(STRING)
    <3>1. /\ file.bytes \in Seq(STRING) /\ file.readable \in 0 .. Len(file.bytes)
          /\ BufferMax \in Nat
      BY AppAssumption DEF ScanInv
    <3>2. Len(file.bytes) \in Nat
      BY <3>1, LenProperties
    <3> HIDE DEF file
    <3>3. FirstRead(file) \in 0 .. Len(file.bytes) /\ 1 \in 1 .. Len(file.bytes) + 1
      BY <3>1, <3>2 DEF FirstRead
    <3>4. bytes \in Seq(STRING)
      BY <3>1, <3>3, PieceProperties
    <3> HIDE DEF bytes
    <3>5. UptoNul(bytes) \in Seq(STRING)
      BY <3>4, UptoNulProperties
    <3> QED
      BY <2>3, <3>5 DEF ScanInv
  <2> QED
    BY <2>2, <2>3, <2>4, <2>5, Unscanned DEF Before
<1>4. CASE Scan
  BY <1>4, WordRead, NumberRead, StringRead, SymbolRead, EndReached, BlanksRead DEF Scan, Tokenize
<1> QED
  BY <1>1, <1>2, <1>3, <1>4 DEF Next

LEMMA ScanInvariant == Spec => []ScanInv
<1>1. Init => ScanInv
  BY ScanInit
<1>2. ScanInv /\ [Next]_vars => ScanInv'
  BY ScanStep
<1> QED
  BY <1>1, <1>2, PTL DEF Spec

-----------------------------------------------------------------------------
(* What the parser relies on                                               *)
-----------------------------------------------------------------------------
(* What tokenize_sql hands to parse_program: a list no longer than its     *)
(* array, each text short enough for its buffer, with the end marker as    *)
(* its last token and nowhere else.                                        *)
THEOREM TypeCorrect == Spec => []TypeOK
<1>1. ASSUME ScanInv PROVE TypeOK
  <2>1. \A i \in DOMAIN tokens :
          /\ tokens[i].type \in TokenType /\ Len(tokens[i].text) < MaxValueLen
          /\ tokens[i].type = "EOF" <=> pc = "tokens" /\ i = Len(tokens)
    <3> SUFFICES ASSUME NEW i \in DOMAIN tokens
                 PROVE  /\ tokens[i].type \in TokenType /\ Len(tokens[i].text) < MaxValueLen
                        /\ tokens[i].type = "EOF" <=> pc = "tokens" /\ i = Len(tokens)
      OBVIOUS
    <3>1. tokens[i].type \in TokenType
      BY <1>1, ScanFacts DEF Token
    <3>2. Len(tokens[i].text) < MaxValueLen
      BY <1>1 DEF ScanInv, Sound
    <3>3. tokens[i].type = "EOF" <=> pc = "tokens" /\ i = Len(tokens)
      BY <1>1 DEF ScanInv, Ends
    <3> QED
      BY <3>1, <3>2, <3>3
  <2>2. /\ pc \in {"arguments", "usage", "load", "scan", "tokens", "refused"}
        /\ index \in 1 .. Len(text) + 1 /\ line \in Nat \ {0} /\ column \in Nat \ {0}
        /\ Len(tokens) <= MaxTokens /\ (pc # "refused" => error = NoError)
    BY <1>1 DEF ScanInv, Before
  <2>3. pc = "tokens" => tokens # <<>>
    BY <1>1 DEF ScanInv, Ends
  <2> QED
    BY <2>1, <2>2, <2>3, Zenon DEF TypeOK
<1> QED
  BY <1>1, ScanInvariant, PTL

(* The tokens of tokenize_sql stand in the text at the line and the column *)
(* they carry, in order and apart from each other, and what lies between   *)
(* them is blank.                                                          *)
THEOREM TokensCorrect == Spec => []TokensCoverText
<1>1. ASSUME ScanInv PROVE TokensCoverText
  <2> USE ScanFacts
  <2> DEFINE place == [i \in DOMAIN tokens |-> Place(text, tokens[i])]
             extent == [i \in DOMAIN tokens |-> Extent(place[i], tokens[i])]
  <2>1. ASSUME NEW i \in DOMAIN tokens
        PROVE  /\ Sound(text, tokens[i]) /\ tokens[i] \in Token
               /\ place[i] = Place(text, tokens[i])
               /\ place[i] \in Nat \ {0} /\ Behind(text, tokens[i]) \in Nat
               /\ Behind(text, tokens[i]) <= index
               /\ extent[i] = place[i] .. Behind(text, tokens[i]) - 1
    <3>1. Sound(text, tokens[i]) /\ tokens[i] \in Token /\ text \in Seq(STRING)
      BY <1>1 DEF ScanInv
    <3>2. /\ Place(text, tokens[i]) \in Nat \ {0} /\ Len(tokens[i].text) \in Nat
          /\ Behind(text, tokens[i]) \in Nat
      BY <1>1, <3>1, BehindType DEF Sound
    <3>3. Behind(text, tokens[i]) <= index
      BY <1>1 DEF ScanInv, Ordered
    <3>4. extent[i] = place[i] .. Behind(text, tokens[i]) - 1
      BY <3>2 DEF Extent, Behind
    <3> QED
      BY <3>1, <3>2, <3>3, <3>4
  <2>2. ASSUME NEW i \in DOMAIN tokens
        PROVE  /\ LocatedAt(text, place[i], tokens[i]) /\ Written(text, place[i], tokens[i])
               /\ extent[i] \subseteq 1 .. index - 1
    <3>1. LocatedAt(text, place[i], tokens[i]) /\ Written(text, place[i], tokens[i])
      BY <2>1 DEF Sound
    <3>2. extent[i] \subseteq 1 .. index - 1
      <4> DEFINE a == place[i]
                 b == Behind(text, tokens[i])
      <4>1. /\ a \in Nat \ {0} /\ b \in Nat /\ b <= index /\ extent[i] = a .. b - 1
            /\ index \in Nat
        BY <1>1, <2>1
      <4> HIDE DEF a, b, extent
      <4> QED
        BY <4>1
    <3> QED
      BY <3>1, <3>2
  <2>3. ASSUME NEW i \in DOMAIN tokens, i > 1
        PROVE  place[i] > place[i - 1] /\ extent[i] \cap extent[i - 1] = {}
    <3>1. i - 1 \in DOMAIN tokens /\ i \in 1 .. Len(tokens) /\ i - 1 # Len(tokens)
      BY <1>1, <2>3
    <3>2. tokens[i - 1].type # "EOF"
      BY <1>1, <3>1 DEF ScanInv, Ends
    <3> DEFINE a == place[i - 1]
               b == Behind(text, tokens[i - 1])
               c == place[i]
               d == Behind(text, tokens[i])
    <3>3. /\ a \in Nat /\ b \in Nat /\ extent[i - 1] = a .. b - 1 /\ a < b
      BY <2>1, <3>1, <3>2 DEF Sound
    <3>4. c \in Nat /\ d \in Nat /\ extent[i] = c .. d - 1
      BY <2>1
    <3>5. b <= c
      BY <1>1, <2>1, <2>3 DEF ScanInv, Ordered
    <3> HIDE DEF a, b, c, d, extent
    <3>6. c > a /\ extent[i] \cap extent[i - 1] = {}
      BY <3>3, <3>4, <3>5
    <3> QED
      BY <3>6 DEF a, c
  <2>4. ASSUME NEW k \in 1 .. index - 1
        PROVE  text[k] \in Blank \cup {"\n"} \/ \E i \in DOMAIN tokens : k \in extent[i]
    BY <1>1 DEF ScanInv, Covered
  <2> QED
    BY <2>2, <2>3, <2>4 DEF TokensCoverText
<1> QED
  BY <1>1, ScanInvariant, PTL

(* The type of every token of tokenize_sql is what its text says, and no   *)
(* token is a part of a longer word or number.                             *)
THEOREM TypesCorrect == Spec => []TypesFromText
<1>1. ScanInv => TypesFromText
  BY DEF ScanInv, Sound, TypesFromText
<1> QED
  BY <1>1, ScanInvariant, PTL

(* When tokenize_sql refuses a text, what it says is wrong is what is      *)
(* found at the line and the column it names.                              *)
THEOREM ErrorsCorrect == Spec => []ErrorIsThere
<1>1. ScanInv => ErrorIsThere
  BY DEF ScanInv
<1> QED
  BY <1>1, ScanInvariant, PTL

-----------------------------------------------------------------------------
(* The file and the directories                                            *)
-----------------------------------------------------------------------------
(* The scan only reads the text.                                           *)
LEMMA ScanReads ==
    ASSUME Scan
    PROVE  /\ pc = "scan" /\ pc' \in {"scan", "tokens", "refused"}
           /\ UNCHANGED <<text, call, config>>
<1> USE DEF Fail, FailAt, Appended, AppendToken
<1>1. CASE SkipBlank \/ NewLine
  BY <1>1 DEF SkipBlank, NewLine, At, Scan
<1>2. CASE ReadWord
  BY <1>2 DEF ReadWord, At, Scan
<1>3. CASE ReadNumber
  BY <1>3 DEF ReadNumber, AtNumber, At, Scan
<1>4. CASE ReadString
  BY <1>4 DEF ReadString, At, Scan
<1>5. CASE ReadSymbol
  BY <1>5 DEF ReadSymbol, Scan
<1>6. CASE EndOfText
  BY <1>6 DEF EndOfText, Scan
<1> QED
  BY <1>1, <1>2, <1>3, <1>4, <1>5, <1>6 DEF Scan, Tokenize

(* A piece from the start of a sequence, known by its elements.            *)
LEMMA PrefixByElements ==
    ASSUME NEW s \in Seq(STRING), NEW t \in Seq(STRING), Len(s) <= Len(t),
           \A i \in 1 .. Len(s) : s[i] = t[i]
    PROVE  IsPrefix(s, t)
<1>1. Len(s) \in Nat /\ Len(t) \in Nat
  BY LenProperties
<1>2. 1 \in 1 .. Len(t) + 1 /\ 1 + Len(s) - 1 = Len(s) /\ 1 \in 1 .. Len(s) + 1
  BY <1>1
<1>3. s = SubSeq(t, 1, Len(s))
  <2>1. \A i \in 1 .. Len(s) : s[i] = t[1 + i - 1]
    BY <1>1
  <2>2. s = SubSeq(t, 1, 1 + Len(s) - 1)
    BY <1>1, <1>2, <2>1, SamePiece
  <2> QED
    BY <1>2, <2>2
<1>4. s = SubSeq(s, 1, Len(s))
  <2>1. \A i \in 1 .. Len(s) : s[i] = s[1 + i - 1]
    BY <1>1
  <2>2. s = SubSeq(s, 1, 1 + Len(s) - 1)
    BY <1>1, <1>2, <2>1, SamePiece
  <2> QED
    BY <1>2, <2>2
<1> QED
  BY <1>3, <1>4 DEF IsPrefix

(* What load_sql_file takes from a file that it does not refuse.           *)
LEMMA LoadedText ==
    ASSUME NEW file, file.bytes \in Seq(STRING), file.readable \in 0 .. Len(file.bytes),
           ~ReadFails(file), ~TooLarge(file)
    PROVE  LET t == UptoNul(SubSeq(file.bytes, 1, FirstRead(file))) IN
           /\ IsPrefix(t, file.bytes)
           /\ \/ Len(t) = Len(file.bytes)
              \/ file.bytes[Len(t) + 1] = Nul
              \/ Len(t) = BufferMax /\ file.readable = BufferMax
<1> DEFINE bytes == file.bytes
           n == FirstRead(file)
           read == SubSeq(bytes, 1, n)
           t == UptoNul(read)
<1>1. /\ Len(bytes) \in Nat /\ BufferMax \in Nat /\ file.readable \in Nat
      /\ file.readable <= Len(bytes)
  BY LenProperties, AppAssumption
<1>2. /\ n \in 0 .. Len(bytes)
      /\ n = Len(bytes) \/ (n = BufferMax /\ file.readable = BufferMax)
  BY <1>1 DEF FirstRead, ReadFails, TooLarge
<1> HIDE DEF n
<1>3. 1 \in 1 .. Len(bytes) + 1 /\ n \in 1 - 1 .. Len(bytes)
  BY <1>1, <1>2
<1>4. /\ read \in Seq(STRING) /\ Len(read) = n
      /\ \A i \in 1 .. n : read[i] = bytes[i]
  <2>1. /\ read \in Seq(STRING) /\ Len(read) = n - 1 + 1
        /\ \A i \in 1 .. n - 1 + 1 : read[i] = bytes[1 + i - 1]
    BY <1>3, PieceProperties
  <2> HIDE DEF read
  <2> QED
    BY <1>1, <1>2, <2>1
<1> HIDE DEF read
<1>5. /\ t \in Seq(STRING) /\ Len(t) \in 0 .. n
      /\ \A i \in 1 .. Len(t) : t[i] = read[i]
      /\ Len(t) < n => read[Len(t) + 1] = Nul
  BY <1>4, UptoNulProperties
<1> HIDE DEF t
<1>6. IsPrefix(t, bytes)
  <2>1. Len(t) <= Len(bytes) /\ \A i \in 1 .. Len(t) : t[i] = bytes[i]
    BY <1>1, <1>2, <1>4, <1>5
  <2> QED
    BY <1>5, <2>1, PrefixByElements
<1>7. \/ Len(t) = Len(bytes)
      \/ bytes[Len(t) + 1] = Nul
      \/ Len(t) = BufferMax /\ file.readable = BufferMax
  BY <1>1, <1>2, <1>4, <1>5
<1> QED
  BY <1>6, <1>7 DEF t, read, n

(* load_sql_file hands over the whole file, but for what stands behind a   *)
(* NUL and behind a read error at the very end of the buffer.              *)
THEOREM WholeFile == Spec => []WholeFileLoaded
<1>1. Init => WholeFileLoaded
  BY DEF Init, WholeFileLoaded
<1>2. ASSUME ScanInv, WholeFileLoaded, [Next]_vars PROVE WholeFileLoaded'
  <2>1. CASE UNCHANGED vars
    BY <1>2, <2>1 DEF vars, scan, WholeFileLoaded
  <2>2. CASE ParseArguments
    BY <2>2 DEF ParseArguments, WholeFileLoaded
  <2>3. CASE LoadSqlFile
    <3> DEFINE file == call.file
    <3>1. /\ call' = call /\ call \in Calls
      BY <1>2, <2>3 DEF LoadSqlFile, ScanInv
    <3>2. \/ pc' = "refused"
          \/ /\ file.exists /\ ~ReadFails(file) /\ ~TooLarge(file)
             /\ text' = UptoNul(SubSeq(file.bytes, 1, FirstRead(file)))
      <4>1. file.exists \in BOOLEAN
        BY <3>1, AppAssumption
      <4> QED
        BY <2>3, <4>1 DEF LoadSqlFile
    <3>3. file.bytes \in Seq(STRING) /\ file.readable \in 0 .. Len(file.bytes)
      BY <3>1, AppAssumption
    <3> HIDE DEF file
    <3>4. CASE pc' = "refused"
      BY <3>4 DEF WholeFileLoaded
    <3>5. CASE /\ file.exists /\ ~ReadFails(file) /\ ~TooLarge(file)
               /\ text' = UptoNul(SubSeq(file.bytes, 1, FirstRead(file)))
      <4>1. /\ IsPrefix(text', file.bytes)
            /\ \/ Len(text') = Len(file.bytes)
               \/ file.bytes[Len(text') + 1] = Nul
               \/ Len(text') = BufferMax /\ file.readable = BufferMax
        BY <3>3, <3>5, LoadedText
      <4>2. file = call'.file
        BY <3>1 DEF file
      <4> QED
        BY <3>5, <4>1, <4>2 DEF WholeFileLoaded
    <3> QED
      BY <3>2, <3>4, <3>5
  <2>4. CASE Scan
    <3>1. pc = "scan" /\ text' = text /\ call' = call
      BY <2>4, ScanReads
    <3> QED
      BY <1>2, <3>1 DEF WholeFileLoaded
  <2> QED
    BY <1>2, <2>1, <2>2, <2>3, <2>4 DEF Next
<1> QED
  BY <1>1, <1>2, ScanInvariant, PTL DEF Spec

LEMMA CutProperties ==
    ASSUME NEW path \in Seq(STRING)
    PROVE  /\ IsPrefix(Cut(path), path)
           /\ Len(path) <= PathMax => Cut(path) = path
           /\ Cut(path) # <<>> <=> Len(path) > 0 /\ PathMax > 0
           /\ Cut(path) # <<>> => path # <<>>
<1> DEFINE n == IF Len(path) < PathMax THEN Len(path) ELSE PathMax
           piece == SubSeq(path, 1, n)
<1>1. Len(path) \in Nat /\ PathMax \in Nat /\ (path = <<>> <=> Len(path) = 0)
  BY LenProperties, EmptySeq, AppAssumption
<1>2. /\ n \in 0 .. Len(path) /\ (Len(path) <= PathMax => n = Len(path))
      /\ n > 0 <=> Len(path) > 0 /\ PathMax > 0
  BY <1>1
<1>3. Cut(path) = piece
  BY DEF Cut
<1> HIDE DEF n
<1>4. /\ piece \in Seq(STRING) /\ Len(piece) = n
      /\ \A i \in 1 .. n : piece[i] = path[i]
  <2>1. 1 \in 1 .. Len(path) + 1 /\ n \in 1 - 1 .. Len(path)
    BY <1>1, <1>2
  <2>2. /\ piece \in Seq(STRING) /\ Len(piece) = n - 1 + 1
        /\ \A i \in 1 .. n - 1 + 1 : piece[i] = path[1 + i - 1]
    BY <2>1, PieceProperties
  <2> HIDE DEF piece
  <2> QED
    BY <1>1, <1>2, <2>2
<1> HIDE DEF piece
<1>5. IsPrefix(piece, path)
  <2>1. Len(piece) <= Len(path) /\ \A i \in 1 .. Len(piece) : piece[i] = path[i]
    BY <1>1, <1>2, <1>4
  <2> QED
    BY <1>4, <2>1, PrefixByElements
<1>6. Len(path) <= PathMax => piece = path
  BY <1>2, <1>4, SeqEqual
<1>7. piece # <<>> <=> n > 0
  BY <1>1, <1>2, <1>4, EmptySeq
<1> QED
  BY <1>1, <1>2, <1>3, <1>5, <1>6, <1>7

(* The value of an option is a cut of the argument behind it.              *)
LEMMA ValueProperties ==
    ASSUME NEW argv, NEW option
    PROVE  /\ ValueOf(argv, option) # <<>> =>
                \E i \in {1, 3} : argv[i] = option /\ ValueOf(argv, option) = Cut(argv[i + 1])
           /\ argv[3] = option => ValueOf(argv, option) = Cut(argv[4])
           /\ argv[1] = option /\ argv[3] # option => ValueOf(argv, option) = Cut(argv[2])
<1> DEFINE given == {i \in {1, 3} : argv[i] = option}
<1>1. CASE argv[3] = option
  <2>1. 3 \in given
    BY <1>1
  <2>2. ValueOf(argv, option) = Cut(argv[4])
    BY <2>1 DEF ValueOf
  <2> QED
    BY <1>1, <2>2
<1>2. CASE argv[1] = option /\ argv[3] # option
  <2>1. 3 \notin given /\ given = {1}
    BY <1>2
  <2>2. ValueOf(argv, option) = Cut(argv[2])
    BY <2>1 DEF ValueOf
  <2> QED
    BY <1>2, <2>2
<1>3. CASE argv[1] # option /\ argv[3] # option
  <2>1. given = {}
    BY <1>3
  <2>2. ValueOf(argv, option) = <<>>
    BY <2>1 DEF ValueOf
  <2> QED
    BY <1>3, <2>2
<1> QED
  BY <1>1, <1>2, <1>3

Complete(argv) ==
    /\ Len(argv) = 5
    /\ {argv[1], argv[3]} = {SchemaDir, DataDir}
    /\ Len(argv[2]) > 0 /\ Len(argv[4]) > 0 /\ PathMax > 0

LEMMA AcceptedProperties ==
    ASSUME NEW argv \in Seq(Seq(STRING))
    PROVE  /\ Complete(argv) => Accepted(argv)
           /\ Accepted(argv) => Len(argv) = 5 /\ {argv[1], argv[3]} = {SchemaDir, DataDir}
           /\ Accepted(argv) =>
                \A option \in {SchemaDir, DataDir} :
                    \E i \in {1, 3} :
                        /\ argv[i] = option /\ argv[i + 1] # <<>>
                        /\ IsPrefix(ValueOf(argv, option), argv[i + 1])
                        /\ Len(argv[i + 1]) <= PathMax => ValueOf(argv, option) = argv[i + 1]
<1>1. SchemaDir # DataDir
  BY DEF SchemaDir, DataDir
<1>2. Len(argv) = 5 => \A i \in 1 .. 5 : argv[i] \in Seq(STRING)
  BY ElementOfSeq
<1>3. ASSUME Complete(argv) PROVE Accepted(argv)
  <2>1. Cut(argv[2]) # <<>> /\ Cut(argv[4]) # <<>>
    BY <1>2, <1>3, CutProperties DEF Complete
  <2>2. \/ argv[1] = SchemaDir /\ argv[3] = DataDir
        \/ argv[1] = DataDir /\ argv[3] = SchemaDir
    BY <1>3 DEF Complete
  <2>3. ValueOf(argv, SchemaDir) # <<>> /\ ValueOf(argv, DataDir) # <<>>
    BY <1>1, <2>1, <2>2, ValueProperties
  <2> QED
    BY <1>3, <2>3 DEF Complete, Accepted, OptionsKnown
<1>4. ASSUME Accepted(argv), NEW option \in {SchemaDir, DataDir}
      PROVE  \E i \in {1, 3} :
               /\ argv[i] = option /\ argv[i + 1] # <<>>
               /\ IsPrefix(ValueOf(argv, option), argv[i + 1])
               /\ Len(argv[i + 1]) <= PathMax => ValueOf(argv, option) = argv[i + 1]
  <2>1. ValueOf(argv, option) # <<>> /\ Len(argv) = 5
    BY <1>4 DEF Accepted, OptionsKnown
  <2>2. PICK i \in {1, 3} : argv[i] = option /\ ValueOf(argv, option) = Cut(argv[i + 1])
    BY <2>1, ValueProperties
  <2>3. i + 1 \in 1 .. 5
    BY <2>2
  <2> DEFINE value == argv[i + 1]
  <2>4. value \in Seq(STRING)
    BY <1>2, <2>1, <2>3
  <2> HIDE DEF value
  <2>5. /\ value # <<>> /\ IsPrefix(Cut(value), value)
        /\ Len(value) <= PathMax => Cut(value) = value
    BY <2>1, <2>2, <2>4, CutProperties DEF value
  <2> QED
    BY <2>2, <2>5 DEF value
<1>5. ASSUME Accepted(argv) PROVE Len(argv) = 5 /\ {argv[1], argv[3]} = {SchemaDir, DataDir}
  <2>1. Len(argv) = 5 /\ {argv[1], argv[3]} \subseteq {SchemaDir, DataDir}
    BY <1>5 DEF Accepted, OptionsKnown
  <2>2. /\ \E i \in {1, 3} : argv[i] = SchemaDir
        /\ \E i \in {1, 3} : argv[i] = DataDir
    BY <1>4, <1>5
  <2> QED
    BY <2>1, <2>2
<1> QED
  BY <1>3, <1>4, <1>5

(* parse_arguments goes on only with both directories, each the value of   *)
(* its option, cut to its buffer, and it refuses no call that gives both.  *)
THEOREM Directories == Spec => []BothDirectories
<1>1. Init => BothDirectories
  BY DEF Init, BothDirectories
<1>2. ASSUME ScanInv, BothDirectories, [Next]_vars PROVE BothDirectories'
  <2>1. CASE UNCHANGED vars
    BY <1>2, <2>1 DEF vars, scan, BothDirectories
  <2>2. CASE ParseArguments
    <3> DEFINE argv == call.argv
    <3>1. call' = call /\ argv \in Seq(Seq(STRING)) /\ call'.argv = argv
      BY <1>2, <2>2, AppAssumption DEF ParseArguments, ScanInv
    <3>2. \/ /\ Accepted(argv) /\ pc' = "load"
             /\ config'.schema_dir = ValueOf(argv, SchemaDir)
             /\ config'.data_dir = ValueOf(argv, DataDir)
          \/ ~Accepted(argv) /\ pc' = "usage"
      BY <2>2 DEF ParseArguments
    <3> HIDE DEF argv
    <3>3. CASE ~Accepted(argv) /\ pc' = "usage"
      BY <3>1, <3>3, AcceptedProperties DEF BothDirectories, Complete
    <3>4. CASE /\ Accepted(argv) /\ pc' = "load"
               /\ config'.schema_dir = ValueOf(argv, SchemaDir)
               /\ config'.data_dir = ValueOf(argv, DataDir)
      <4> DEFINE Given(option, dir) ==
                   \E i \in {1, 3} : /\ argv[i] = option /\ argv[i + 1] # <<>>
                                     /\ IsPrefix(dir, argv[i + 1])
                                     /\ Len(argv[i + 1]) <= PathMax => dir = argv[i + 1]
      <4>1. \A option \in {SchemaDir, DataDir} : Given(option, ValueOf(argv, option))
        BY <3>1, <3>4, AcceptedProperties
      <4>2. Given(SchemaDir, ValueOf(argv, SchemaDir)) /\ Given(DataDir, ValueOf(argv, DataDir))
        BY <4>1
      <4> HIDE DEF Given
      <4>3. Given(SchemaDir, config'.schema_dir) /\ Given(DataDir, config'.data_dir)
        BY <3>4, <4>2
      <4>4. Len(argv) = 5 /\ {argv[1], argv[3]} = {SchemaDir, DataDir}
        BY <3>1, <3>4, AcceptedProperties
      <4> QED
        BY <3>1, <3>4, <4>3, <4>4 DEF BothDirectories, Given
    <3> QED
      BY <3>2, <3>3, <3>4
  <2>3. CASE LoadSqlFile
    <3>1. pc = "load" /\ pc' \in {"refused", "scan"} /\ UNCHANGED <<call, config>>
      BY <2>3 DEF LoadSqlFile
    <3> QED
      BY <1>2, <3>1 DEF BothDirectories
  <2>4. CASE Scan
    <3>1. pc = "scan" /\ pc' \in {"scan", "tokens", "refused"} /\ UNCHANGED <<call, config>>
      BY <2>4, ScanReads
    <3> QED
      BY <1>2, <3>1 DEF BothDirectories
  <2> QED
    BY <1>2, <2>1, <2>2, <2>3, <2>4 DEF Next
<1> QED
  BY <1>1, <1>2, ScanInvariant, PTL DEF Spec
=============================================================================
