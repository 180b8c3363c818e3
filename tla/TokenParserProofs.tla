------------------------- MODULE TokenParserProofs -------------------------
(***************************************************************************)
(* Proofs about the lexer and the window of tokens, Lexer and TokenParser. *)
(* The first part is about the operators the lexer is made of: where its   *)
(* loops stop, that counting lines and columns on from a place agrees with *)
(* counting them from the start, and which kinds of token the operators    *)
(* have.  The second part is the invariant of the lexer, one lemma for     *)
(* each action; the third that of the window.                              *)
(***************************************************************************)
EXTENDS TokenParser, FiniteSetTheorems, SequenceTheorems, WellFoundedInduction, TLAPS

(* A set of natural numbers has a least element. *)
LEMMA NatLeast ==
  ASSUME NEW T, T \subseteq Nat, T # {}
  PROVE  \E x \in T : \A y \in T : x <= y
<1>1. PICK x \in T : \A y \in T : ~ (<<y, x>> \in OpToRel(<, Nat))
  BY NatLessThanWellFounded, WFMin
<1>2. \A y \in T : ~ (<<y, x>> \in {ss \in Nat \X Nat : ss[1] < ss[2]})
  BY <1>1 DEF OpToRel
<1>3. ASSUME NEW y \in T PROVE x <= y
  <2>1. x \in Nat /\ y \in Nat
    OBVIOUS
  <2>2. y < x => <<y, x>> \in {ss \in Nat \X Nat : ss[1] < ss[2]}
    BY <2>1
  <2> QED
    BY <1>2, <2>1, <2>2
<1> QED
  BY <1>3

LEMMA MinIs ==
  ASSUME NEW T, T \subseteq Nat, T # {}
  PROVE  Min(T) \in T /\ \A y \in T : Min(T) <= y
<1>1. \E x \in T : \A y \in T : x <= y
  BY NatLeast
<1> QED
  BY <1>1, Zenon DEF Min

(* So has a bounded one a greatest, the one Max chooses. *)
LEMMA MaxIs ==
  ASSUME NEW n \in Nat, NEW T, T \subseteq 0 .. n, T # {}
  PROVE  Max(T) \in T /\ \A y \in T : Max(T) >= y
<1> DEFINE U == {n - x : x \in T}
<1>1. U \subseteq Nat /\ U # {}
  <2>1. \A x \in T : n - x \in Nat
    OBVIOUS
  <2> QED
    BY <2>1, Zenon
<1>2. PICK u \in U : \A y \in U : u <= y
  BY <1>1, NatLeast
<1>3. PICK x \in T : u = n - x
  BY <1>2
<1>4. ASSUME NEW y \in T PROVE x >= y
  <2>1. n - y \in U
    OBVIOUS
  <2>2. n - x <= n - y
    BY <1>2, <1>3, <2>1
  <2> QED
    BY <2>2
<1>5. \E z \in T : \A y \in T : z >= y
  BY <1>4
<1> QED
  BY <1>5, Zenon DEF Max

-----------------------------------------------------------------------------
(* A text is a sequence. *)
IsText == text \in Seq({text[k] : k \in DOMAIN text})

LEMMA TextLen ==
  ASSUME IsText
  PROVE  Len(text) \in Nat /\ DOMAIN text = 1 .. Len(text)
<1>1. \A S : text \in Seq(S) => Len(text) \in Nat /\ DOMAIN text = 1 .. Len(text)
  OBVIOUS
<1> QED
  BY <1>1, Zenon DEF IsText

(* Lexer_eatWhile and Lexer_eatUntilAnyOf stop in the text, at or behind the
   place a they start from. *)
LEMMA EatBounds ==
  ASSUME IsText, NEW a \in Nat, a <= Len(text), NEW i \in Nat, a <= i, NEW S
  PROVE  EatWhile(i, S) \in a .. Len(text) /\ EatUntil(i, S) \in a .. Len(text)
<1>1. Len(text) \in Nat
  BY TextLen
<1>2. EatWhile(i, S) \in a .. Len(text)
  <2> DEFINE T == {Len(text)} \cup {j \in i .. Len(text) - 1 : text[j + 1] \notin S}
  <2>1. T \subseteq a .. Len(text) /\ T # {} /\ T \subseteq Nat
    BY <1>1
  <2>2. EatWhile(i, S) = Min(T)
    BY DEF EatWhile
  <2> HIDE DEF T
  <2> QED
    BY <2>1, <2>2, MinIs
<1>3. EatUntil(i, S) \in a .. Len(text)
  <2> DEFINE T == {Len(text)} \cup {j \in i .. Len(text) - 1 : text[j + 1] \in S}
  <2>1. T \subseteq a .. Len(text) /\ T # {} /\ T \subseteq Nat
    BY <1>1
  <2>2. EatUntil(i, S) = Min(T)
    BY DEF EatUntil
  <2> HIDE DEF T
  <2> QED
    BY <2>1, <2>2, MinIs
<1> QED
  BY <1>2, <1>3

LEMMA ClipBounds ==
  ASSUME IsText, NEW a \in Nat, a <= Len(text), NEW j \in Nat, a <= j
  PROVE  Clip(j) \in a .. Len(text) /\ Clip(j) <= j /\ Clip(Clip(j)) = Clip(j)
BY TextLen DEF Clip

Places == [line : Nat, column : Int]

Newlines(i, j) == {k \in i .. j - 1 : At(k) = "\n"}

LEMMA NewlinesFinite ==
  ASSUME NEW i \in Nat, NEW j \in Nat
  PROVE  /\ IsFiniteSet(Newlines(i, j)) /\ Cardinality(Newlines(i, j)) \in Nat
         /\ Newlines(i, j) \subseteq i .. j - 1
         /\ Newlines(i, j) # {} => Max(Newlines(i, j)) \in Newlines(i, j)
                                   /\ \A y \in Newlines(i, j) : Max(Newlines(i, j)) >= y
<1>1. IsFiniteSet(i .. j - 1)
  BY FS_Interval
<1>2. Newlines(i, j) \subseteq i .. j - 1
  BY DEF Newlines
<1>3. IsFiniteSet(Newlines(i, j)) /\ Cardinality(Newlines(i, j)) \in Nat
  BY <1>1, <1>2, FS_Subset, FS_CardinalityType
<1>4. Newlines(i, j) \subseteq 0 .. j
  BY <1>2
<1> QED
  BY <1>2, <1>3, <1>4, MaxIs

LEMMA CoordinatesType ==
  ASSUME NEW i \in Nat
  PROVE  Coordinates(i) \in Places
<1> DEFINE N == Newlines(0, i)
<1>1. Cardinality(N) \in Nat /\ (N # {} => Max(N) \in Int)
  BY NewlinesFinite
<1>2. Coordinates(i) = [line |-> Cardinality(N), column |-> IF N = {} THEN i ELSE i - 1 - Max(N)]
  BY Zenon DEF Coordinates, Newlines
<1> HIDE DEF N
<1> QED
  BY <1>1, <1>2 DEF Places

(* Lexer_updatePos over the characters from i up to j counts on from the
   coordinates of i what Range_sub counts from the start of the text. *)
LEMMA UpdateIsCoordinates ==
  ASSUME NEW i \in Nat, NEW j \in Nat, i <= j
  PROVE  Lexer_updatePos(Coordinates(i), i, j) = Coordinates(j)
<1> DEFINE N == Newlines(0, i)
           M == Newlines(i, j)
           O == Newlines(0, j)
<1>1. /\ IsFiniteSet(N) /\ Cardinality(N) \in Nat /\ N \subseteq 0 .. i - 1
      /\ N # {} => Max(N) \in N /\ \A y \in N : Max(N) >= y
  BY NewlinesFinite
<1>2. /\ IsFiniteSet(M) /\ Cardinality(M) \in Nat /\ M \subseteq i .. j - 1
      /\ M # {} => Max(M) \in M /\ \A y \in M : Max(M) >= y
  BY NewlinesFinite
<1>3. O # {} => Max(O) \in O /\ \A y \in O : Max(O) >= y
  BY NewlinesFinite
<1>4. O = N \cup M /\ N \cap M = {}
  BY DEF Newlines
<1>5. Coordinates(i).line = Cardinality(N)
      /\ Coordinates(i).column = IF N = {} THEN i ELSE i - 1 - Max(N)
  BY Zenon DEF Coordinates, Newlines
<1>6. Coordinates(j) = [line |-> Cardinality(O), column |-> IF O = {} THEN j ELSE j - 1 - Max(O)]
  BY Zenon DEF Coordinates, Newlines
<1>7. Lexer_updatePos(Coordinates(i), i, j) =
        [line |-> Coordinates(i).line + Cardinality(M),
         column |-> IF M = {} THEN Coordinates(i).column + (j - i) ELSE j - 1 - Max(M)]
  BY Zenon DEF Lexer_updatePos, Newlines
<1> HIDE DEF N, M, O
<1>8. N \subseteq Int /\ M \subseteq Int
  <2>1. 0 .. i - 1 \subseteq Int /\ i .. j - 1 \subseteq Int
    OBVIOUS
  <2> QED
    BY <1>1, <1>2, <2>1, Zenon
<1>9. Cardinality(O) = Cardinality(N) + Cardinality(M)
  <2>1. Cardinality(N \cap M) = 0
    BY <1>4, FS_EmptySet
  <2>2. Cardinality(N \cup M) = Cardinality(N) + Cardinality(M) - Cardinality(N \cap M)
    BY <1>1, <1>2, FS_Union
  <2> QED
    BY <1>1, <1>2, <1>4, <2>1, <2>2
<1>10. (IF O = {} THEN j ELSE j - 1 - Max(O)) =
      IF M = {} THEN Coordinates(i).column + (j - i) ELSE j - 1 - Max(M)
  <2>1. CASE M = {}
    <3>1. O = N
      BY <1>4, <2>1
    <3>2. CASE N = {}
      BY <1>5, <2>1, <3>1, <3>2
    <3>3. CASE N # {}
      <4>1. Max(N) \in Int
        BY <1>1, <1>8, <3>3, Zenon
      <4>2. Coordinates(i).column = i - 1 - Max(N)
        BY <1>5, <3>3, Zenon
      <4>3. Coordinates(i).column + (j - i) = j - 1 - Max(N)
        BY <4>1, <4>2
      <4> QED
        BY <2>1, <3>1, <3>3, <4>3, Zenon
    <3> QED
      BY <3>2, <3>3
  <2>2. CASE M # {}
    <3>1. O # {} /\ Max(M) \in O /\ Max(M) \in i .. j - 1 /\ Max(O) \in N \cup M
      BY <1>2, <1>3, <1>4, <2>2
    <3>2. Max(O) >= Max(M) /\ Max(O) \in Int
      <4>1. Max(O) >= Max(M)
        BY <1>3, <3>1, Zenon
      <4> QED
        BY <1>8, <3>1, <4>1, Zenon
    <3>3. Max(O) \in M
      BY <1>1, <3>1, <3>2
    <3>4. Max(M) >= Max(O)
      BY <1>2, <2>2, <3>3
    <3>5. Max(M) = Max(O)
      BY <3>1, <3>2, <3>4
    <3> QED
      BY <2>2, <3>1, <3>5, Zenon
  <2> QED
    BY <2>1, <2>2
<1> QED
  BY <1>5, <1>6, <1>7, <1>9, <1>10

-----------------------------------------------------------------------------
(* The kinds that mean something to the lexer or to the window. *)
Special == {"COUNT", "LStrExpr", "RStrExpr", "Nl"}
SingleKinds ==
  {"Mod", "Div", "Mult", "Plus", "Minus", "BitOr", "BitAnd", "Complement", "Gt", "Lt", "Assign",
   "Dot", "Colon", "Not", "LBrace", "RBrace", "LBracket", "RBracket", "LParen", "RParen", "At",
   "Hash", "Question", "Backquote", "Semicolon", "Comma", "Dollar", "BackSlash"}

LiteralKinds == {"Integer", "Float", "Comment", "Char", "String", "Keyword", "Identifier"}

(* All the others. *)
Ordinary ==
  SingleKinds \cup {op[2] : op \in Operator2} \cup {op[2] : op \in Operator3} \cup LiteralKinds

LEMMA OperatorKinds ==
  /\ \A op \in Operator1 : op[2] \in Ordinary
  /\ \A op \in Operator2 : op[2] \in Ordinary
  /\ \A op \in Operator3 : op[2] \in Ordinary
<1>1. \A op \in Operator1 : \E a : \E b \in SingleKinds : op = <<a, b>>
  BY Zenon DEF Operator1, SingleKinds
<1>2. \A op \in Operator1 : op[2] \in SingleKinds
  BY <1>1
<1> QED
  BY <1>2, Zenon DEF Ordinary

LEMMA OrdinaryNotSpecial == \A k \in Ordinary : k \notin Special
<1>1. \A k \in SingleKinds : k \notin Special
  BY DEF SingleKinds, Special
<1>2. \A op \in Operator2 : op[2] \notin Special
  BY DEF Operator2, Special
<1>3. \A op \in Operator3 : op[2] \notin Special
  BY DEF Operator3, Special
<1>4. \A k \in LiteralKinds : k \notin Special
  BY DEF LiteralKinds, Special
<1> QED
  BY <1>1, <1>2, <1>3, <1>4, Zenon DEF Ordinary

(* The longest operators have three characters of the text. *)
LEMMA Operator3InText ==
  ASSUME IsText, idx \in Nat, NEW op \in Operator3, op[1] = <<Peek(0), Peek(1), Peek(2)>>
  PROVE  idx + 2 < Len(text)
<1>1. Peek(2) \in {"=", "."}
  BY DEF Operator3
<1>2. Peek(2) # EOF
  BY <1>1 DEF EOF
<1> QED
  BY <1>2, TextLen DEF Peek, At

-----------------------------------------------------------------------------
(* A number that starts at i ends in the text, at or behind i, and a number
   that is not malformed has one of two kinds. *)
Ends(n, i) ==
  n.to \in i .. Len(text) /\ (n.bad \/ n.kind \in {"Integer", "Float"})

LEMMA IntegerEnds ==
  ASSUME NEW i, NEW from, NEW to \in i .. Len(text)
  PROVE  Ends(Lexer_parseInteger(from, to), i)
BY DEF Ends, Lexer_parseInteger

LEMMA BadEnds ==
  ASSUME NEW i, NEW to \in i .. Len(text)
  PROVE  Ends(BadNumber(to), i)
BY DEF Ends, BadNumber

LEMMA FloatEnds ==
  ASSUME IsText, NEW i \in Nat, i <= Len(text), NEW j \in Nat, i <= j
  PROVE  Ends(Lexer_tokFloatingPoint(j), i)
<1> DEFINE isExp == At(j) # "."
           first == IF isExp /\ At(j + 1) \in {"-", "+"} THEN j + 2 ELSE j + 1
           to == EatWhile(first, Digit)
<1>1. first \in Nat /\ i <= first
  OBVIOUS
<1> HIDE DEF first
<1>2. to \in i .. Len(text)
  BY <1>1, EatBounds
<1>3. Lexer_tokFloatingPoint(j).to = to /\ Lexer_tokFloatingPoint(j).kind = "Float"
  BY DEF Lexer_tokFloatingPoint, first
<1> QED
  BY <1>2, <1>3 DEF Ends

LEMMA NumberEnds ==
  ASSUME IsText, NEW i \in Nat, i <= Len(text)
  PROVE  Ends(Number(i), i)
<1>1. Ends(Lexer_tokHexNumber(i), i)
  <2> DEFINE j == EatWhile(i + 2, XDigit)
  <2>1. j \in i .. Len(text)
    BY EatBounds
  <2>2. j \in Nat /\ i <= j
    BY <2>1, TextLen
  <2> HIDE DEF j
  <2>3. Ends(Lexer_tokFloatingPoint(j), i) /\ Ends(Lexer_parseInteger(i + 2, j), i)
    BY <2>1, <2>2, FloatEnds, IntegerEnds
  <2> QED
    BY <2>3, Zenon DEF Lexer_tokHexNumber, j
<1>2. Ends(Lexer_tokBinaryNumber(i), i)
  <2> DEFINE j == EatWhile(i + 2, {"0", "1"})
  <2>1. j \in i .. Len(text)
    BY EatBounds
  <2>2. j \in Nat /\ i <= j
    BY <2>1, TextLen
  <2> HIDE DEF j
  <2>3. EatWhile(j, Digit) \in i .. Len(text)
    BY <2>2, EatBounds
  <2>4. Ends(BadNumber(EatWhile(j, Digit)), i) /\ Ends(Lexer_parseInteger(i + 2, j), i)
    BY <2>1, <2>3, BadEnds, IntegerEnds
  <2> QED
    BY <2>4, Zenon DEF Lexer_tokBinaryNumber, j
<1>3. Ends(Lexer_tokOctalNumber(i), i)
  <2> DEFINE j == EatWhile(i, Octal)
             k == EatWhile(j, Digit)
  <2>1. j \in i .. Len(text)
    BY EatBounds
  <2>2. j \in Nat /\ i <= j
    BY <2>1, TextLen
  <2> HIDE DEF j
  <2>3. k \in i .. Len(text)
    BY <2>2, EatBounds
  <2>4. k \in Nat /\ i <= k
    BY <2>3, TextLen
  <2> HIDE DEF k
  <2>5. /\ Ends(BadNumber(k), i) /\ Ends(Lexer_parseInteger(i, j), i)
        /\ Ends(Lexer_tokFloatingPoint(k), i)
    BY <2>1, <2>3, <2>4, BadEnds, IntegerEnds, FloatEnds
  <2> QED
    BY <2>5, Zenon DEF Lexer_tokOctalNumber, j, k
<1>4. Ends(Lexer_tokDecimalNumber(i), i)
  <2> DEFINE j == EatWhile(i, Digit)
  <2>1. j \in i .. Len(text)
    BY EatBounds
  <2>2. j \in Nat /\ i <= j
    BY <2>1, TextLen
  <2> HIDE DEF j
  <2>3. Ends(Lexer_tokFloatingPoint(j), i) /\ Ends(Lexer_parseInteger(i, j), i)
    BY <2>1, <2>2, FloatEnds, IntegerEnds
  <2> QED
    BY <2>3, Zenon DEF Lexer_tokDecimalNumber, j
<1>5. Ends(Lexer_tokFloatingPoint(i + 1), i)
  BY FloatEnds
<1> QED
  BY <1>1, <1>2, <1>3, <1>4, <1>5, Zenon DEF Number

-----------------------------------------------------------------------------
(* An escape read from i on stops in the text, not before a, or aborts. *)
Stops(e, a) == e.abort \/ e.to \in a .. Len(text)

LEMMA EscapeStops ==
  ASSUME IsText, NEW a \in Nat, a <= Len(text), NEW to \in Nat, a <= to, NEW high
  PROVE  Stops(Escape(to, high), a) /\ Stops([Escape(to, high) EXCEPT !.warn = 1], a)
<1>1. Clip(to) \in a .. Len(text)
  BY ClipBounds
<1>2. Escape(to, high).to = Clip(to)
  BY DEF Escape
<1>3. [Escape(to, high) EXCEPT !.warn = 1].to = Clip(to)
  BY Zenon DEF Escape
<1> QED
  BY <1>1, <1>2, <1>3 DEF Stops

LEMMA AbortStops ==
  ASSUME NEW a
  PROVE  Stops(Abort, a)
BY DEF Stops, Abort

LEMMA EscapedCharStops ==
  ASSUME IsText, NEW a \in Nat, a <= Len(text), NEW i \in Nat, a <= i, NEW str
  PROVE  Stops(Lexer_tokEscapedChar(i, str), a)
<1>1. Stops(Lexer_tokHexChar(i + 1), a)
  <2> DEFINE stop == EatWhile(i + 1, XDigit)
             high == \/ At(stop - 2) \notin Octal /\ stop - 2 >= i + 1
                     \/ \E k \in i + 1 .. stop - 3 : k >= stop - 8 /\ At(k) # "0"
  <2>1. stop \in Nat /\ a <= stop
    BY EatBounds, TextLen
  <2> HIDE DEF stop
  <2>2. Stops(Escape(stop, high), a)
    BY <2>1, EscapeStops
  <2> QED
    BY <2>2, AbortStops, Zenon DEF Lexer_tokHexChar, stop
<1>2. ASSUME NEW n \in Nat PROVE Stops(Lexer_tokUniversalChar(i + 1, n), a)
  <2> DEFINE ds == [k \in 1 .. n |-> At(i + 1 + k)]
             high == \E k \in 1 .. n - 2 : ds[k] # "0" \/ ds[n - 1] \notin Digit
  <2>1. i + 1 + n \in Nat /\ a <= i + 1 + n
    OBVIOUS
  <2>2. Stops(Escape(i + 1 + n, high), a)
    BY <2>1, EscapeStops, Zenon
  <2> QED
    BY <2>2, AbortStops, Zenon DEF Lexer_tokUniversalChar
<1>3. ASSUME NEW c PROVE Stops(Lexer_tokOctalChar(c, i + 1), a)
  <2> DEFINE stop == EatWhile(i + 1, Octal)
  <2>1. stop \in Nat /\ a <= stop
    BY EatBounds, TextLen
  <2> HIDE DEF stop
  <2>2. i + 1 + 2 \in Nat /\ a <= i + 1 + 2
    OBVIOUS
  <2>3. Stops(Escape(stop, FALSE), a) /\ Stops(Escape(i + 1 + 2, c \notin {"0", "1"}), a)
    BY <2>1, <2>2, EscapeStops, Zenon
  <2> QED
    BY <2>3, Zenon DEF Lexer_tokOctalChar, stop
<1>4. \A high : Stops(Escape(i + 1, high), a) /\ Stops([Escape(i + 1, high) EXCEPT !.warn = 1], a)
  <2>1. i + 1 \in Nat /\ a <= i + 1
    OBVIOUS
  <2> QED
    BY <2>1, EscapeStops, Zenon
<1>5. 4 \in Nat /\ 8 \in Nat
  OBVIOUS
<1> QED
  BY <1>1, <1>2, <1>3, <1>4, <1>5, Zenon DEF Lexer_tokEscapedChar

-----------------------------------------------------------------------------
(* The invariant of the lexer. *)
Tokens == [kind : Ordinary \cup Special, start : Nat, end : Nat, coord : Places]

(* Inside the functions that keep the place their token starts at. *)
Marked == {"comment", "rune", "readRune", "quote", "string"}

LexerTypeOK ==
  /\ text \in Texts /\ idx \in 0 .. Len(text) /\ mark.idx \in 0 .. idx
  /\ fun \in Marked \cup {"idle", "next", "tokenize", "eof", "aborted"}
  /\ strExpr \in BOOLEAN /\ inStr \in BOOLEAN
  /\ tokens \in Seq(Tokens) /\ next \in Tokens

Placed == pos = Coordinates(idx) /\ mark.coord = Coordinates(mark.idx)

Sound(t) ==
  /\ t.kind # "COUNT" /\ t.start <= t.end /\ t.end <= idx
  /\ t.coord = Coordinates(IF t.kind = "Nl" THEN t.start + 1 ELSE t.start)

Follows(s, t) == s.start <= t.start /\ s.end <= t.end

(* No token reaches behind the place the next one starts at. *)
Made ==
  /\ \A k \in DOMAIN tokens : Sound(tokens[k])
  /\ \A k \in 1 .. Len(tokens) - 1 : Follows(tokens[k], tokens[k + 1])
  /\ fun \in Marked => \A k \in DOMAIN tokens : tokens[k].end <= mark.idx

(* The queued token is one that closes a string expression, and is the next
   one given out. *)
Queued ==
  next.kind # "COUNT" =>
    /\ fun \in {"idle", "next"} /\ next.kind = "RStrExpr" /\ Sound(next)
    /\ Len(tokens) > 0 => Follows(tokens[Len(tokens)], next)

InString == fun = "string" => idx > mark.idx /\ inStr = strExpr

(* The last bracket of s opens a string expression. *)
Open(s) ==
  \E k \in DOMAIN s :
    /\ s[k].kind = "LStrExpr"
    /\ \A l \in k + 1 .. Len(s) : s[l].kind \notin {"LStrExpr", "RStrExpr"}

Bracketed == strExpr <=> Open(IF next.kind = "COUNT" THEN tokens ELSE Append(tokens, next))

LexerInv == LexerTypeOK /\ Placed /\ Made /\ Queued /\ InString /\ Bracketed

LEMMA InvText ==
  ASSUME LexerInv
  PROVE  IsText /\ Len(text) \in Nat /\ idx \in Nat /\ idx <= Len(text)
<1>1. IsText
  BY LexerAssumption, Zenon DEF LexerInv, LexerTypeOK, IsText
<1> QED
  BY <1>1, TextLen DEF LexerInv, LexerTypeOK

LEMMA FieldTypes ==
  ASSUME NEW t \in Tokens
  PROVE  t.start \in Nat /\ t.end \in Nat /\ t.coord \in Places /\ t.kind \in Ordinary \cup Special
BY DEF Tokens

LEMMA NoTokenIs == NoToken \in Tokens /\ NoToken.kind = "COUNT"
<1>1. Origin \in Places
  BY DEF Origin, Places
<1>2. "COUNT" \in Ordinary \cup Special
  BY DEF Special
<1> QED
  BY <1>1, <1>2 DEF NoToken, Token, Tokens

(* The last bracket after one more token. *)
LEMMA OpenAppend ==
  ASSUME NEW s \in Seq(Tokens), NEW t \in Tokens
  PROVE  /\ t.kind = "LStrExpr" => Open(Append(s, t))
         /\ t.kind = "RStrExpr" => ~ Open(Append(s, t))
         /\ t.kind \notin {"LStrExpr", "RStrExpr"} => (Open(Append(s, t)) <=> Open(s))
<1> DEFINE u == Append(s, t)
<1>1. /\ u \in Seq(Tokens) /\ Len(u) = Len(s) + 1 /\ u[Len(s) + 1] = t /\ Len(s) \in Nat
      /\ \A k \in 1 .. Len(s) : u[k] = s[k]
      /\ DOMAIN u = 1 .. Len(s) + 1 /\ DOMAIN s = 1 .. Len(s)
  OBVIOUS
<1> HIDE DEF u
<1>2. t.kind = "LStrExpr" => Open(u)
  <2> SUFFICES ASSUME t.kind = "LStrExpr" PROVE Open(u)
    OBVIOUS
  <2>1. Len(s) + 1 \in DOMAIN u /\ u[Len(s) + 1].kind = "LStrExpr" /\ (Len(s) + 1) + 1 .. Len(u) = {}
    BY <1>1
  <2> QED
    BY <2>1 DEF Open
<1>3. t.kind = "RStrExpr" => ~ Open(u)
  <2> SUFFICES ASSUME t.kind = "RStrExpr", NEW k \in DOMAIN u, u[k].kind = "LStrExpr",
                      \A l \in k + 1 .. Len(u) : u[l].kind \notin {"LStrExpr", "RStrExpr"}
               PROVE  FALSE
    BY DEF Open
  <2>1. k # Len(s) + 1
    BY <1>1
  <2>2. Len(s) + 1 \in k + 1 .. Len(u)
    BY <1>1, <2>1
  <2> QED
    BY <1>1, <2>2
<1>4. ASSUME t.kind \notin {"LStrExpr", "RStrExpr"} PROVE Open(u) <=> Open(s)
  <2>1. ASSUME NEW k \in DOMAIN u, u[k].kind = "LStrExpr",
               \A l \in k + 1 .. Len(u) : u[l].kind \notin {"LStrExpr", "RStrExpr"}
        PROVE  Open(s)
    <3>1. k \in DOMAIN s /\ s[k].kind = "LStrExpr"
      BY <1>1, <1>4, <2>1
    <3>2. \A l \in k + 1 .. Len(s) : s[l].kind \notin {"LStrExpr", "RStrExpr"}
      BY <1>1, <2>1
    <3> QED
      BY <3>1, <3>2 DEF Open
  <2>2. ASSUME NEW k \in DOMAIN s, s[k].kind = "LStrExpr",
               \A l \in k + 1 .. Len(s) : s[l].kind \notin {"LStrExpr", "RStrExpr"}
        PROVE  Open(u)
    <3>1. k \in DOMAIN u /\ u[k].kind = "LStrExpr"
      BY <1>1, <2>2
    <3>2. \A l \in k + 1 .. Len(u) : u[l].kind \notin {"LStrExpr", "RStrExpr"}
      BY <1>1, <1>4, <2>2
    <3> QED
      BY <3>1, <3>2 DEF Open
  <2> QED
    BY <2>1, <2>2 DEF Open
<1> QED
  BY <1>2, <1>3, <1>4 DEF u

-----------------------------------------------------------------------------
(* What all the functions have in common: they go on in the text. *)
Advanced == text' = text /\ idx' \in idx .. Len(text) /\ pos' = Coordinates(idx')

LEMMA AdvanceMoves ==
  ASSUME LexerInv, text' = text, NEW j \in Nat, idx <= j, Advance(j)
  PROVE  Advanced /\ idx' = Clip(j)
<1>1. Clip(j) \in idx .. Len(text) /\ idx \in Nat /\ idx <= Clip(j) /\ Clip(j) \in Nat
  BY InvText, ClipBounds
<1>2. idx' = Clip(j) /\ pos' = Lexer_updatePos(Coordinates(idx), idx, Clip(j))
  BY Zenon DEF Advance, LexerInv, Placed
<1>3. Lexer_updatePos(Coordinates(idx), idx, Clip(j)) = Coordinates(Clip(j))
  BY <1>1, UpdateIsCoordinates
<1> QED
  BY <1>1, <1>2, <1>3, Zenon DEF Advanced

LEMMA StaysAdvanced ==
  ASSUME LexerInv, UNCHANGED <<text, idx, pos>>
  PROVE  Advanced
<1>1. idx \in idx .. Len(text)
  BY InvText
<1>2. pos = Coordinates(idx)
  BY DEF LexerInv, Placed
<1> QED
  BY <1>1, <1>2, Zenon DEF Advanced

(* What is kept then, whatever else the function does. *)
LEMMA AdvancedKeeps ==
  ASSUME LexerInv, Advanced, mark' = mark \/ mark' = Mark
  PROVE  /\ text' \in Texts /\ idx' \in 0 .. Len(text') /\ mark'.idx \in 0 .. idx'
         /\ Placed'
         /\ \A t \in Tokens : Sound(t) => Sound(t)'
<1>1. \A i : Coordinates(i)' = Coordinates(i)
  BY DEF Advanced, Coordinates, At
<1>2. text' = text /\ idx' \in idx .. Len(text) /\ idx \in 0 .. Len(text) /\ idx' >= idx
      /\ Len(text) \in Nat /\ text \in Texts /\ mark.idx \in 0 .. idx
  BY InvText DEF Advanced, LexerInv, LexerTypeOK
<1>3. idx' \in 0 .. Len(text')
  BY <1>2
<1>4. mark'.idx \in 0 .. idx' /\ mark'.coord = Coordinates(mark'.idx)
  <2>1. CASE mark' = mark
    <3>1. mark.idx \in 0 .. idx'
      BY <1>2
    <3> QED
      BY <2>1, <3>1 DEF LexerInv, Placed
  <2>2. CASE mark' = Mark
    <3>1. mark'.idx = idx /\ mark'.coord = pos
      BY <2>2 DEF Mark
    <3>2. idx \in 0 .. idx'
      BY <1>2
    <3> QED
      BY <3>1, <3>2 DEF LexerInv, Placed
  <2> QED
    BY <2>1, <2>2
<1>5. Placed'
  BY <1>1, <1>4, Zenon DEF Placed, Advanced
<1>6. ASSUME NEW t \in Tokens, Sound(t) PROVE Sound(t)'
  <2>1. t.end <= idx'
    BY <1>2, <1>6, FieldTypes DEF Sound
  <2> QED
    BY <1>1, <1>6, <2>1, Zenon DEF Sound
<1> QED
  BY <1>2, <1>3, <1>4, <1>5, <1>6

(* A step that makes no token. *)
LEMMA QuietKept ==
  ASSUME LexerInv, Advanced, next.kind = "COUNT", UNCHANGED <<next, tokens, strExpr>>,
         fun' \in Marked \cup {"next", "tokenize", "eof", "aborted"}, inStr' \in BOOLEAN,
         \/ mark' = mark /\ (fun' \in Marked => fun \in Marked)
         \/ mark' = Mark,
         fun' = "string" => idx' > mark'.idx /\ inStr' = strExpr
  PROVE  LexerInv'
<1>1. /\ text' \in Texts /\ idx' \in 0 .. Len(text') /\ mark'.idx \in 0 .. idx' /\ Placed'
      /\ \A t \in Tokens : Sound(t) => Sound(t)'
  BY AdvancedKeeps
<1>2. LexerTypeOK'
  BY <1>1 DEF LexerInv, LexerTypeOK
<1>3. Made'
  <2>1. tokens \in Seq(Tokens) /\ \A k \in DOMAIN tokens : tokens[k] \in Tokens
    BY DEF LexerInv, LexerTypeOK
  <2>2. \A k \in DOMAIN tokens : Sound(tokens[k])
    BY DEF LexerInv, Made
  <2>3. \A k \in DOMAIN tokens' : Sound(tokens[k])'
    BY <1>1, <2>1, <2>2, Zenon
  <2>4. \A k \in 1 .. Len(tokens') - 1 : Follows(tokens'[k], tokens'[k + 1])
    BY DEF LexerInv, Made
  <2>5. ASSUME fun' \in Marked, NEW k \in DOMAIN tokens PROVE tokens[k].end <= mark'.idx
    <3>1. CASE mark' = mark /\ fun \in Marked
      BY <3>1, <2>5 DEF LexerInv, Made
    <3>2. CASE mark' = Mark
      <4>1. mark'.idx = idx
        BY <3>2 DEF Mark
      <4>2. tokens[k].end <= idx
        BY <2>2, <2>5, Zenon DEF Sound
      <4> QED
        BY <4>1, <4>2
    <3> QED
      BY <2>5, <3>1, <3>2
  <2> QED
    BY <2>3, <2>4, <2>5, Zenon DEF Made
<1>4. Queued' /\ InString' /\ Bracketed'
  <2>1. next'.kind = "COUNT"
    OBVIOUS
  <2>2. Queued' /\ InString'
    BY <2>1 DEF Queued, InString
  <2>3. Bracketed'
    BY DEF LexerInv, Bracketed
  <2> QED
    BY <2>2, <2>3
<1> QED
  BY <1>1, <1>2, <1>3, <1>4 DEF LexerInv

(* Tokens and their order after one more. *)
LEMMA MadeOneMore ==
  ASSUME LexerInv, Advanced, mark' = mark, NEW t \in Tokens, Return(t), Sound(t)',
         Len(tokens) > 0 => Follows(tokens[Len(tokens)], t)
  PROVE  /\ Made' /\ tokens' \in Seq(Tokens) /\ Len(tokens') = Len(tokens) + 1
         /\ tokens'[Len(tokens')] = t
<1>1. fun' = "idle" /\ tokens' = Append(tokens, t) /\ tokens \in Seq(Tokens)
  BY DEF Return, LexerInv, LexerTypeOK
<1>2. /\ tokens' \in Seq(Tokens) /\ Len(tokens') = Len(tokens) + 1 /\ Len(tokens) \in Nat
      /\ tokens'[Len(tokens) + 1] = t /\ DOMAIN tokens' = 1 .. Len(tokens) + 1
      /\ DOMAIN tokens = 1 .. Len(tokens) /\ \A k \in 1 .. Len(tokens) : tokens'[k] = tokens[k]
  BY <1>1
<1>3. \A u \in Tokens : Sound(u) => Sound(u)'
  BY AdvancedKeeps
<1>4. \A k \in DOMAIN tokens' : Sound(tokens[k])'
  <2> SUFFICES ASSUME NEW k \in DOMAIN tokens' PROVE Sound(tokens[k])'
    OBVIOUS
  <2>1. CASE k = Len(tokens) + 1
    BY <1>2, <2>1, Zenon DEF Sound
  <2>2. CASE k # Len(tokens) + 1
    <3>1. k \in 1 .. Len(tokens)
      BY <1>2, <2>2
    <3>2. tokens[k] \in Tokens /\ Sound(tokens[k]) /\ tokens'[k] = tokens[k]
      BY <1>1, <1>2, <3>1 DEF LexerInv, Made
    <3>3. ASSUME NEW u \in Tokens, Sound(u), tokens'[k] = u PROVE Sound(tokens[k])'
      BY <1>3, <3>3, Zenon DEF Sound
    <3> QED
      BY <3>2, <3>3
  <2> QED
    BY <2>1, <2>2
<1>5. \A k \in 1 .. Len(tokens') - 1 : Follows(tokens'[k], tokens'[k + 1])
  <2> SUFFICES ASSUME NEW k \in 1 .. Len(tokens') - 1 PROVE Follows(tokens'[k], tokens'[k + 1])
    OBVIOUS
  <2>1. CASE k = Len(tokens)
    <3>1. Len(tokens) > 0 /\ tokens'[k] = tokens[Len(tokens)] /\ tokens'[k + 1] = t
      BY <1>2, <2>1
    <3> QED
      BY <3>1
  <2>2. CASE k # Len(tokens)
    <3>1. k \in 1 .. Len(tokens) - 1 /\ tokens'[k] = tokens[k] /\ tokens'[k + 1] = tokens[k + 1]
      BY <1>2, <2>2
    <3> QED
      BY <3>1 DEF LexerInv, Made
  <2> QED
    BY <2>1, <2>2
<1>6. fun' \notin Marked
  BY <1>1 DEF Marked
<1> QED
  BY <1>2, <1>4, <1>5, <1>6 DEF Made

(* Behind the place the last token ends at. *)
LEMMA Behind ==
  ASSUME LexerInv, NEW from \in Nat, from = idx \/ (fun \in Marked /\ from = mark.idx),
         NEW t \in Tokens, from <= t.start, t.start <= t.end
  PROVE  Len(tokens) > 0 => Follows(tokens[Len(tokens)], t)
<1> SUFFICES ASSUME Len(tokens) > 0 PROVE Follows(tokens[Len(tokens)], t)
  OBVIOUS
<1> DEFINE last == tokens[Len(tokens)]
<1>1. Len(tokens) \in DOMAIN tokens /\ last \in Tokens
  BY DEF LexerInv, LexerTypeOK
<1>2. Sound(last) /\ (fun \in Marked => last.end <= mark.idx)
  BY <1>1 DEF LexerInv, Made
<1> HIDE DEF last
<1>3. last.start <= last.end /\ last.end <= from
  BY <1>2 DEF Sound
<1>4. last.start \in Nat /\ last.end \in Nat /\ t.start \in Nat /\ t.end \in Nat
  BY <1>1, FieldTypes
<1>5. last.start <= t.start /\ last.end <= t.end
  BY <1>3, <1>4
<1> QED
  BY <1>5 DEF Follows, last

(* A step that makes a token from the place the function started at, or
   behind it, and queues none. *)
LEMMA MakesKept ==
  ASSUME LexerInv, Advanced, next.kind = "COUNT", UNCHANGED <<next, mark, inStr>>,
         NEW from \in Nat, from = idx \/ (fun \in Marked /\ from = mark.idx),
         NEW t \in Tokens, Return(t), from <= t.start, t.start <= t.end, t.end <= idx',
         t.coord = Coordinates(IF t.kind = "Nl" THEN t.start + 1 ELSE t.start),
         \/ t.kind \in Ordinary \cup {"Nl"} /\ strExpr' = strExpr
         \/ t.kind = "LStrExpr" /\ strExpr' = TRUE
  PROVE  LexerInv'
<1>1. /\ text' \in Texts /\ idx' \in 0 .. Len(text') /\ mark'.idx \in 0 .. idx' /\ Placed'
  BY AdvancedKeeps
<1>2. t.kind # "COUNT" /\ t.kind # "RStrExpr"
      /\ (t.kind \in Ordinary \cup {"Nl"} => t.kind \notin {"LStrExpr", "RStrExpr"})
  <2>1. \A k \in Ordinary : k \notin {"COUNT", "LStrExpr", "RStrExpr", "Nl"}
    BY OrdinaryNotSpecial DEF Special
  <2> QED
    BY <2>1
<1>3. Sound(t)'
  <2>1. \A i : Coordinates(i)' = Coordinates(i)
    BY DEF Advanced, Coordinates, At
  <2> QED
    BY <1>2, <2>1, Zenon DEF Sound
<1>4. Len(tokens) > 0 => Follows(tokens[Len(tokens)], t)
  BY Behind
<1>5. Made' /\ tokens' \in Seq(Tokens)
  BY <1>3, <1>4, MadeOneMore
<1>6. LexerTypeOK'
  BY <1>1, <1>5 DEF LexerInv, LexerTypeOK, Return
<1>7. Queued' /\ InString'
  BY DEF Queued, InString, Return
<1>8. Bracketed'
  <2>1. tokens' = Append(tokens, t) /\ tokens \in Seq(Tokens) /\ (strExpr <=> Open(tokens))
    BY DEF Return, LexerInv, LexerTypeOK, Bracketed
  <2>2. strExpr' <=> Open(tokens')
    BY <1>2, <2>1, OpenAppend
  <2> QED
    BY <2>2 DEF Bracketed
<1> QED
  BY <1>1, <1>5, <1>6, <1>7, <1>8 DEF LexerInv

-----------------------------------------------------------------------------
(* The actions of the lexer. *)
LEMMA NoneQueued ==
  ASSUME LexerInv, fun \notin {"idle", "next"}
  PROVE  next.kind = "COUNT"
BY DEF LexerInv, Queued

LEMMA InvPlaces ==
  ASSUME LexerInv
  PROVE  /\ pos = Coordinates(idx) /\ pos \in Places
         /\ mark.idx \in Nat /\ mark.idx <= idx
         /\ mark.coord = Coordinates(mark.idx) /\ mark.coord \in Places
<1>1. mark.idx \in Nat /\ mark.idx <= idx /\ idx \in Nat
  BY InvText DEF LexerInv, LexerTypeOK
<1>2. pos = Coordinates(idx) /\ mark.coord = Coordinates(mark.idx)
  BY DEF LexerInv, Placed
<1> QED
  BY <1>1, <1>2, CoordinatesType

(* An ordinary token from the place the function started at. *)
LEMMA MakesOrdinary ==
  ASSUME LexerInv, Advanced, fun \notin {"idle", "next"}, UNCHANGED <<next, mark, inStr, strExpr>>,
         NEW from \in Nat, from = idx \/ (fun \in Marked /\ from = mark.idx),
         NEW kind \in Ordinary, NEW end \in Nat, from <= end, end <= idx',
         Return(Token(kind, from, end, Coordinates(from)))
  PROVE  LexerInv'
<1> DEFINE t == Token(kind, from, end, Coordinates(from))
<1>1. Coordinates(from) \in Places /\ kind \in Ordinary \cup Special
  BY CoordinatesType
<1>2. t \in Tokens /\ t.kind = kind /\ t.start = from /\ t.end = end /\ t.coord = Coordinates(from)
  BY <1>1 DEF Token, Tokens
<1>3. kind # "Nl" /\ next.kind = "COUNT"
  BY OrdinaryNotSpecial, NoneQueued DEF Special
<1> HIDE DEF t
<1>4. t.coord = Coordinates(IF t.kind = "Nl" THEN t.start + 1 ELSE t.start)
  BY <1>2, <1>3, Zenon
<1>5. Return(t)
  BY DEF t
<1>6. from <= t.start /\ t.start <= t.end /\ t.end <= idx' /\ t.kind \in Ordinary \cup {"Nl"}
  BY <1>2
<1> QED
  BY <1>2, <1>3, <1>4, <1>5, <1>6, MakesKept

LEMMA resetNextKept ==
  ASSUME LexerInv, Lexer_resetNext
  PROVE  LexerInv'
<1>1. /\ next.kind # "COUNT" /\ next' = NoToken /\ Return(next)
      /\ UNCHANGED <<text, idx, pos, strExpr, mark, inStr>>
  BY DEF Lexer_resetNext
<1>2. next \in Tokens /\ Sound(next)
  BY <1>1 DEF LexerInv, LexerTypeOK, Queued
<1>3. next.kind = "RStrExpr" /\ (Len(tokens) > 0 => Follows(tokens[Len(tokens)], next))
  BY <1>1 DEF LexerInv, Queued
<1>4. Advanced
  BY <1>1, StaysAdvanced
<1>5. /\ text' \in Texts /\ idx' \in 0 .. Len(text') /\ mark'.idx \in 0 .. idx' /\ Placed'
      /\ \A t \in Tokens : Sound(t) => Sound(t)'
  BY <1>1, <1>4, AdvancedKeeps
<1>6. ASSUME NEW t \in Tokens, t = next PROVE Made' /\ tokens' \in Seq(Tokens)
  <2>1. Return(t) /\ Sound(t)' /\ (Len(tokens) > 0 => Follows(tokens[Len(tokens)], t))
    BY <1>1, <1>2, <1>3, <1>5, <1>6, Zenon
  <2> QED
    BY <1>1, <1>4, <2>1, MadeOneMore
<1>7. Made' /\ tokens' \in Seq(Tokens)
  BY <1>2, <1>6
<1>8. LexerTypeOK'
  BY <1>1, <1>5, <1>7, NoTokenIs DEF LexerInv, LexerTypeOK, Return
<1>9. Queued' /\ InString'
  BY <1>1, NoTokenIs DEF Queued, InString, Return
<1>10. Bracketed'
  BY <1>1, NoTokenIs DEF LexerInv, Bracketed, Return
<1> QED
  BY <1>5, <1>7, <1>8, <1>9, <1>10 DEF LexerInv

LEMMA nextKept ==
  ASSUME LexerInv, Lexer_next
  PROVE  LexerInv'
<1> DEFINE stop == EatWhile(idx, Blank)
           nl == EatUntil(idx, {"\n"})
           t == Token("Nl", nl, nl, Lexer_updatePos(pos, idx, nl + 1))
<1>1. /\ fun = "next" /\ next.kind = "COUNT" /\ Advance(stop)
      /\ UNCHANGED <<text, strExpr, next, mark, inStr>>
      /\ IF nl < stop THEN Return(t) ELSE fun' = "tokenize" /\ UNCHANGED tokens
  BY Zenon DEF Lexer_next
<1>2. idx \in Nat /\ Len(text) \in Nat /\ stop \in idx .. Len(text) /\ nl \in idx .. Len(text)
  BY InvText, EatBounds
<1> HIDE DEF stop, nl
<1>3. stop \in Nat /\ idx <= stop /\ Clip(stop) = stop
  BY <1>2 DEF Clip
<1>4. Advanced /\ idx' = stop
  BY <1>1, <1>3, AdvanceMoves
<1>5. CASE nl < stop
  <2>1. nl \in Nat /\ nl + 1 \in Nat /\ idx <= nl + 1 /\ nl <= idx' /\ idx <= nl
    BY <1>2, <1>4, <1>5
  <2>2. Lexer_updatePos(pos, idx, nl + 1) = Coordinates(nl + 1)
    BY <1>2, <2>1, InvPlaces, UpdateIsCoordinates
  <2>3. Coordinates(nl + 1) \in Places /\ "Nl" \in Ordinary \cup Special
    BY <2>1, CoordinatesType DEF Special
  <2>4. t \in Tokens /\ t.kind = "Nl" /\ t.start = nl /\ t.end = nl /\ t.coord = Coordinates(nl + 1)
    BY <2>1, <2>2, <2>3 DEF Token, Tokens
  <2> HIDE DEF t
  <2>5. t.coord = Coordinates(IF t.kind = "Nl" THEN t.start + 1 ELSE t.start)
    BY <2>4, Zenon
  <2>6. idx <= t.start /\ t.start <= t.end /\ t.end <= idx' /\ t.kind \in Ordinary \cup {"Nl"}
    BY <2>1, <2>4
  <2> QED
    BY <1>1, <1>2, <1>4, <1>5, <2>4, <2>5, <2>6, MakesKept
<1>6. CASE ~ (nl < stop)
  <2>1. fun' = "tokenize" /\ UNCHANGED tokens
    BY <1>1, <1>6, Zenon
  <2>2. inStr' \in BOOLEAN /\ fun' \notin Marked /\ fun' # "string"
    BY <1>1, <2>1 DEF LexerInv, LexerTypeOK, Marked
  <2> QED
    BY <1>1, <1>4, <2>1, <2>2, QuietKept
<1> QED
  BY <1>5, <1>6

LEMMA operatorKept ==
  ASSUME LexerInv, Lexer_operator
  PROVE  LexerInv'
<1>1. fun = "tokenize" /\ UNCHANGED <<text, strExpr, next, mark, inStr>>
  BY Zenon DEF Lexer_operator, Tokenizing
<1>2. IsText /\ Len(text) \in Nat /\ idx \in Nat /\ idx <= Len(text) /\ pos = Coordinates(idx)
  BY InvText, InvPlaces
<1>3. ASSUME NEW op \in Operator3, op[1] = <<Peek(0), Peek(1), Peek(2)>>,
             Advance(idx + 4), Return(Token(op[2], idx, idx + 3, pos))
      PROVE  LexerInv'
  <2>1. idx + 2 < Len(text)
    BY <1>2, <1>3, Operator3InText
  <2>2. Advanced /\ idx' = Clip(idx + 4)
    BY <1>1, <1>2, <1>3, AdvanceMoves
  <2>3. idx + 3 <= idx' /\ idx + 3 \in Nat /\ idx <= idx + 3
    BY <1>2, <2>1, <2>2 DEF Clip
  <2>4. op[2] \in Ordinary
    BY OperatorKinds
  <2>5. Return(Token(op[2], idx, idx + 3, Coordinates(idx)))
    BY <1>2, <1>3, Zenon
  <2> QED
    BY <1>1, <1>2, <2>2, <2>3, <2>4, <2>5, MakesOrdinary
<1>4. ASSUME NEW n \in {1, 2}, NEW kind \in Ordinary, Advance(idx + n),
             Return(Token(kind, idx, idx, pos))
      PROVE  LexerInv'
  <2>1. Advanced /\ idx <= idx'
    <3>1. Advanced
      BY <1>1, <1>2, <1>4, AdvanceMoves
    <3> QED
      BY <1>2, <3>1 DEF Advanced
  <2>2. Return(Token(kind, idx, idx, Coordinates(idx))) /\ idx <= idx
    BY <1>2, <1>4
  <2> QED
    BY <1>1, <1>2, <2>1, <2>2, MakesOrdinary
<1>5. CASE \E op \in Operator3 :
             /\ op[1] = <<Peek(0), Peek(1), Peek(2)>>
             /\ Advance(idx + 4) /\ Return(Token(op[2], idx, idx + 3, pos))
  BY <1>3, <1>5, Zenon
<1>6. CASE \E op \in Operator2 : Advance(idx + 2) /\ Return(Token(op[2], idx, idx, pos))
  BY <1>4, <1>6, OperatorKinds
<1>7. CASE \E op \in Operator1 : Advance(idx + 1) /\ Return(Token(op[2], idx, idx, pos))
  BY <1>4, <1>7, OperatorKinds
<1> QED
  BY <1>5, <1>6, <1>7, Zenon DEF Lexer_operator

(* A step that makes no token and leaves the marks of the function alone. *)
LEMMA GoesOn ==
  ASSUME LexerInv, Advanced, fun \notin {"idle", "next"},
         UNCHANGED <<next, tokens, strExpr, mark, inStr>>,
         \/ fun' \in {"next", "tokenize", "eof", "aborted"}
         \/ fun' \in Marked /\ fun \in Marked /\ (fun' = "string" => fun = "string")
  PROVE  LexerInv'
<1>1. next.kind = "COUNT" /\ inStr' \in BOOLEAN
  BY NoneQueued DEF LexerInv, LexerTypeOK
<1>2. fun' = "string" => idx' > mark'.idx /\ inStr' = strExpr
  <2> SUFFICES ASSUME fun' = "string" PROVE idx' > mark'.idx /\ inStr' = strExpr
    OBVIOUS
  <2>1. fun = "string"
    BY DEF Marked
  <2>2. idx > mark.idx /\ inStr = strExpr /\ idx \in Nat /\ idx' \in idx .. Len(text)
    BY <2>1, InvText DEF LexerInv, InString, Advanced
  <2>3. mark.idx \in Nat /\ Len(text) \in Nat
    BY InvPlaces, InvText
  <2> QED
    BY <2>2, <2>3
<1>3. fun' \in Marked \cup {"next", "tokenize", "eof", "aborted"}
  OBVIOUS
<1>4. mark' = mark /\ (fun' \in Marked => fun \in Marked)
  BY DEF Marked
<1> QED
  BY <1>1, <1>2, <1>3, <1>4, QuietKept

LEMMA unexpectedKept ==
  ASSUME LexerInv, Lexer_unexpected
  PROVE  LexerInv'
<1>1. /\ fun = "tokenize" /\ fun' = "next" /\ Advance(idx + 1)
      /\ UNCHANGED <<text, strExpr, next, mark, inStr, tokens>>
  BY Zenon DEF Lexer_unexpected, Tokenizing, Again
<1>2. Advanced
  BY <1>1, InvText, AdvanceMoves
<1> QED
  BY <1>1, <1>2, GoesOn

LEMMA beginStrExprKept ==
  ASSUME LexerInv, Lexer_beginStrExpr
  PROVE  LexerInv'
<1> DEFINE t == Token("LStrExpr", idx, idx, pos)
<1>1. /\ fun = "tokenize" /\ strExpr' = TRUE /\ Advance(idx + 1) /\ Return(t)
      /\ UNCHANGED <<text, next, mark, inStr>>
  BY Zenon DEF Lexer_beginStrExpr, Tokenizing
<1>2. idx \in Nat /\ pos = Coordinates(idx) /\ pos \in Places /\ next.kind = "COUNT"
  BY <1>1, InvText, InvPlaces, NoneQueued
<1>3. Advanced
  BY <1>1, <1>2, AdvanceMoves
<1>4. idx <= idx'
  BY <1>2, <1>3, InvText DEF Advanced
<1>5. t \in Tokens /\ t.kind = "LStrExpr" /\ t.start = idx /\ t.end = idx /\ t.coord = pos
  BY <1>2 DEF Token, Tokens, Special
<1> HIDE DEF t
<1>6. t.coord = Coordinates(IF t.kind = "Nl" THEN t.start + 1 ELSE t.start)
  BY <1>2, <1>5
<1>7. idx <= t.start /\ t.start <= t.end /\ t.end <= idx'
  BY <1>2, <1>4, <1>5
<1> QED
  BY <1>1, <1>2, <1>3, <1>5, <1>6, <1>7, MakesKept

LEMMA eofKept ==
  ASSUME LexerInv, Lexer_eof
  PROVE  LexerInv'
<1>1. /\ fun = "tokenize" /\ fun' = "eof"
      /\ UNCHANGED <<text, idx, pos, strExpr, next, mark, inStr, tokens>>
  BY Zenon DEF Lexer_eof, Tokenizing
<1>2. Advanced
  BY <1>1, StaysAdvanced
<1> QED
  BY <1>1, <1>2, GoesOn

LEMMA tokIdentKept ==
  ASSUME LexerInv, Lexer_tokIdent
  PROVE  LexerInv'
<1> DEFINE stop == EatWhile(idx, Letter \cup Digit \cup {"_", "$"})
           kind == sKeyWordList(SubSeq(text, idx + 1, stop))
<1>1. /\ fun = "tokenize" /\ Advance(stop) /\ Return(Token(kind, idx, stop, pos))
      /\ UNCHANGED <<text, strExpr, next, mark, inStr>>
  BY Zenon DEF Lexer_tokIdent, Tokenizing
<1>2. kind \in Ordinary
  BY DEF sKeyWordList, Ordinary, LiteralKinds
<1>3. idx \in Nat /\ Len(text) \in Nat /\ stop \in idx .. Len(text) /\ pos = Coordinates(idx)
  <2>1. \A S : EatWhile(idx, S) \in idx .. Len(text)
    BY InvText, EatBounds
  <2> QED
    BY <2>1, InvText, InvPlaces, Zenon
<1> HIDE DEF stop, kind
<1>4. stop \in Nat /\ idx <= stop /\ Clip(stop) = stop
  BY <1>3 DEF Clip
<1>5. Advanced /\ idx' = stop
  BY <1>1, <1>4, AdvanceMoves
<1>6. Return(Token(kind, idx, stop, Coordinates(idx))) /\ stop <= idx'
  BY <1>1, <1>3, <1>4, <1>5
<1> QED
  BY <1>1, <1>2, <1>3, <1>4, <1>5, <1>6, MakesOrdinary

LEMMA tokNumberKept ==
  ASSUME LexerInv, Lexer_tokNumber
  PROVE  LexerInv'
<1> DEFINE n == Number(idx)
<1>1. /\ fun = "tokenize" /\ UNCHANGED <<text, strExpr, next, mark, inStr>>
      /\ \/ fun' = "aborted" /\ UNCHANGED <<idx, pos, tokens>>
         \/ Advance(n.to) /\ Again
         \/ Advance(n.to) /\ ~ n.bad /\ Return(Token(n.kind, idx, n.to, pos))
  BY Zenon DEF Lexer_tokNumber, Tokenizing
<1>2. idx \in Nat /\ Len(text) \in Nat /\ Ends(n, idx) /\ pos = Coordinates(idx)
  BY InvText, InvPlaces, NumberEnds
<1> HIDE DEF n
<1>3. n.to \in Nat /\ idx <= n.to /\ Clip(n.to) = n.to
  BY <1>2 DEF Ends, Clip
<1>4. Advance(n.to) => Advanced /\ idx' = n.to
  BY <1>1, <1>3, AdvanceMoves
<1>5. CASE fun' = "aborted" /\ UNCHANGED <<idx, pos, tokens>>
  <2>1. Advanced
    BY <1>1, <1>5, StaysAdvanced
  <2> QED
    BY <1>1, <1>5, <2>1, GoesOn
<1>6. CASE Advance(n.to) /\ Again
  BY <1>1, <1>4, <1>6, GoesOn DEF Again
<1>7. CASE Advance(n.to) /\ ~ n.bad /\ Return(Token(n.kind, idx, n.to, pos))
  <2>1. n.kind \in Ordinary
    BY <1>2, <1>7 DEF Ends, Ordinary, LiteralKinds
  <2>2. Return(Token(n.kind, idx, n.to, Coordinates(idx))) /\ n.to <= idx'
    BY <1>2, <1>3, <1>4, <1>7
  <2> QED
    BY <1>1, <1>2, <1>3, <1>4, <1>7, <2>1, <2>2, MakesOrdinary
<1> QED
  BY <1>1, <1>5, <1>6, <1>7

LEMMA tokCommentKept ==
  ASSUME LexerInv, Lexer_tokComment
  PROVE  LexerInv'
<1>1. /\ fun = "tokenize" /\ fun' = "comment" /\ Advance(idx + 2) /\ mark' = Mark
      /\ UNCHANGED <<text, strExpr, next, inStr, tokens>>
  BY Zenon DEF Lexer_tokComment, Tokenizing
<1>2. Advanced
  BY <1>1, InvText, AdvanceMoves
<1>3. next.kind = "COUNT" /\ inStr' \in BOOLEAN /\ fun' \in Marked /\ fun' # "string"
  BY <1>1, NoneQueued DEF LexerInv, LexerTypeOK, Marked
<1> QED
  BY <1>1, <1>2, <1>3, QuietKept

LEMMA EndCommentKept ==
  ASSUME LexerInv, fun = "comment", NEW j \in Nat, idx <= j, NEW l, EndComment(j, l),
         UNCHANGED <<text, strExpr, next, mark, inStr>>
  PROVE  LexerInv'
<1>1. /\ Advance(j)
      /\ Again \/ Return(Token("Comment", mark.idx, Clip(j), mark.coord))
  BY Zenon DEF EndComment
<1>2. Advanced /\ idx' = Clip(j)
  BY <1>1, AdvanceMoves
<1>3. CASE Again
  BY <1>2, <1>3, GoesOn DEF Again
<1>4. CASE Return(Token("Comment", mark.idx, Clip(j), mark.coord))
  <2>1. mark.idx \in Nat /\ mark.idx <= idx /\ mark.coord = Coordinates(mark.idx)
    BY InvPlaces
  <2>2. Clip(j) \in Nat /\ mark.idx <= Clip(j) /\ Clip(j) <= idx'
    BY <1>2, <2>1, InvText DEF Advanced
  <2>3. "Comment" \in Ordinary /\ fun \in Marked
    BY DEF Ordinary, LiteralKinds, Marked
  <2>4. Return(Token("Comment", mark.idx, Clip(j), Coordinates(mark.idx)))
    BY <1>4, <2>1, Zenon
  <2> QED
    BY <1>2, <2>1, <2>2, <2>3, <2>4, MakesOrdinary
<1> QED
  BY <1>1, <1>3, <1>4

LEMMA CommentStepKept ==
  ASSUME LexerInv, CommentStep
  PROVE  LexerInv'
<1>1. fun = "comment" /\ UNCHANGED <<text, strExpr, next, mark, inStr>>
  BY Zenon DEF CommentStep
<1>2. idx \in Nat /\ idx + 1 \in Nat /\ idx + 2 \in Nat /\ idx <= idx + 1 /\ idx <= idx + 2
  BY InvText
<1>3. CASE EndComment(idx + 1, level) \/ EndComment(idx + 2, 0)
  BY <1>1, <1>2, <1>3, EndCommentKept
<1>4. CASE /\ Advance(idx + 1) \/ Advance(idx + 2)
           /\ UNCHANGED <<fun, tokens>>
  <2>1. Advanced
    BY <1>1, <1>2, <1>4, AdvanceMoves
  <2>2. fun \in Marked
    BY <1>1 DEF Marked
  <2> QED
    BY <1>1, <1>4, <2>1, <2>2, GoesOn
<1> QED
  BY <1>3, <1>4, Zenon DEF CommentStep

LEMMA tokCharKept ==
  ASSUME LexerInv, Lexer_tokChar
  PROVE  LexerInv'
<1> DEFINE e == IF Peek(1) = "\\" THEN Lexer_tokEscapedChar(idx + 2, FALSE)
                ELSE Escape(idx + 2, Peek(1) \in {"lead", "cont", EOF})
<1>1. /\ fun = "tokenize" /\ mark' = Mark /\ UNCHANGED <<text, strExpr, next, inStr>>
      /\ \/ fun' = "aborted" /\ UNCHANGED <<idx, pos, tokens>>
         \/ ~ e.abort /\ Advance(e.to) /\ fun' \in {"rune", "quote"} /\ UNCHANGED tokens
  BY Zenon DEF Lexer_tokChar, Tokenizing, AbortLexer
<1>2. IsText /\ Len(text) \in Nat /\ idx \in Nat /\ idx <= Len(text) /\ idx + 2 \in Nat
      /\ idx <= idx + 2
  BY InvText
<1>3. Stops(e, idx)
  <2>1. Stops(Lexer_tokEscapedChar(idx + 2, FALSE), idx)
    BY <1>2, EscapedCharStops, Zenon
  <2>2. Stops(Escape(idx + 2, Peek(1) \in {"lead", "cont", EOF}), idx)
    BY <1>2, EscapeStops, Zenon
  <2> QED
    BY <2>1, <2>2, Zenon
<1> HIDE DEF e
<1>4. next.kind = "COUNT" /\ inStr' \in BOOLEAN
  BY <1>1, NoneQueued DEF LexerInv, LexerTypeOK
<1>5. CASE fun' = "aborted" /\ UNCHANGED <<idx, pos, tokens>>
  <2>1. Advanced
    BY <1>1, <1>5, StaysAdvanced
  <2> QED
    BY <1>1, <1>4, <1>5, <2>1, QuietKept
<1>6. CASE ~ e.abort /\ Advance(e.to) /\ fun' \in {"rune", "quote"} /\ UNCHANGED tokens
  <2>1. e.to \in Nat /\ idx <= e.to
    BY <1>2, <1>3, <1>6 DEF Stops
  <2>2. Advanced
    BY <1>1, <1>6, <2>1, AdvanceMoves
  <2>3. fun' \in Marked /\ fun' # "string"
    BY <1>6 DEF Marked
  <2> QED
    BY <1>1, <1>4, <1>6, <2>2, <2>3, QuietKept
<1> QED
  BY <1>1, <1>5, <1>6, Zenon

LEMMA RuneStepKept ==
  ASSUME LexerInv, RuneStep
  PROVE  LexerInv'
<1>1. /\ fun = "rune" /\ Advance(idx + 1) /\ fun' \in {"rune", "readRune"}
      /\ UNCHANGED <<text, strExpr, next, mark, inStr, tokens>>
  BY Zenon DEF RuneStep
<1>2. Advanced
  BY <1>1, InvText, AdvanceMoves
<1>3. fun \in Marked /\ fun' \in Marked /\ fun' # "string"
  BY <1>1 DEF Marked
<1> QED
  BY <1>1, <1>2, <1>3, GoesOn

LEMMA readRuneKept ==
  ASSUME LexerInv, Lexer_readRune
  PROVE  LexerInv'
<1>1. /\ fun = "readRune" /\ fun' \in {"aborted", "quote"}
      /\ UNCHANGED <<text, idx, pos, strExpr, next, mark, inStr, tokens>>
  BY Zenon DEF Lexer_readRune, AbortLexer
<1>2. Advanced
  BY <1>1, StaysAdvanced
<1>3. fun \in Marked /\ (fun' \in Marked \/ fun' = "aborted") /\ fun' # "string"
  BY <1>1 DEF Marked
<1> QED
  BY <1>1, <1>2, <1>3, GoesOn

LEMMA CloseQuoteKept ==
  ASSUME LexerInv, CloseQuote
  PROVE  LexerInv'
<1> DEFINE stop == EatUntil(idx, {"\n", "'"})
<1>1. /\ fun = "quote" /\ UNCHANGED <<text, strExpr, next, mark, inStr>>
      /\ \/ Advance(idx + 1) /\ Return(Token("Char", mark.idx, idx, mark.coord))
         \/ (Advance(stop + 1) \/ Advance(stop)) /\ Again
  BY Zenon DEF CloseQuote
<1>2. IsText /\ Len(text) \in Nat /\ idx \in Nat /\ idx <= Len(text)
  BY InvText
<1>3. stop \in idx .. Len(text)
  <2>1. \A S : EatUntil(idx, S) \in idx .. Len(text)
    BY <1>2, EatBounds
  <2> QED
    BY <2>1, Zenon
<1> HIDE DEF stop
<1>4. stop \in Nat /\ idx <= stop /\ stop + 1 \in Nat /\ idx <= stop + 1
      /\ idx + 1 \in Nat /\ idx <= idx + 1
  BY <1>2, <1>3
<1>5. fun \in Marked
  BY <1>1 DEF Marked
<1>6. CASE Advance(idx + 1) /\ Return(Token("Char", mark.idx, idx, mark.coord))
  <2>1. Advanced
    BY <1>1, <1>4, <1>6, AdvanceMoves
  <2>2. mark.idx \in Nat /\ mark.idx <= idx /\ mark.coord = Coordinates(mark.idx)
    BY InvPlaces
  <2>3. idx <= idx' /\ "Char" \in Ordinary
    BY <1>2, <2>1 DEF Advanced, Ordinary, LiteralKinds
  <2>4. Return(Token("Char", mark.idx, idx, Coordinates(mark.idx)))
    BY <1>6, <2>2, Zenon
  <2>5. fun \notin {"idle", "next"}
    BY <1>1
  <2> QED
    BY <1>1, <1>2, <1>5, <2>1, <2>2, <2>3, <2>4, <2>5, MakesOrdinary
<1>7. CASE (Advance(stop + 1) \/ Advance(stop)) /\ Again
  <2>1. Advanced
    BY <1>1, <1>4, <1>7, AdvanceMoves
  <2> QED
    BY <1>1, <1>7, <2>1, GoesOn DEF Again
<1> QED
  BY <1>1, <1>6, <1>7, Zenon

LEMMA tokStringKept ==
  ASSUME LexerInv, Lexer_tokString
  PROVE  LexerInv'
<1>1. /\ fun = "tokenize" /\ fun' = "string" /\ Advance(idx + 1) /\ mark' = Mark
      /\ inStr' = strExpr /\ UNCHANGED <<text, strExpr, next, tokens>>
  BY Zenon DEF Lexer_tokString, Tokenizing
<1>2. Peek(0) # EOF
  <2>1. Starts = "string"
    BY Zenon DEF Lexer_tokString, Tokenizing
  <2>2. EOF # "\"" /\ EOF # "}" /\ EOF \notin Digit /\ EOF # "." /\ EOF # "/"
        /\ EOF # "f" /\ EOF # "'" /\ EOF \notin Letter \cup {"_"}
    BY Zenon DEF EOF, Digit, Octal, Letter
  <2>3. "string" # "eof"
    OBVIOUS
  <2>4. Peek(0) = EOF => Starts = "eof"
    BY <2>2, Zenon DEF Starts
  <2> QED
    BY <2>1, <2>3, <2>4
<1>3. idx < Len(text)
  BY <1>2, InvText DEF Peek, At
<1>4. Advanced /\ idx' = Clip(idx + 1)
  BY <1>1, InvText, AdvanceMoves
<1>5. idx' > mark'.idx
  BY <1>1, <1>3, <1>4, InvText DEF Mark, Clip
<1>6. next.kind = "COUNT" /\ inStr' \in BOOLEAN /\ inStr' = strExpr' /\ fun' \in Marked
  BY <1>1, NoneQueued DEF LexerInv, LexerTypeOK, Marked
<1> QED
  BY <1>1, <1>4, <1>5, <1>6, QuietKept

(* The quote that closes a string expression makes one token and queues
   another with the same range. *)
LEMMA ClosedStrExprKept ==
  ASSUME LexerInv, fun = "string", Advanced, strExpr' = FALSE, UNCHANGED <<mark, inStr>>,
         NEW t, t = Token("String", mark.idx, idx', mark.coord), Return(t),
         NEW u, u = Token("RStrExpr", mark.idx, idx', mark.coord), next' = u
  PROVE  LexerInv'
<1>1. /\ text' \in Texts /\ idx' \in 0 .. Len(text') /\ mark'.idx \in 0 .. idx' /\ Placed'
  BY AdvancedKeeps
<1>2. /\ mark.idx \in Nat /\ mark.idx <= idx /\ idx \in Nat /\ idx' \in Nat /\ idx <= idx'
      /\ mark.coord = Coordinates(mark.idx) /\ mark.coord \in Places
  BY InvPlaces, InvText DEF Advanced
<1>3. "String" \in Ordinary \cup Special /\ "RStrExpr" \in Ordinary \cup Special
  BY DEF Ordinary, LiteralKinds, Special
<1>4. /\ t \in Tokens /\ t.kind = "String" /\ t.start = mark.idx /\ t.end = idx'
      /\ t.coord = mark.coord
      /\ u \in Tokens /\ u.kind = "RStrExpr" /\ u.start = mark.idx /\ u.end = idx'
      /\ u.coord = mark.coord
  BY <1>2, <1>3 DEF Token, Tokens
<1>5. Return(t) /\ next' = u
  OBVIOUS
<1>6. ASSUME NEW v, v.kind \notin {"COUNT", "Nl"}, v.start = mark.idx, v.end = idx', v.coord = mark.coord
      PROVE  Sound(v)'
  <2>1. \A i : Coordinates(i)' = Coordinates(i)
    BY DEF Advanced, Coordinates, At
  <2>2. v.kind # "COUNT" /\ v.kind # "Nl" /\ v.start <= v.end /\ v.end <= idx'
    BY <1>2, <1>6
  <2> QED
    BY <1>2, <1>6, <2>1, <2>2, Zenon DEF Sound
<1>7. Sound(t)' /\ Sound(u)'
  BY <1>4, <1>6
<1>8. Len(tokens) > 0 => Follows(tokens[Len(tokens)], t)
  <2>1. fun \in Marked /\ mark.idx <= t.start /\ t.start <= t.end
    BY <1>2, <1>4 DEF Marked
  <2> QED
    BY <1>2, <1>4, <2>1, Behind
<1>9. /\ Made' /\ tokens' \in Seq(Tokens) /\ Len(tokens') = Len(tokens) + 1
      /\ tokens'[Len(tokens')] = t
  BY <1>4, <1>5, <1>7, <1>8, MadeOneMore
<1>10. LexerTypeOK'
  BY <1>1, <1>4, <1>5, <1>9 DEF LexerInv, LexerTypeOK, Return
<1>11. Queued'
  <2>1. fun' = "idle" /\ next'.kind = "RStrExpr"
    BY <1>4, <1>5 DEF Return
  <2>2. Sound(next)'
    BY <1>5, <1>7, Zenon DEF Sound
  <2>3. Follows(tokens'[Len(tokens')], next')
    BY <1>2, <1>4, <1>5, <1>9 DEF Follows
  <2> QED
    BY <2>1, <2>2, <2>3, Zenon DEF Queued
<1>12. InString'
  BY DEF InString, Return
<1>13. Bracketed'
  <2>1. ~ Open(Append(tokens', u))
    BY <1>4, <1>9, OpenAppend
  <2>2. next'.kind # "COUNT"
    BY <1>4, <1>5
  <2> QED
    BY <1>5, <2>1, <2>2, Zenon DEF Bracketed, Open
<1> QED
  BY <1>1, <1>9, <1>10, <1>11, <1>12, <1>13 DEF LexerInv

(* The other ends of a string. *)
LEMMA EndStringKept ==
  ASSUME LexerInv, fun = "string", NEW j \in Nat, idx <= j, NEW closed, EndString(j, closed),
         UNCHANGED <<text, mark, inStr, strExpr>>, ~ (inStr /\ closed)
  PROVE  LexerInv'
<1>1. /\ Advance(j) /\ UNCHANGED next
      /\ Again \/ Return(Token("String", mark.idx, Clip(j), mark.coord))
  BY Zenon DEF EndString
<1>2. Advanced /\ idx' = Clip(j)
  BY <1>1, AdvanceMoves
<1>3. CASE Again
  BY <1>1, <1>2, <1>3, GoesOn DEF Again
<1>4. CASE Return(Token("String", mark.idx, Clip(j), mark.coord))
  <2>1. mark.idx \in Nat /\ mark.idx <= idx /\ mark.coord = Coordinates(mark.idx)
    BY InvPlaces
  <2>2. Clip(j) \in Nat /\ mark.idx <= Clip(j) /\ Clip(j) <= idx'
    BY <1>2, <2>1, InvText DEF Advanced
  <2>3. "String" \in Ordinary /\ fun \in Marked
    BY DEF Ordinary, LiteralKinds, Marked
  <2>4. Return(Token("String", mark.idx, Clip(j), Coordinates(mark.idx)))
    BY <1>4, <2>1, Zenon
  <2> QED
    BY <1>1, <1>2, <2>1, <2>2, <2>3, <2>4, MakesOrdinary
<1> QED
  BY <1>1, <1>3, <1>4

LEMMA ClosingQuoteKept ==
  ASSUME LexerInv, fun = "string", Peek(0) # EOF, strExpr' = FALSE, EndString(idx + 1, TRUE),
         UNCHANGED <<text, mark, inStr>>
  PROVE  LexerInv'
<1>1. idx \in Nat /\ Len(text) \in Nat /\ idx < Len(text)
  BY InvText DEF Peek, At
<1>2. idx > mark.idx /\ inStr = strExpr /\ mark.idx \in Nat /\ inStr \in BOOLEAN
  BY InvPlaces DEF LexerInv, InString, LexerTypeOK
<1>3. Clip(idx + 1) = idx + 1 /\ Clip(idx + 1) - mark.idx > 1 /\ idx + 1 \in Nat /\ idx <= idx + 1
  BY <1>1, <1>2 DEF Clip
<1>4. CASE inStr = TRUE
  <2>1. /\ Advance(idx + 1)
        /\ Return(Token("String", mark.idx, Clip(idx + 1), mark.coord))
        /\ next' = Token("RStrExpr", mark.idx, Clip(idx + 1), mark.coord)
    BY <1>3, <1>4, Zenon DEF EndString
  <2>2. Advanced /\ idx' = Clip(idx + 1)
    BY <1>3, <2>1, AdvanceMoves
  <2> QED
    BY <2>1, <2>2, ClosedStrExprKept
<1>5. CASE inStr = FALSE
  BY <1>2, <1>3, <1>5, EndStringKept
<1> QED
  BY <1>2, <1>4, <1>5

LEMMA UnterminatedKept ==
  ASSUME LexerInv, fun = "string", Unterminated, UNCHANGED <<text, mark, inStr, strExpr>>
  PROVE  LexerInv'
<1> DEFINE stop == EatUntil(idx, {"\"", "\n"})
<1>1. (Advance(stop + 1) \/ Advance(stop)) /\ Again /\ UNCHANGED next
  BY Zenon DEF Unterminated
<1>2. IsText /\ Len(text) \in Nat /\ idx \in Nat /\ idx <= Len(text)
  BY InvText
<1>3. stop \in idx .. Len(text)
  <2>1. \A S : EatUntil(idx, S) \in idx .. Len(text)
    BY <1>2, EatBounds
  <2> QED
    BY <2>1, Zenon
<1> HIDE DEF stop
<1>4. stop \in Nat /\ idx <= stop /\ stop + 1 \in Nat /\ idx <= stop + 1
  BY <1>2, <1>3
<1>5. Advanced
  BY <1>1, <1>4, AdvanceMoves
<1> QED
  BY <1>1, <1>5, GoesOn DEF Again

LEMMA StringEscapeKept ==
  ASSUME LexerInv, fun = "string", StringEscape, UNCHANGED <<text, mark, inStr, strExpr, next>>
  PROVE  LexerInv'
<1> DEFINE e == Lexer_tokEscapedChar(idx + 1, TRUE)
<1>1. \/ fun' = "aborted" /\ UNCHANGED <<idx, pos, tokens>>
      \/ ~ e.abort /\ Advance(e.to) /\ UNCHANGED <<fun, tokens>>
  BY Zenon DEF StringEscape, AbortLexer
<1>2. IsText /\ Len(text) \in Nat /\ idx \in Nat /\ idx <= Len(text) /\ idx + 1 \in Nat
      /\ idx <= idx + 1
  BY InvText
<1>3. Stops(e, idx)
  BY <1>2, EscapedCharStops, Zenon
<1> HIDE DEF e
<1>4. CASE fun' = "aborted" /\ UNCHANGED <<idx, pos, tokens>>
  <2>1. Advanced
    BY <1>4, StaysAdvanced
  <2> QED
    BY <1>4, <2>1, GoesOn
<1>5. CASE ~ e.abort /\ Advance(e.to) /\ UNCHANGED <<fun, tokens>>
  <2>1. e.to \in Nat /\ idx <= e.to
    BY <1>2, <1>3, <1>5 DEF Stops
  <2>2. Advanced
    BY <1>5, <2>1, AdvanceMoves
  <2>3. fun \in Marked
    BY DEF Marked
  <2> QED
    BY <1>5, <2>2, <2>3, GoesOn
<1> QED
  BY <1>1, <1>4, <1>5, Zenon

LEMMA StringStepKept ==
  ASSUME LexerInv, StringStep
  PROVE  LexerInv'
<1>1. fun = "string" /\ UNCHANGED <<text, mark, inStr>>
  BY Zenon DEF StringStep
<1>2. idx \in Nat /\ idx + 1 \in Nat /\ idx + 2 \in Nat /\ idx <= idx + 1 /\ idx <= idx + 2
  BY InvText
<1>3. CASE Peek(0) = "\"" /\ strExpr' = FALSE /\ EndString(idx + 1, TRUE)
  <2>1. Peek(0) # EOF
    BY <1>3, Zenon DEF EOF
  <2> QED
    BY <1>1, <1>3, <2>1, ClosingQuoteKept, Zenon
<1>4. CASE (EndString(idx + 1, FALSE) \/ EndString(idx + 2, FALSE)) /\ UNCHANGED strExpr
  BY <1>1, <1>2, <1>4, EndStringKept
<1>5. CASE Unterminated /\ UNCHANGED strExpr
  BY <1>1, <1>5, UnterminatedKept
<1>6. CASE StringEscape /\ UNCHANGED <<strExpr, next>>
  BY <1>1, <1>6, StringEscapeKept
<1>7. CASE Advance(idx + 1) /\ UNCHANGED <<strExpr, next, fun, tokens>>
  <2>1. Advanced /\ fun \in Marked
    BY <1>1, <1>2, <1>7, AdvanceMoves DEF Marked
  <2> QED
    BY <1>1, <1>7, <2>1, GoesOn
<1> QED
  BY <1>3, <1>4, <1>5, <1>6, <1>7, Zenon DEF StringStep

LEMMA LexerStepKept ==
  ASSUME LexerInv, LexerStep
  PROVE  LexerInv'
BY resetNextKept, nextKept, operatorKept, unexpectedKept, beginStrExprKept, eofKept, tokIdentKept,
   tokNumberKept, tokCommentKept, CommentStepKept, tokCharKept, RuneStepKept, readRuneKept,
   CloseQuoteKept, tokStringKept, StringStepKept, Zenon DEF LexerStep

-----------------------------------------------------------------------------
(* What the window sees of a step of the lexer. *)
LEMMA LexerStepGives ==
  ASSUME LexerStep
  PROVE  /\ fun \notin {"idle", "eof"}
         /\ (fun' # "idle" /\ tokens' = tokens) \/ \E t : Return(t)
<1>1. CASE Lexer_resetNext
  BY <1>1, Zenon DEF Lexer_resetNext
<1>2. CASE Lexer_next
  BY <1>2, Zenon DEF Lexer_next
<1>3. CASE Lexer_operator
  BY <1>3, Zenon DEF Lexer_operator, Tokenizing
<1>4. CASE Lexer_unexpected
  BY <1>4, Zenon DEF Lexer_unexpected, Tokenizing, Again
<1>5. CASE Lexer_beginStrExpr
  BY <1>5, Zenon DEF Lexer_beginStrExpr, Tokenizing
<1>6. CASE Lexer_eof
  BY <1>6, Zenon DEF Lexer_eof, Tokenizing
<1>7. CASE Lexer_tokIdent
  BY <1>7, Zenon DEF Lexer_tokIdent, Tokenizing
<1>8. CASE Lexer_tokNumber
  BY <1>8, Zenon DEF Lexer_tokNumber, Tokenizing, Again
<1>9. CASE Lexer_tokComment
  BY <1>9, Zenon DEF Lexer_tokComment, Tokenizing
<1>10. CASE CommentStep
  BY <1>10, Zenon DEF CommentStep, EndComment, Again
<1>11. CASE Lexer_tokChar
  BY <1>11, Zenon DEF Lexer_tokChar, Tokenizing, AbortLexer
<1>12. CASE RuneStep
  BY <1>12, Zenon DEF RuneStep
<1>13. CASE Lexer_readRune
  BY <1>13, Zenon DEF Lexer_readRune, AbortLexer
<1>14. CASE CloseQuote
  BY <1>14, Zenon DEF CloseQuote, Again
<1>15. CASE Lexer_tokString
  BY <1>15, Zenon DEF Lexer_tokString, Tokenizing
<1>16. CASE StringStep
  BY <1>16, Zenon DEF StringStep, EndString, Unterminated, StringEscape, AbortLexer, Again
<1> QED
  BY <1>1, <1>2, <1>3, <1>4, <1>5, <1>6, <1>7, <1>8, <1>9, <1>10, <1>11, <1>12, <1>13, <1>14,
     <1>15, <1>16, Zenon DEF LexerStep

(* The tokens the window has, while it waits for one more. *)
Held == IF dest = "curr" THEN taken ELSE taken \o Present(curr)

WindowTypeOK ==
  curr \in Tokens /\ peek \in Tokens /\ taken \in Seq(Tokens) /\ dest \in {"none", "curr", "peek"}

(* No token is peeked when the lexer is called; the window then has all the
   tokens made but the one the lexer returns. *)
Waiting ==
  dest # "none" =>
    /\ peek.kind = "COUNT"
    /\ fun # "idle" => tokens = Held
    /\ fun = "idle" => Len(tokens) > 0 /\ tokens = Append(Held, tokens[Len(tokens)])

IInv == LexerInv /\ WindowTypeOK /\ Waiting /\ WindowInOrder

LEMMA PresentIs ==
  ASSUME NEW t \in Tokens
  PROVE  /\ Present(t) \in Seq(Tokens)
         /\ t.kind = "COUNT" => Present(t) = <<>>
         /\ t.kind # "COUNT" => Present(t) = <<t>>
BY DEF Present

LEMMA InitInv == Init => IInv
<1> SUFFICES ASSUME Init PROVE IInv
  OBVIOUS
<1>1. /\ text \in Texts /\ idx = 0 /\ pos = Origin /\ strExpr = FALSE /\ next = NoToken
      /\ mark = [idx |-> 0, coord |-> Origin] /\ inStr = FALSE /\ tokens = <<>> /\ fun = "next"
  BY DEF Init, LexerInit
<1>2. Len(text) \in Nat
  <2>1. IsText
    BY <1>1, LexerAssumption, Zenon DEF IsText
  <2> QED
    BY <2>1, TextLen
<1>3. Coordinates(0) = Origin
  <2>1. Newlines(0, 0) = {} /\ Cardinality({}) = 0
    BY FS_EmptySet DEF Newlines
  <2>2. Coordinates(0) = [line |-> Cardinality(Newlines(0, 0)),
                          column |-> IF Newlines(0, 0) = {} THEN 0 ELSE 0 - 1 - Max(Newlines(0, 0))]
    BY Zenon DEF Coordinates, Newlines
  <2> QED
    BY <2>1, <2>2 DEF Origin
<1>4. LexerTypeOK
  <2>1. idx \in 0 .. Len(text) /\ mark.idx \in 0 .. idx
    BY <1>1, <1>2
  <2>2. tokens \in Seq(Tokens) /\ next \in Tokens
    BY <1>1, NoTokenIs
  <2> QED
    BY <1>1, <2>1, <2>2, Zenon DEF LexerTypeOK
<1>5. Placed
  BY <1>1, <1>3 DEF Placed
<1>6. Made /\ Queued /\ InString
  BY <1>1, NoTokenIs DEF Made, Queued, InString, Marked
<1>7. Bracketed
  <2>1. ~ Open(tokens)
    BY <1>1 DEF Open
  <2> QED
    BY <1>1, <2>1, NoTokenIs DEF Bracketed
<1>8. WindowTypeOK /\ WindowInOrder /\ Waiting
  BY <1>1, NoTokenIs DEF Init, WindowTypeOK, WindowInOrder, Waiting, Held
<1> QED
  BY <1>4, <1>5, <1>6, <1>7, <1>8 DEF LexerInv, IInv

(* A step that leaves the lexer alone, or calls Lexer_next wherever the last
   call of it ended. *)
LEMMA RestsKept ==
  ASSUME LexerInv, fun' = fun \/ fun' = "next",
         UNCHANGED <<text, idx, pos, strExpr, next, mark, inStr, tokens>>
  PROVE  LexerInv'
<1>1. \A i : Coordinates(i)' = Coordinates(i)
  BY DEF Coordinates, At
<1>2. LexerTypeOK' /\ Placed'
  BY <1>1 DEF LexerInv, LexerTypeOK, Placed
<1>3. Made'
  <2>1. \A k \in DOMAIN tokens' : Sound(tokens[k])'
    BY <1>1, Zenon DEF LexerInv, Made, Sound
  <2>2. \A k \in 1 .. Len(tokens') - 1 : Follows(tokens'[k], tokens'[k + 1])
    BY DEF LexerInv, Made
  <2>3. fun' \in Marked => \A k \in DOMAIN tokens' : tokens'[k].end <= mark'.idx
    BY DEF LexerInv, Made, Marked
  <2> QED
    BY <2>1, <2>2, <2>3, Zenon DEF Made
<1>4. Queued'
  BY <1>1, Zenon DEF LexerInv, Queued, Sound
<1>5. InString' /\ Bracketed'
  BY DEF LexerInv, InString, Bracketed
<1> QED
  BY <1>2, <1>3, <1>4, <1>5 DEF LexerInv

LEMMA CallKept ==
  ASSUME LexerInv, NEW field, Call(field)
  PROVE  LexerInv' /\ fun' = "next" /\ tokens' = tokens /\ dest' = field
<1>1. /\ fun' = "next" /\ dest' = field
      /\ UNCHANGED <<text, idx, pos, strExpr, next, mark, inStr, tokens>>
  BY DEF Call
<1> QED
  BY <1>1, RestsKept

LEMMA LexingKept ==
  ASSUME IInv, Lexing
  PROVE  IInv'
<1>1. /\ dest # "none" /\ LexerStep /\ LexerInv
      /\ UNCHANGED <<curr, peek, prev, dest, taken>>
  BY DEF Lexing, IInv, window
<1>2. LexerInv'
  BY <1>1, LexerStepKept
<1>3. WindowTypeOK' /\ WindowInOrder' /\ Held' = Held
  BY <1>1 DEF IInv, WindowTypeOK, WindowInOrder, Held
<1>4. tokens = Held /\ peek.kind = "COUNT"
  BY <1>1, LexerStepGives DEF IInv, Waiting
<1>5. Waiting'
  <2>1. CASE fun' # "idle" /\ tokens' = tokens
    BY <1>1, <1>3, <1>4, <2>1 DEF Waiting
  <2>2. ASSUME NEW t, Return(t) PROVE Waiting'
    <3>1. fun' = "idle" /\ tokens' = Append(Held, t)
      BY <1>4, <2>2 DEF Return
    <3>2. Held \in Seq(Tokens)
      BY <1>1, <1>4 DEF LexerInv, LexerTypeOK
    <3>3. Len(tokens') > 0 /\ tokens'[Len(tokens')] = t
      BY <3>1, <3>2
    <3> QED
      BY <1>1, <1>3, <1>4, <3>1, <3>3 DEF Waiting
  <2> QED
    BY <1>1, <2>1, <2>2, LexerStepGives
<1> QED
  BY <1>2, <1>3, <1>5 DEF IInv

LEMMA DeliverKept ==
  ASSUME IInv, Deliver
  PROVE  IInv'
<1> DEFINE tok == IF fun = "eof" THEN Token("COUNT", idx, idx, pos) ELSE tokens[Len(tokens)]
<1>1. /\ dest \in {"curr", "peek"} /\ fun \in {"idle", "eof"} /\ dest' = "none" /\ taken' = taken
      /\ curr' = IF dest = "curr" THEN tok ELSE curr
      /\ peek' = IF dest = "peek" THEN tok ELSE peek
      /\ UNCHANGED lexer
  BY DEF Deliver, IInv, WindowTypeOK
<1>2. LexerInv'
  BY <1>1, RestsKept DEF IInv, lexer
<1>3. tokens' = tokens /\ tokens \in Seq(Tokens) /\ peek.kind = "COUNT"
      /\ curr \in Tokens /\ peek \in Tokens /\ taken \in Seq(Tokens) /\ Held \in Seq(Tokens)
  BY <1>1, PresentIs DEF lexer, IInv, LexerInv, LexerTypeOK, Waiting, WindowTypeOK, Held
<1>4. tok \in Tokens /\ tokens = Held \o Present(tok)
  <2>1. CASE fun = "eof"
    <3>1. idx \in Nat /\ pos \in Places
      BY InvText, InvPlaces DEF IInv
    <3>2. tok \in Tokens /\ tok.kind = "COUNT"
      BY <2>1, <3>1 DEF Token, Tokens, Special
    <3>3. tokens = Held
      BY <1>1, <2>1 DEF IInv, Waiting
    <3>4. Present(tok) = <<>>
      BY <3>2, PresentIs
    <3> QED
      BY <1>3, <3>2, <3>3, <3>4
  <2>2. CASE fun = "idle"
    <3>1. Len(tokens) > 0 /\ tokens = Append(Held, tokens[Len(tokens)]) /\ tok = tokens[Len(tokens)]
      BY <1>1, <2>2 DEF IInv, Waiting
    <3>2. Len(tokens) \in DOMAIN tokens /\ tok \in Tokens
      BY <1>3, <3>1
    <3>3. tok.kind # "COUNT"
      BY <3>1, <3>2, Zenon DEF IInv, LexerInv, Made, Sound
    <3>4. Present(tok) = <<tok>>
      BY <3>2, <3>3, PresentIs
    <3> HIDE DEF tok
    <3>5. Append(Held, tok) = Held \o <<tok>>
      BY <1>3, <3>2
    <3> QED
      BY <3>1, <3>2, <3>4, <3>5
  <2> QED
    BY <1>1, <2>1, <2>2
<1> HIDE DEF tok
<1>5. WindowTypeOK'
  BY <1>1, <1>3, <1>4 DEF WindowTypeOK
<1>6. Waiting'
  BY <1>1 DEF Waiting
<1>7. WindowInOrder'
  <2>1. CASE dest = "curr"
    <3>1. curr' = tok /\ peek' = peek /\ Held = taken /\ Present(peek) = <<>>
      BY <1>1, <1>3, <2>1, PresentIs DEF Held
    <3>2. Present(tok) \in Seq(Tokens)
      BY <1>4, PresentIs
    <3>3. taken \o Present(tok) \o <<>> = taken \o Present(tok)
      BY <1>3, <3>2
    <3>4. taken' \o Present(curr') \o Present(peek') = tokens'
      BY <1>1, <1>3, <1>4, <3>1, <3>3
    <3> QED
      BY <3>4 DEF WindowInOrder, Present
  <2>2. CASE dest = "peek"
    <3>1. curr' = curr /\ peek' = tok /\ Held = taken \o Present(curr)
      BY <1>1, <2>2 DEF Held
    <3>2. taken' \o Present(curr') \o Present(peek') = tokens'
      BY <1>1, <1>3, <1>4, <3>1
    <3> QED
      BY <3>2 DEF WindowInOrder, Present
  <2> QED
    BY <1>1, <2>1, <2>2
<1> QED
  BY <1>2, <1>5, <1>6, <1>7 DEF IInv

LEMMA advanceKept ==
  ASSUME IInv, ITokenParser_advance
  PROVE  IInv'
<1>1. /\ dest = "none" /\ taken' = IF curr.kind = "COUNT" THEN taken ELSE Append(taken, curr)
      /\ \/ /\ peek.kind # "COUNT" /\ curr' = peek /\ peek' = [peek EXCEPT !.kind = "COUNT"]
            /\ UNCHANGED <<lexer, dest>>
         \/ peek.kind = "COUNT" /\ Call("curr") /\ UNCHANGED <<curr, peek>>
  BY DEF ITokenParser_advance, ITP_eof
<1>2. /\ LexerInv /\ curr \in Tokens /\ peek \in Tokens /\ taken \in Seq(Tokens)
      /\ tokens = taken \o Present(curr) \o Present(peek)
  BY <1>1 DEF IInv, WindowTypeOK, WindowInOrder
<1>3. taken' = taken \o Present(curr) /\ taken' \in Seq(Tokens) /\ Present(curr) \in Seq(Tokens)
  <2>1. CASE curr.kind = "COUNT"
    BY <1>1, <1>2, <2>1, PresentIs
  <2>2. CASE curr.kind # "COUNT"
    <3>1. Append(taken, curr) = taken \o <<curr>> /\ Append(taken, curr) \in Seq(Tokens)
      BY <1>2
    <3>2. Present(curr) = <<curr>> /\ Present(curr) \in Seq(Tokens)
      BY <1>2, <2>2, PresentIs
    <3> QED
      BY <1>1, <2>2, <3>1, <3>2
  <2> QED
    BY <2>1, <2>2
<1>4. CASE /\ peek.kind # "COUNT" /\ curr' = peek /\ peek' = [peek EXCEPT !.kind = "COUNT"]
           /\ UNCHANGED <<lexer, dest>>
  <2>1. LexerInv'
    BY <1>2, <1>4, RestsKept DEF lexer
  <2>2. peek' \in Tokens /\ peek'.kind = "COUNT"
    BY <1>2, <1>4 DEF Tokens, Special
  <2>3. WindowTypeOK' /\ Waiting'
    BY <1>1, <1>2, <1>3, <1>4, <2>2 DEF WindowTypeOK, Waiting
  <2>4. WindowInOrder'
    <3>1. ASSUME NEW p, p = peek', p \in Tokens, p.kind = "COUNT" PROVE Present(peek') = <<>>
      BY <3>1, PresentIs, Zenon
    <3>2. Present(peek') = <<>>
      BY <2>2, <3>1
    <3>3. Present(curr') = Present(peek) /\ Present(peek) \in Seq(Tokens) /\ tokens' = tokens
      BY <1>2, <1>4, PresentIs DEF lexer
    <3>4. (taken \o Present(curr) \o Present(peek)) \o <<>> = taken \o Present(curr) \o Present(peek)
      BY <1>2, <1>3, <3>3
    <3>5. taken' \o Present(curr') \o Present(peek') = tokens'
      BY <1>2, <1>3, <3>2, <3>3, <3>4, Zenon
    <3> QED
      BY <3>5 DEF WindowInOrder, Present
  <2> QED
    BY <2>1, <2>3, <2>4 DEF IInv
<1>5. CASE peek.kind = "COUNT" /\ Call("curr") /\ UNCHANGED <<curr, peek>>
  <2>1. LexerInv' /\ fun' = "next" /\ tokens' = tokens /\ dest' = "curr"
    BY <1>2, <1>5, CallKept
  <2>2. tokens = taken'
    <3>1. Present(peek) = <<>>
      BY <1>2, <1>5, PresentIs
    <3> QED
      BY <1>2, <1>3, <3>1
  <2>3. WindowTypeOK' /\ WindowInOrder'
    BY <1>2, <1>3, <1>5, <2>1 DEF WindowTypeOK, WindowInOrder
  <2>4. Waiting'
    BY <1>5, <2>1, <2>2 DEF Waiting, Held
  <2> QED
    BY <2>1, <2>3, <2>4 DEF IInv
<1> QED
  BY <1>1, <1>4, <1>5

LEMMA peekKept ==
  ASSUME IInv, ITokenParser_peek
  PROVE  IInv'
<1>1. dest = "none" /\ peek.kind = "COUNT" /\ Call("peek") /\ UNCHANGED <<curr, peek, prev, taken>>
  BY DEF ITokenParser_peek
<1>2. /\ LexerInv /\ curr \in Tokens /\ peek \in Tokens /\ taken \in Seq(Tokens)
      /\ tokens = taken \o Present(curr) \o Present(peek)
  BY <1>1 DEF IInv, WindowTypeOK, WindowInOrder
<1>3. LexerInv' /\ fun' = "next" /\ tokens' = tokens /\ dest' = "peek"
  BY <1>1, <1>2, CallKept
<1>4. tokens = taken \o Present(curr)
  <2>1. Present(peek) = <<>> /\ Present(curr) \in Seq(Tokens)
    BY <1>1, <1>2, PresentIs
  <2> QED
    BY <1>2, <2>1
<1>5. WindowTypeOK' /\ WindowInOrder'
  BY <1>1, <1>2, <1>3 DEF WindowTypeOK, WindowInOrder
<1>6. Held' = taken \o Present(curr)
  BY <1>1, <1>3 DEF Held, Present
<1>7. Waiting'
  BY <1>1, <1>3, <1>4, <1>6 DEF Waiting
<1> QED
  BY <1>3, <1>5, <1>7 DEF IInv

LEMMA NextKept == IInv /\ [Next]_vars => IInv'
<1> SUFFICES ASSUME IInv, [Next]_vars PROVE IInv'
  OBVIOUS
<1>1. CASE UNCHANGED vars
  <2>1. UNCHANGED <<text, idx, pos, strExpr, next, fun, mark, inStr, tokens, curr, peek, dest, taken>>
    BY <1>1 DEF vars, lexer, window
  <2>2. LexerInv'
    BY <2>1, RestsKept DEF IInv
  <2>3. WindowTypeOK' /\ Waiting' /\ WindowInOrder'
    BY <2>1 DEF IInv, WindowTypeOK, Waiting, WindowInOrder, Held
  <2> QED
    BY <2>2, <2>3 DEF IInv
<1>2. CASE Next
  <2>1. Lexing \/ Deliver \/ ITokenParser_advance \/ ITokenParser_peek
    BY <1>2, Zenon DEF Next, ITokenParser_match
  <2> QED
    BY <2>1, LexingKept, DeliverKept, advanceKept, peekKept
<1> QED
  BY <1>1, <1>2

-----------------------------------------------------------------------------
(* The lexer and the window of itp.c keep their invariant, whatever the text
   and in whatever order a parser peeks, matches and advances: every token has
   the coordinates of its start, none reaches behind the place the next one
   starts at, a token is queued only behind a closed string expression, and
   while the lexer is at work the window has every token made before. *)
THEOREM LexerInvariant == Spec => []IInv
BY InitInv, NextKept, PTL DEF Spec

(* The line and column a token carries, kept up by Lexer_updatePos while the
   lexer scans, are those Range_sub counts from the start of the text. *)
THEOREM CoordinatesSafe == Spec => []CoordinatesAgree
<1>1. IInv => CoordinatesAgree
  BY Zenon DEF IInv, LexerInv, Made, Sound, CoordinatesAgree
<1> QED
  BY <1>1, LexerInvariant, PTL

(* The assertion of Range_extend holds of any two neighbouring tokens. *)
THEOREM RangesSafe == Spec => []RangesExtend
<1>1. IInv => RangesExtend
  BY DEF IInv, LexerInv, Made, Sound, Follows, RangesExtend
<1> QED
  BY <1>1, LexerInvariant, PTL

(* lxfInStrExpr is set exactly while the last bracket lexed opens a string
   expression, so that a closing brace resumes the string that it belongs to. *)
THEOREM BracketsSafe == Spec => []StrExprBracketed
<1>1. IInv => StrExprBracketed
  BY DEF IInv, LexerInv, Bracketed, Open, StrExprBracketed
<1> QED
  BY <1>1, LexerInvariant, PTL

(* A parser is given every token once and in order, however it mixes
   ITokenParser_peek, ITokenParser_match_ and ITokenParser_advance. *)
THEOREM WindowSafe == Spec => []WindowInOrder
<1>1. IInv => WindowInOrder
  BY DEF IInv
<1> QED
  BY <1>1, LexerInvariant, PTL
=============================================================================
