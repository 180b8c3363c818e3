------------------------------- MODULE Lexer -------------------------------
(***************************************************************************)
(* The lexer, src/src/compiler/common/lexer.c, over the token list of      *)
(* token.h and the ranges of source.c.                                     *)
(*                                                                         *)
(* A call of Lexer_next skips blanks and makes one token.  Operators,      *)
(* numbers and names are made in one step; the loops over comments,        *)
(* strings and runes take one step for every character, so that a loop     *)
(* that never ends is a behaviour that never ends.  Characters are strings *)
(* of length one (bq is the backquote); bytes of 0x80 and more are the     *)
(* classes lead (first byte of a sequence of two) and cont.  Lexer_peek    *)
(* answers (char)EOF behind the text, which is also the byte 0xFF.         *)
(* Characters are counted from 0, as in the code.  What a literal          *)
(* evaluates to is left out, except whether it fits.                       *)
(***************************************************************************)
EXTENDS Integers, Sequences, FiniteSetsExt

CONSTANTS Texts,        \* the sources lexed: sequences of characters
          Keywords,     \* spellings in sKeyWordList
          RangeDigits,  \* digits of the largest number strtoull and strtod represent
          MAX_DIGITS_IN_INTEGER

ASSUME LexerAssumption ==
  /\ \A t \in Texts : t \in Seq({t[k] : k \in DOMAIN t})
  /\ RangeDigits \in Nat /\ MAX_DIGITS_IN_INTEGER \in Nat

VARIABLES text,         \* lX->src
          idx, pos,     \* lX->idx, lX->pos
          strExpr,      \* lX->flags & lxfInStrExpr
          next,         \* lX->next
          range,        \* errno == ERANGE, which nothing resets
          fun,          \* where the call of Lexer_next is
          mark,         \* Position pos of the function it is in
          inStr,        \* inStrExpr of tokString
          level,        \* level of tokComment
          log,          \* errors and warnings of the Log
          tokens        \* every token made so far

lexer == <<text, idx, pos, strExpr, next, range, fun, mark, inStr, level, log, tokens>>

EOF == "xff"
Blank  == {" ", "\t", "\n"}
Octal  == {"0", "1", "2", "3", "4", "5", "6", "7"}
Digit  == Octal \cup {"8", "9"}
XDigit == Digit \cup {"a", "b", "c", "d", "e", "f", "A", "B", "C", "D", "E", "F"}
Letter == {"a", "b", "c", "d", "e", "f", "g", "i", "n", "p", "r", "t", "u", "v", "x", "y",
           "A", "B", "C", "D", "E", "F", "P", "U", "X"}

(* Lexer_peek, from the start of the text. *)
At(i) == IF i < Len(text) THEN text[i + 1] ELSE EOF

Peek(n) == At(idx + n)

(* Lexer_eatWhile, and with the complement Lexer_eatUntilAnyOf: the first place
   from i on whose character is not in S. *)
EatWhile(i, S) ==
  Min({Len(text)} \cup {j \in i .. Len(text) - 1 : text[j + 1] \notin S})

EatUntil(i, S) ==
  Min({Len(text)} \cup {j \in i .. Len(text) - 1 : text[j + 1] \in S})

(* Fault: a new line does not start a column. *)
Lexer_updatePosNoReset(p, i, j) ==
  [line |-> p.line + Cardinality({k \in i .. j - 1 : At(k) = "\n"}),
   column |-> p.column + (j - i)]

(* Lexer_updatePos for every character from i up to j. *)
Lexer_updatePos(p, i, j) ==
  LET newlines == {k \in i .. j - 1 : At(k) = "\n"}
  IN  [line |-> p.line + Cardinality(newlines),
       column |-> IF newlines = {} THEN p.column + (j - i) ELSE j - 1 - Max(newlines)]

(* Lexer_advance to place j, at most to the end of the text. *)
Clip(j) == IF j < Len(text) THEN j ELSE Len(text)

Advance(j) == idx' = Clip(j) /\ pos' = Lexer_updatePos(pos, idx, Clip(j))

Token(kind, start, end, coord) == [kind |-> kind, start |-> start, end |-> end, coord |-> coord]

Origin == [line |-> 0, column |-> 0]
NoToken == Token("COUNT", 0, 0, Origin)

Mark == [idx |-> idx, coord |-> pos]

Error == log' = [log EXCEPT !.errors = @ + 1]
Warn(n) == log' = [log EXCEPT !.warnings = @ + n]

(* A token is made: Lexer_next returns.  fun is then "idle". *)
Return(tok) == fun' = "idle" /\ tokens' = Append(tokens, tok)

(* tokCOUNT is returned: Lexer_next calls itself. *)
Again == fun' = "next" /\ UNCHANGED tokens

(* Lexer_init and Lexer_reset. *)
LexerInit ==
  /\ text \in Texts
  /\ idx = 0 /\ pos = Origin /\ strExpr = FALSE /\ next = NoToken /\ range = FALSE
  /\ mark = [idx |-> 0, coord |-> Origin] /\ inStr = FALSE /\ level = 0
  /\ log = [errors |-> 0, warnings |-> 0] /\ tokens = <<>>

-----------------------------------------------------------------------------
(* Lexer_resetNext: a token queued by Lexer_tokString comes first. *)
Lexer_resetNext ==
  /\ fun = "next" /\ next.kind # "COUNT"
  /\ next' = NoToken
  /\ Return(next)
  /\ UNCHANGED <<text, idx, pos, strExpr, range, mark, inStr, level, log>>

(* Lexer_next: blanks are skipped; if there is a new line among them it is the
   token, with the coordinates of the line it starts. *)
Lexer_next ==
  LET stop == EatWhile(idx, Blank)
      nl   == EatUntil(idx, {"\n"})
  IN
  /\ fun = "next" /\ next.kind = "COUNT"
  /\ Advance(stop)
  /\ IF nl < stop
     THEN Return(Token("Nl", nl, nl, Lexer_updatePos(pos, idx, nl + 1)))
     ELSE fun' = "tokenize" /\ UNCHANGED tokens
  /\ UNCHANGED <<text, strExpr, next, range, mark, inStr, level, log>>

(* The operators of Lexer_tokenize: their characters and their kinds. *)
Operator1 ==
  {<<"%", "Mod">>, <<"/", "Div">>, <<"*", "Mult">>, <<"+", "Plus">>, <<"-", "Minus">>,
   <<"|", "BitOr">>, <<"&", "BitAnd">>, <<"^", "BitOr">>, <<"~", "Complement">>,
   <<">", "Gt">>, <<"<", "Lt">>, <<"=", "Assign">>, <<".", "Dot">>, <<":", "Colon">>,
   <<"!", "Not">>, <<"{", "LBrace">>, <<"}", "RBrace">>, <<"[", "LBracket">>,
   <<"]", "RBracket">>, <<"(", "LParen">>, <<")", "RParen">>, <<"@", "At">>,
   <<"#", "Hash">>, <<"?", "Question">>, <<"bq", "Backquote">>, <<";", "Semicolon">>,
   <<",", "Comma">>, <<"$", "Dollar">>, <<"\\", "BackSlash">>}

Operator2 ==
  {<<<<"%", "=">>, "ModAssign">>, <<<<"/", "=">>, "DivAssign">>,
   <<<<"*", "*">>, "Exponent">>, <<<<"*", "=">>, "MultAssign">>,
   <<<<"+", "+">>, "PlusPlus">>, <<<<"+", "=">>, "PlusAssign">>,
   <<<<"-", "-">>, "MinusMinus">>, <<<<"-", ">">>, "LArrow">>,
   <<<<"-", "=">>, "MinisAssign">>, <<<<"|", "|">>, "LOr">>,
   <<<<"|", "=">>, "BitOrAssign">>, <<<<"&", "&">>, "LAnd">>,
   <<<<"&", "=">>, "BitAndAssign">>, <<<<"^", "=">>, "BitXorAssign">>,
   <<<<"~", "=">>, "CompAssign">>, <<<<">", ">">>, "Sar">>, <<<<"<", "-">>, "LArrow">>,
   <<<<"<", "<">>, "Sal">>, <<<<"=", "=">>, "Equal">>, <<<<".", ".">>, "DotDot">>,
   <<<<":", ":">>, "DColon">>}

Operator3 ==
  {<<<<">", ">", "=">>, "SarAssign">>, <<<<"<", "<", "=">>, "SalAssign">>,
   <<<<".", ".", ".">>, "Elipsis">>}

(* The characters of the operators in a table. *)
Spelled(table) == {op[1] : op \in table}

(* What decides which function makes the token at idx. *)
Starts ==
  LET c == Peek(0) cc == Peek(1) IN
  CASE c = "/" /\ cc \in {"*", "/"}                  -> "comment"
    [] c \in Digit \/ (c = "." /\ cc \in Digit)      -> "number"
    [] c = "\"" \/ (c = "}" /\ strExpr)              -> "string"
    [] c = "f" /\ cc = "\""                          -> "strexpr"
    [] c = "'"                                       -> "char"
    [] c \in Letter \cup {"_"} /\ <<c, cc>> # <<"f", "\"">> -> "ident"
    [] c = EOF                                       -> "eof"
    [] OTHER -> IF c \in Spelled(Operator1) THEN "operator" ELSE "unexpected"

Tokenizing(what) == fun = "tokenize" /\ Starts = what /\ UNCHANGED text

(* Fault: the range of an operator ends one character behind it. *)
Lexer_operatorLong ==
  LET c == Peek(0)
      two == <<c, Peek(1)>>
  IN
  /\ Tokenizing("operator")
  /\ \/ \E op \in Operator2 :
          op[1] = two /\ Advance(idx + 2) /\ Return(Token(op[2], idx, idx + 3, pos))
     \/ \E op \in Operator1 :
          /\ two \notin Spelled(Operator2) /\ op[1] = c
          /\ Advance(idx + 1) /\ Return(Token(op[2], idx, idx + 2, pos))
  /\ UNCHANGED <<strExpr, next, range, mark, inStr, level, log>>

(* IF, IF_ELSE, IF_ELSE2 and ADD of Lexer_tokenize.  The range ends where
   Lexer_advance began, so it is empty; the longest operators are left behind
   by two calls of it, which take a fourth character along. *)
Lexer_operator ==
  LET c == Peek(0)
      two == <<c, Peek(1)>>
      three == <<c, Peek(1), Peek(2)>>
  IN
  /\ Tokenizing("operator")
  /\ \/ \E op \in Operator3 :
          op[1] = three /\ Advance(idx + 4) /\ Return(Token(op[2], idx, idx + 3, pos))
     \/ \E op \in Operator2 :
          /\ three \notin Spelled(Operator3) /\ op[1] = two
          /\ Advance(idx + 2) /\ Return(Token(op[2], idx, idx, pos))
     \/ \E op \in Operator1 :
          /\ three \notin Spelled(Operator3) /\ two \notin Spelled(Operator2) /\ op[1] = c
          /\ Advance(idx + 1) /\ Return(Token(op[2], idx, idx, pos))
  /\ UNCHANGED <<strExpr, next, range, mark, inStr, level, log>>

Lexer_unexpected ==
  /\ Tokenizing("unexpected")
  /\ Advance(idx + 1) /\ Error /\ Again
  /\ UNCHANGED <<strExpr, next, range, mark, inStr, level>>

(* Fault: the flag is not set. *)
Lexer_beginStrExprUnset ==
  /\ Tokenizing("strexpr")
  /\ Advance(idx + 1)
  /\ Return(Token("LStrExpr", idx, idx, pos))
  /\ UNCHANGED <<strExpr, next, range, mark, inStr, level, log>>

(* f", of which the f is taken. *)
Lexer_beginStrExpr ==
  /\ Tokenizing("strexpr")
  /\ strExpr' = TRUE
  /\ Advance(idx + 1)
  /\ Return(Token("LStrExpr", idx, idx, pos))
  /\ UNCHANGED <<next, range, mark, inStr, level, log>>

(* tokEoF is returned, and out keeps the kind tokCOUNT. *)
Lexer_eof ==
  /\ Tokenizing("eof")
  /\ fun' = "eof"
  /\ UNCHANGED <<idx, pos, strExpr, next, range, mark, inStr, level, log, tokens>>

(* Lexer_initKeywordsMap: the map in which a spelling is looked up. *)
sKeyWordList(word) == IF word \in Keywords THEN "Keyword" ELSE "Identifier"

(* Lexer_tokIdent *)
Lexer_tokIdent ==
  LET stop == EatWhile(idx, Letter \cup Digit \cup {"_", "$"})
      kind == sKeyWordList(SubSeq(text, idx + 1, stop))
  IN
  /\ Tokenizing("ident")
  /\ Advance(stop)
  /\ Return(Token(kind, idx, stop, pos))
  /\ UNCHANGED <<strExpr, next, range, mark, inStr, level, log>>

-----------------------------------------------------------------------------
(* Lexer_parseInteger: the digits from `from' up to `to'.  A number with more
   than RangeDigits digits does not fit; one with more than
   MAX_DIGITS_IN_INTEGER fails an assertion. *)
Lexer_parseInteger(from, to) ==
  [kind |-> "Integer", to |-> to, bad |-> FALSE,
   over |-> to - from > RangeDigits, long |-> to - from > MAX_DIGITS_IN_INTEGER]

(* Lexer_tokFloatingPoint, at the point or the exponent.  A number with both
   ends before its exponent. *)
Lexer_tokFloatingPoint(i) ==
  LET isExp == At(i) # "."
      first == IF isExp /\ At(i + 1) \in {"-", "+"} THEN i + 2 ELSE i + 1
      to    == EatWhile(first, Digit)
  IN  [kind |-> "Float", to |-> to, bad |-> isExp /\ At(first) \notin Digit,
       over |-> isExp /\ to - first > RangeDigits, long |-> FALSE]

BadNumber(to) == [kind |-> "", to |-> to, bad |-> TRUE, over |-> FALSE, long |-> FALSE]

Lexer_tokHexNumber(i) ==
  LET j == EatWhile(i + 2, XDigit) IN
  IF At(j) \in {"p", "P"} THEN Lexer_tokFloatingPoint(j) ELSE Lexer_parseInteger(i + 2, j)

Lexer_tokBinaryNumber(i) ==
  LET j == EatWhile(i + 2, {"0", "1"}) IN
  IF At(j) \in Digit THEN BadNumber(EatWhile(j, Digit)) ELSE Lexer_parseInteger(i + 2, j)

Lexer_tokOctalNumber(i) ==
  LET j == EatWhile(i, Octal)
      k == EatWhile(j, Digit)
  IN  IF At(j) \notin Digit THEN Lexer_parseInteger(i, j)
      ELSE IF At(k) \in {".", "e", "E"} THEN Lexer_tokFloatingPoint(k) ELSE BadNumber(k)

Lexer_tokDecimalNumber(i) ==
  LET j == EatWhile(i, Digit) IN
  IF At(j) \in {".", "e", "E"} THEN Lexer_tokFloatingPoint(j) ELSE Lexer_parseInteger(i, j)

Number(i) ==
  LET c == At(i) cc == At(i + 1) ccc == At(i + 2) IN
  IF c # "0" THEN Lexer_tokDecimalNumber(i)
  ELSE IF cc \in {"x", "X"} /\ ccc \in XDigit THEN Lexer_tokHexNumber(i)
  ELSE IF cc \in {"b", "B"} /\ ccc \in {"0", "1"} THEN Lexer_tokBinaryNumber(i)
  ELSE IF cc \in {".", "e", "E"} THEN Lexer_tokFloatingPoint(i + 1)
  ELSE Lexer_tokOctalNumber(i)

(* Lexer_tokNumber.  errno is only ever set: after a number out of range no
   number is accepted. *)
Lexer_tokNumber ==
  LET n == Number(idx) IN
  /\ Tokenizing("number")
  /\ IF n.long
     THEN /\ fun' = "aborted"
          /\ UNCHANGED <<idx, pos, range, log, tokens>>
     ELSE /\ Advance(n.to)
          /\ range' = (range \/ (~ n.bad /\ n.over))
          /\ IF n.bad \/ range'
             THEN Error /\ Again
             ELSE Return(Token(n.kind, idx, n.to, pos)) /\ UNCHANGED log
  /\ UNCHANGED <<strExpr, next, mark, inStr, level>>

-----------------------------------------------------------------------------
(* Lexer_tokComment: the two characters that start it. *)
Lexer_tokComment ==
  /\ Tokenizing("comment")
  /\ Advance(idx + 2)
  /\ mark' = Mark /\ level' = 1 /\ fun' = "comment"
  /\ UNCHANGED <<strExpr, next, range, inStr, log, tokens>>

(* The end of it, at place j with l levels open. *)
EndComment(j, l) ==
  /\ IF At(mark.idx + 1) = "*" /\ l # 0
     THEN Error /\ Again
     ELSE Return(Token("Comment", mark.idx, Clip(j), mark.coord)) /\ UNCHANGED log
  /\ Advance(j) /\ level' = l

(* Fault: the loop does not test for the end of the text. *)
CommentStepNoEof ==
  LET c == Peek(0)
      closes == c = "*" /\ At(Clip(idx + 1)) = "/"
  IN
  /\ fun = "comment"
  /\ \/ c = "\n" /\ At(mark.idx + 1) # "*" /\ EndComment(idx + 1, level)
     \/ closes /\ EndComment(idx + 2, 0)
     \/ /\ ~ (c = "\n" /\ At(mark.idx + 1) # "*") /\ ~ closes
        /\ Advance(idx + 1)
        /\ UNCHANGED <<level, fun, log, tokens>>
  /\ UNCHANGED <<text, strExpr, next, range, mark, inStr>>

(* One turn of its loop.  A closing mark ends a comment of either kind. *)
CommentStep ==
  LET c == Peek(0)
      cc == At(Clip(idx + 1))
      multi == At(mark.idx + 1) = "*"
      closes == c = "*" /\ cc = "/"
      opens == c = "/" /\ cc = "*"
  IN
  /\ fun = "comment"
  /\ \/ c = "\n" /\ ~ multi /\ EndComment(idx + 1, level)
     \/ c = EOF /\ EndComment(idx + 1, level)
     \/ closes /\ level = 1 /\ EndComment(idx + 2, 0)
     \/ /\ ~ (c = "\n" /\ ~ multi) /\ c # EOF /\ ~ (closes /\ level = 1)
        /\ Advance(IF closes THEN idx + 2 ELSE idx + 1)
        /\ level' = IF closes THEN level - 1 ELSE IF opens THEN level + 1 ELSE level
        /\ UNCHANGED <<fun, log, tokens>>
  /\ UNCHANGED <<text, strExpr, next, range, mark, inStr>>

-----------------------------------------------------------------------------
(* isucn, of the hexadecimal digits of \u and \U: 0xA0 and above without the
   surrogates, and $ @ `. *)
Exempt == {<<"2", "4">>, <<"4", "0">>, <<"6", "0">>}

isucn(ds) ==
  LET n == Len(ds)
      wide == \E k \in 1 .. n - 4 : ds[k] # "0"
      low  == ds[n - 3] = "0" /\ ds[n - 2] = "0" /\ ds[n - 1] \in Digit
      surrogate == ds[n - 3] \in {"d", "D"} /\ ds[n - 2] \in XDigit \ Octal
  IN  wide \/ (~ surrogate /\ (~ low \/ <<ds[n - 1], ds[n]>> \in Exempt))

(* The outcome of Lexer_tokEscapedChar: where it stops, whether the character
   is 0x80 or above, and whether it gave a warning or ended the process. *)
Escape(to, high) == [to |-> Clip(to), high |-> high, warn |-> 0, abort |-> FALSE]

Abort == [to |-> 0, high |-> FALSE, warn |-> 0, abort |-> TRUE]

(* Lexer_tokUniversalChar looks one character ahead of the one it takes: the
   first digit is not read and the last one is left in the text. *)
Lexer_tokUniversalChar(i, n) ==
  LET ds == [k \in 1 .. n |-> At(i + k)] IN
  IF (\E k \in 1 .. n : ds[k] \notin XDigit) \/ ~ isucn(ds) THEN Abort
  ELSE Escape(i + n, \E k \in 1 .. n - 2 : ds[k] # "0" \/ ds[n - 1] \notin Digit)

(* Lexer_tokOctalChar: c and at most two digits more. *)
Lexer_tokOctalChar(c, i) ==
  LET stop == EatWhile(i, Octal) IN
  IF stop >= i + 2 THEN Escape(i + 2, c \notin {"0", "1"}) ELSE Escape(stop, FALSE)

(* Lexer_tokHexChar: as many digits as there are; eight of them count. *)
Lexer_tokHexChar(i) ==
  LET stop == EatWhile(i, XDigit) IN
  IF At(i) \notin XDigit THEN Abort
  ELSE Escape(stop, \/ At(stop - 2) \notin Octal /\ stop - 2 >= i
                    \/ \E k \in i .. stop - 3 : k >= stop - 8 /\ At(k) # "0")

(* Lexer_tokEscapedChar, behind the backslash. *)
Lexer_tokEscapedChar(i, str) ==
  LET c == At(i) IN
  CASE c = "x" -> Lexer_tokHexChar(i + 1)
    [] c = "u" -> Lexer_tokUniversalChar(i + 1, 4)
    [] c = "U" -> Lexer_tokUniversalChar(i + 1, 8)
    [] c \in Octal -> Lexer_tokOctalChar(c, i + 1)
    [] c \in {"'", "\"", "?", "\\", "$", "n", "a", "b", "f", "r", "t", "v", "e"}
       \/ (c = "\n" /\ str) -> Escape(i + 1, FALSE)
    [] OTHER -> [Escape(i + 1, c \in {"lead", "cont", EOF}) EXCEPT !.warn = 1]

AbortLexer ==
  /\ fun' = "aborted"
  /\ log' = [log EXCEPT !.errors = @ + 1]
  /\ UNCHANGED <<idx, pos, tokens>>

(* Lexer_tokChar, up to the rune loop or the closing quote. *)
Lexer_tokChar ==
  LET c == Peek(1)
      e == IF c = "\\" THEN Lexer_tokEscapedChar(idx + 2, FALSE)
           ELSE Escape(idx + 2, c \in {"lead", "cont", EOF})
  IN
  /\ Tokenizing("char")
  /\ mark' = Mark
  /\ IF e.abort THEN AbortLexer
     ELSE /\ Advance(e.to)
          /\ fun' = IF e.high THEN "rune" ELSE "quote"
          /\ Warn(e.warn)
          /\ UNCHANGED tokens
  /\ UNCHANGED <<strExpr, next, range, inStr, level>>

(* The rune loop.  It leaves the text alone at its end and goes on. *)
RuneStep ==
  /\ fun = "rune"
  /\ Advance(idx + 1)
  /\ fun' = IF At(Clip(idx + 1)) = "'" THEN "readRune" ELSE "rune"
  /\ UNCHANGED <<text, strExpr, next, range, mark, inStr, level, log, tokens>>

(* Lexer_readRune: a byte below 0x80 is accepted whatever follows it. *)
Lexer_readRune ==
  LET first == At(mark.idx + 1)
      fits  == first = "lead" /\ idx = mark.idx + 3 /\ At(mark.idx + 2) = "cont"
  IN
  /\ fun = "readRune"
  /\ IF first \in {"lead", "cont", EOF} /\ ~ fits
     THEN AbortLexer
     ELSE fun' = "quote" /\ UNCHANGED <<idx, pos, log, tokens>>
  /\ UNCHANGED <<text, strExpr, next, range, mark, inStr, level>>

(* The end of Lexer_tokChar. *)
CloseQuote ==
  LET stop == EatUntil(idx, {"\n", "'"}) IN
  /\ fun = "quote"
  /\ IF Peek(0) = "'"
     THEN Advance(idx + 1) /\ Return(Token("Char", mark.idx, idx, mark.coord)) /\ UNCHANGED log
     ELSE Advance(IF At(stop) = "'" THEN stop + 1 ELSE stop) /\ Error /\ Again
  /\ UNCHANGED <<text, strExpr, next, range, mark, inStr, level>>

-----------------------------------------------------------------------------
(* Lexer_tokString, behind the quote or brace that resumes the string. *)
Lexer_tokString ==
  /\ Tokenizing("string")
  /\ Advance(idx + 1)
  /\ mark' = Mark /\ inStr' = strExpr /\ fun' = "string"
  /\ UNCHANGED <<strExpr, next, range, level, log, tokens>>

(* The string, at place j.  A quote that closes a string expression yields a
   second token with the same range, which is queued. *)
EndString(j, closed) ==
  /\ Advance(j)
  /\ IF ~ inStr \/ Clip(j) - mark.idx > 1
     THEN /\ Return(Token("String", mark.idx, Clip(j), mark.coord))
          /\ next' = IF inStr /\ closed THEN Token("RStrExpr", mark.idx, Clip(j), mark.coord)
                     ELSE next
     ELSE Again /\ UNCHANGED next
  /\ UNCHANGED log

(* A string that is not a string expression ends at the line or the text. *)
Unterminated ==
  LET stop == EatUntil(idx, {"\"", "\n"}) IN
  /\ Advance(IF At(stop) = "\"" THEN stop + 1 ELSE stop)
  /\ Error /\ Again /\ UNCHANGED next

(* Stream_putUtf8 does not represent \U00200000 and above. *)
TooBig(i) ==
  At(i) = "U" /\ (At(i + 2) # "0" \/ At(i + 3) # "0" \/ At(i + 4) \notin {"0", "1"})

(* An escape in a string.  Stream_putUtf8 returns no value: its caller may or
   may not take it for a failure. *)
StringEscape ==
  LET e == Lexer_tokEscapedChar(idx + 1, TRUE) IN
  IF e.abort \/ TooBig(idx + 1)
  THEN AbortLexer
  ELSE /\ Advance(e.to)
       /\ \/ Warn(e.warn)
          \/ Peek(1) \in {"u", "U"} /\ Error
       /\ UNCHANGED <<fun, tokens>>

(* One turn of its loop.  Only the quote ends a string expression, or the
   expression in braces that interrupts it. *)
StringStep ==
  LET c == Peek(0)
      braces == strExpr /\ c = "$" /\ Peek(1) = "{"
  IN
  /\ fun = "string"
  /\ \/ c = "\"" /\ strExpr' = FALSE /\ EndString(idx + 1, TRUE)
     \/ c \in {"\n", EOF} /\ strExpr /\ EndString(idx + 1, FALSE) /\ UNCHANGED strExpr
     \/ c \in {"\n", EOF} /\ ~ strExpr /\ Unterminated /\ UNCHANGED strExpr
     \/ braces /\ EndString(idx + 2, FALSE) /\ UNCHANGED strExpr
     \/ c = "\\" /\ StringEscape /\ UNCHANGED <<strExpr, next>>
     \/ /\ c \notin {"\"", "\n", EOF, "\\"} /\ ~ braces
        /\ Advance(idx + 1)
        /\ UNCHANGED <<strExpr, next, fun, log, tokens>>
  /\ UNCHANGED <<text, range, mark, inStr, level>>

LexerStep ==
  \/ Lexer_resetNext \/ Lexer_next \/ Lexer_operator \/ Lexer_unexpected
  \/ Lexer_beginStrExpr \/ Lexer_eof \/ Lexer_tokIdent \/ Lexer_tokNumber
  \/ Lexer_tokComment \/ CommentStep
  \/ Lexer_tokChar \/ RuneStep \/ Lexer_readRune \/ CloseQuote
  \/ Lexer_tokString \/ StringStep

-----------------------------------------------------------------------------
(* Range_sub counts lines and columns anew, from the start of the text. *)
Coordinates(i) ==
  LET newlines == {k \in 0 .. i - 1 : At(k) = "\n"}
  IN  [line |-> Cardinality(newlines),
       column |-> IF newlines = {} THEN i ELSE i - 1 - Max(newlines)]
=============================================================================
