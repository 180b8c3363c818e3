---------------------------- MODULE TokenParser ----------------------------
(***************************************************************************)
(* The window of tokens the parsers see: ITokenParser of                   *)
(* src/src/compiler/common/itp.c, on top of the lexer.                     *)
(*                                                                         *)
(* A parser looks at curr, may look one token ahead (peek) and advances,   *)
(* which makes curr prev.  Each look ahead and each advance may call       *)
(* Lexer_next, whose result goes to curr or to peek.  At the end of the    *)
(* text Lexer_next leaves the kind tokCOUNT, by which the window also      *)
(* tells that there is no peeked token.                                    *)
(***************************************************************************)
EXTENDS Lexer

VARIABLES curr, peek, prev,  \* the window
          dest,              \* the field Lexer_next is called for, or "none"
          taken              \* the tokens a parser advanced over

window == <<curr, peek, prev, dest, taken>>
vars == <<lexer, window>>

(* ITokenParser_init calls Lexer_next for curr. *)
Init ==
  /\ LexerInit /\ fun = "next"
  /\ curr = NoToken /\ peek = NoToken /\ prev = NoToken
  /\ dest = "curr" /\ taken = <<>>

Call(field) ==
  /\ dest' = field /\ fun' = "next"
  /\ UNCHANGED <<text, idx, pos, strExpr, next, range, mark, inStr, level, log, tokens>>

(* Lexer_next returns to the window. *)
Deliver ==
  LET tok == IF fun = "eof" THEN Token("COUNT", idx, idx, pos) ELSE tokens[Len(tokens)] IN
  /\ dest # "none" /\ fun \in {"idle", "eof"}
  /\ curr' = IF dest = "curr" THEN tok ELSE curr
  /\ peek' = IF dest = "peek" THEN tok ELSE peek
  /\ dest' = "none"
  /\ UNCHANGED <<lexer, prev, taken>>

(* ITP_eof *)
ITP_eof == dest = "none" /\ curr.kind = "COUNT"

(* Fault: the peeked token stays in the window. *)
ITokenParser_advanceKeeps ==
  /\ dest = "none"
  /\ prev' = curr
  /\ taken' = IF ITP_eof THEN taken ELSE Append(taken, curr)
  /\ \/ peek.kind # "COUNT" /\ curr' = peek /\ UNCHANGED <<lexer, peek, dest>>
     \/ peek.kind = "COUNT" /\ Call("curr") /\ UNCHANGED <<curr, peek>>

(* ITokenParser_advance.  curr never has the kind tokEoF. *)
ITokenParser_advance ==
  /\ dest = "none"
  /\ prev' = curr
  /\ taken' = IF ITP_eof THEN taken ELSE Append(taken, curr)
  /\ \/ /\ peek.kind # "COUNT"
        /\ curr' = peek
        /\ peek' = [peek EXCEPT !.kind = "COUNT"]
        /\ UNCHANGED <<lexer, dest>>
     \/ peek.kind = "COUNT" /\ Call("curr") /\ UNCHANGED <<curr, peek>>

ITokenParser_check(kinds) == ~ITP_eof /\ curr.kind \in kinds

(* ITokenParser_match_, where it does not return false. *)
ITokenParser_match(kinds) == ITokenParser_check(kinds) /\ ITokenParser_advance

(* ITokenParser_peek, where it has to call the lexer. *)
ITokenParser_peek ==
  /\ dest = "none" /\ peek.kind = "COUNT"
  /\ Call("peek")
  /\ UNCHANGED <<curr, peek, prev, taken>>

Lexing == dest # "none" /\ LexerStep /\ UNCHANGED window

Next ==
  \/ Lexing \/ Deliver \/ ITokenParser_advance \/ ITokenParser_peek
  \/ \E kinds \in {{"Nl"}, {"Identifier", "Integer"}} : ITokenParser_match(kinds)

(* The lexer is called and returns in one thread; every loop of a parser
   advances again and again until ITP_eof. *)
Fairness ==
  WF_vars(Lexing) /\ WF_vars(Deliver) /\ SF_vars(ITokenParser_advance)

Spec == Init /\ [][Next]_vars /\ Fairness

-----------------------------------------------------------------------------
(* The line and the column the lexer kept up to date while it scanned are
   those of the place a token starts at, counted from the start of the text as
   Range_sub does; a new line has those of the line it starts. *)
CoordinatesAgree ==
  \A k \in DOMAIN tokens :
    LET t == tokens[k] IN
    t.coord = Coordinates(IF t.kind = "Nl" THEN t.start + 1 ELSE t.start)

(* The ranges of neighbouring tokens can be joined: what Range_extend asserts
   of the operand and of the token behind it in Assembler_parse_instruction_arg
   holds of any two neighbours, whatever the lexer skipped or queued between
   them, and none reaches behind the text that was read. *)
RangesExtend ==
  /\ \A k \in 1 .. Len(tokens) - 1 :
       tokens[k].start <= tokens[k + 1].start /\ tokens[k].end <= tokens[k + 1].end
  /\ \A k \in DOMAIN tokens : tokens[k].start <= tokens[k].end /\ tokens[k].end <= idx

(* lxfInStrExpr is set exactly while a string expression is open: the last
   bracket given out, or queued, is the one that opens it.  It decides what a
   closing brace means, many tokens later. *)
StrExprBracketed ==
  LET all == IF next.kind = "COUNT" THEN tokens ELSE Append(tokens, next)
  IN  strExpr <=> \E k \in DOMAIN all :
                    /\ all[k].kind = "LStrExpr"
                    /\ \A l \in k + 1 .. Len(all) : all[l].kind \notin {"LStrExpr", "RStrExpr"}

(* Whatever a parser peeks at, it is given every token once and in the order
   they were lexed: those advanced over, then curr, then the peeked one. *)
Present(t) == IF t.kind = "COUNT" THEN <<>> ELSE <<t>>

WindowInOrder ==
  dest = "none" => taken \o Present(curr) \o Present(peek) = tokens

(* A parser gets to the end of every text, or the compiler aborts with a
   message, unless the lexer looks for the quote that closes a rune at the end
   of the text: Lexer_tokChar does not test for it. *)
LexingEnds ==
  <>(ITP_eof \/ fun = "aborted" \/ (fun = "rune" /\ idx = Len(text)))
=============================================================================
