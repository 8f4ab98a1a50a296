-------------------------------- MODULE Lexer --------------------------------
(***************************************************************************)
(* The scanner (src/src/front/lexical.cpp): it takes the comments out of   *)
(* the source line by line, puts the lines one after the other with blanks *)
(* between them, and feeds the result to an automaton character by         *)
(* character.                                                              *)
(*                                                                         *)
(* Data.  A character is a symbol; a symbol that is a word stands for its   *)
(* letters, so that a keyword is one symbol.  Digits are "0" and "1".       *)
(***************************************************************************)
EXTENDS SequencesExt, Integers

CONSTANT Sources  \* the files: sequences of lines, a line a sequence of symbols
NewLine == "newline"
\* getline ends a line at the new line, which it leaves out.
ASSUME SourcesAssumption ==
  \A f \in Sources : f \in Seq(Seq(STRING)) /\ \A n \in DOMAIN f : \A k \in DOMAIN f[n] : f[n][k] # NewLine

VARIABLES
  file,            \* Scanner::fin
  line,            \* the line getline reads next
  inBlockComment,  \* preprocess: the line begins in a block comment
  ss,              \* preprocess: what it has put together
  pos,             \* run: the character of ss that comes next
  cur_state,       \* DFA::cur_state
  cur_str,         \* DFA::cur_str
  ans,             \* run: the tokens
  failed           \* the assertion that failed, or ""

scanner == <<file, line, inBlockComment, ss, pos, cur_state, cur_str, ans, failed>>

-----------------------------------------------------------------------------
(* Characters and words.                                                    *)

keywords == [const |-> "CONSTTK", int |-> "INTTK", float |-> "FLOATTK", if |-> "IFTK",
             else |-> "ELSETK", while |-> "WHILETK", continue |-> "CONTINUETK",
             break |-> "BREAKTK", return |-> "RETURNTK", void |-> "VOIDTK"]
Digits   == {"0", "1"}
Letters  == DOMAIN keywords \cup {"a", "x"}
AlNum    == Letters \cup Digits
opwords1 == {")", "+", "-", "*", "/", "%", "<", ">", ":", "=", ";", ",", "(", "[", "]",
             "{", "}", "!", "|", "&"}
opwords2 == {<<"<", "=">>, <<">", "=">>, <<"=", "=">>, <<"!", "=">>, <<"&", "&">>, <<"|", "|">>}

get_Ident_type(s) == IF Len(s) = 1 /\ s[1] \in DOMAIN keywords THEN keywords[s[1]] ELSE "IDENFR"

OneCharOps ==
  [c \in opwords1 \ {"|", "&"} |->
     CASE c = "+" -> "PLUS"    [] c = "-" -> "MINU"    [] c = "*" -> "MULT"   [] c = "/" -> "DIV"
       [] c = "%" -> "MOD"     [] c = "<" -> "LSS"     [] c = ">" -> "GTR"    [] c = ":" -> "COLON"
       [] c = "=" -> "ASSIGN"  [] c = ";" -> "SEMICN"  [] c = "," -> "COMMA"  [] c = "!" -> "NOT"
       [] c = "(" -> "LPARENT" [] c = ")" -> "RPARENT" [] c = "[" -> "LBRACK"
       [] c = "]" -> "RBRACK"  [] c = "{" -> "LBRACE"  [] OTHER -> "RBRACE"]
TwoCharOps ==
  [s \in opwords2 |->
     CASE s = <<"<", "=">> -> "LEQ" [] s = <<">", "=">> -> "GEQ" [] s = <<"=", "=">> -> "EQL"
       [] s = <<"!", "=">> -> "NEQ" [] s = <<"&", "&">> -> "AND" [] OTHER -> "OR"]
get_op_type(s) ==
  CASE s \in opwords2 -> TwoCharOps[s]
    [] Len(s) = 1 /\ s[1] \in DOMAIN OneCharOps -> OneCharOps[s[1]]
    [] OTHER -> "invalid operator!"

-----------------------------------------------------------------------------
(* preprocess: one line after the other.                                    *)

Opening == <<"/", "*">>
Closing == <<"*", "/">>
Slashes == <<"/", "/">>
npos == 0
TwoAt(l, k) == IF k \in 1 .. (Len(l) - 1) THEN <<l[k], l[k + 1]>> ELSE <<>>
\* std::string::find of a mark of two characters, from position k on.
FindFrom(l, mark, k) ==
  LET at == {j \in k .. Len(l) : TwoAt(l, j) = mark}
  IN  IF at = {} THEN npos ELSE Min(at)
Find(l, mark) == FindFrom(l, mark, 1)
Before(l, k) == SubSeq(l, 1, k - 1)
After(l, k)  == SubSeq(l, k + 2, Len(l))

\* Seeded bug: a block comment counts wherever the line has a //.
OpensAnyhow(l) == Find(l, Opening) # npos
\* Only the first /* of a line, and only in front of every //.
OpensBlock(l) == /\ Find(l, Opening) # npos
                 /\ Find(l, Slashes) = npos \/ Find(l, Opening) < Find(l, Slashes)

\* The line without its block comment, and whether the comment goes on.
WithoutBlock(l) ==
  LET start == Find(l, Opening)
      end   == IF inBlockComment THEN Find(l, Closing) ELSE FindFrom(l, Closing, start + 2)
  IN  CASE inBlockComment /\ end # npos -> [text |-> After(l, end), open |-> FALSE]
        [] inBlockComment /\ end = npos -> [text |-> <<>>, open |-> TRUE]
        [] ~inBlockComment /\ OpensBlock(l) /\ end # npos ->
             [text |-> Before(l, start) \o After(l, end), open |-> FALSE]
        [] ~inBlockComment /\ OpensBlock(l) /\ end = npos ->
             [text |-> Before(l, start), open |-> TRUE]
        [] OTHER -> [text |-> l, open |-> FALSE]
WithoutSlashes(p) ==
  IF ~p.open /\ Find(p.text, Slashes) # npos THEN Before(p.text, Find(p.text, Slashes)) ELSE p.text

\* Seeded bug: nothing separates the lines.
OnlyJoined(text) == ss \o text
Joined(text) == ss \o text \o <<" ">>
Preprocess ==
  /\ line <= Len(file)
  /\ LET p == WithoutBlock(file[line])
         processedLine == WithoutSlashes(p)
     IN  /\ inBlockComment' = p.open
         /\ ss' = IF processedLine = <<>> THEN ss ELSE Joined(processedLine)
  /\ line' = line + 1
  /\ UNCHANGED <<file, pos, cur_state, cur_str, ans, failed>>

-----------------------------------------------------------------------------
(* DFA::next: one action per state.                                         *)

c == ss[pos]
Reading(state) ==
  /\ line > Len(file) /\ pos <= Len(ss) /\ failed = ""
  /\ cur_state = state
InText == UNCHANGED <<file, line, inBlockComment, ss>>

TokenType ==
  CASE cur_state = "FloatLiteral" -> "FLOATLTR"
    [] cur_state = "IntLiteral"   -> "INTLTR"
    [] cur_state = "Ident"        -> get_Ident_type(cur_str)
    [] cur_state = "op"           -> get_op_type(cur_str)

Read(state, str) ==
  cur_state' = state /\ cur_str' = str /\ pos' = pos + 1 /\ InText
Longer(state) == Read(state, Append(cur_str, c)) /\ UNCHANGED <<ans, failed>>
Failing(what) ==
  /\ failed' = what
  /\ pos' = pos + 1 /\ InText /\ UNCHANGED <<cur_state, cur_str, ans>>
\* The token is complete; c begins the next one, or is a blank.
Emit(state, str) ==
  IF TokenType = "invalid operator!" THEN Failing(TokenType)
  ELSE /\ ans' = Append(ans, [type |-> TokenType, value |-> cur_str])
       /\ Read(state, str) /\ UNCHANGED failed

Blank ==
  /\ \E state \in {"FloatLiteral", "IntLiteral", "Ident", "op"} : Reading(state)
  /\ c = " "
  /\ Emit("Empty", <<>>)
BlankAgain == Reading("Empty") /\ c = " " /\ Read("Empty", <<>>) /\ UNCHANGED <<ans, failed>>

FromEmpty ==
  /\ Reading("Empty") /\ c # " "
  /\ \/ c \in Letters \cup {"_"} /\ Longer("Ident")
     \/ c \in opwords1 /\ Longer("op")
     \/ c = "." /\ Longer("FloatLiteral")
     \/ c \in Digits /\ Longer("IntLiteral")

FromFloatLiteral ==
  /\ Reading("FloatLiteral") /\ c # " "
  /\ \/ c \in Digits /\ Longer("FloatLiteral")
     \/ c \in opwords1 /\ Emit("op", <<c>>)
     \/ c \notin Digits \cup opwords1 /\ Failing("invalid FloatLiteral char")

FromIdent ==
  /\ Reading("Ident") /\ c # " "
  /\ \/ c \in AlNum \cup {"_"} /\ Longer("Ident")
     \/ c \in opwords1 /\ Emit("op", <<c>>)
     \/ c \notin AlNum \cup {"_"} \cup opwords1 /\ Failing("invalid Ident char")

FromIntLiteral ==
  /\ Reading("IntLiteral") /\ c # " "
  /\ \/ c = "." /\ Longer("FloatLiteral")
     \/ c \in AlNum /\ Longer("IntLiteral")
     \/ c \in opwords1 /\ Emit("op", <<c>>)
     \/ c = "_" /\ Failing("invalid Ident char")

\* Seeded bug: any two characters of operators are one operator.
AnyTwo == Len(cur_str) = 1
\* cur_str and c are one operator.
OneOperator == Append(cur_str, c) \in opwords2

\* A point begins an int literal here.
FromOp ==
  /\ Reading("op") /\ c # " "
  /\ \/ c \in Digits \cup {"."} /\ Emit("IntLiteral", <<c>>)
     \/ c \in Letters \cup {"_"} /\ Emit("Ident", <<c>>)
     \/ c \in opwords1 /\ OneOperator /\ Longer("op")
     \/ c \in opwords1 /\ ~OneOperator /\ Emit("op", <<c>>)

ScanDone == line > Len(file) /\ (pos > Len(ss) \/ failed # "")
Scanned  == ScanDone /\ UNCHANGED scanner

ScanInit ==
  /\ file \in Sources
  /\ line = 1 /\ inBlockComment = FALSE /\ ss = <<>>
  /\ pos = 1 /\ cur_state = "Empty" /\ cur_str = <<>> /\ ans = <<>> /\ failed = ""
ScanNext ==
  \/ Preprocess \/ Blank \/ BlankAgain \/ FromEmpty \/ FromFloatLiteral \/ FromIdent
  \/ FromIntLiteral \/ FromOp \/ Scanned
LexerSpec == ScanInit /\ [][ScanNext]_scanner

-----------------------------------------------------------------------------
(* What the language says: comments are blanks, tokens are as long as they  *)
(* can be.                                                                  *)

Text(f) == FlattenSeq([k \in DOMAIN f |-> Append(f[k], NewLine)])

\* Block comments and what ends a line become blanks, from left to right; "after" is
\* code on a line on which a block comment has ended.  A block comment that the code
\* does not take for a blank becomes Odd, a character of no token: one that begins on
\* a line on which another one has ended, and one with characters right in front of
\* it and right behind it on its line.
Odd == "?"
Modes == {"code", "after", "block", "line"}
Touching(t, k) == k \in DOMAIN t /\ t[k] \notin {" ", NewLine}
Glued(t, k) ==
  LET end == FindFrom(t, Closing, k + 2)
  IN  /\ Touching(t, k - 1) /\ end # npos /\ Touching(t, end + 2)
      /\ \A j \in k .. end : t[j] # NewLine
Comments(t) ==
  LET read[k \in 1 .. (Len(t) + 1)] ==
        [m \in Modes |->
           IF k > Len(t) THEN <<>>
           ELSE IF t[k] = NewLine
             THEN IF m = "block" THEN read[k + 1][m] ELSE <<" ">> \o read[k + 1]["code"]
           ELSE IF m \in {"code", "after"} /\ TwoAt(t, k) = Opening
             THEN <<IF m = "after" \/ Glued(t, k) THEN Odd ELSE " ">> \o read[k + 2]["block"]
           ELSE IF m \in {"code", "after"} /\ TwoAt(t, k) = Slashes THEN read[k + 2]["line"]
           ELSE IF m \in {"code", "after"} THEN <<t[k]>> \o read[k + 1][m]
           ELSE IF m = "block" /\ TwoAt(t, k) = Closing THEN read[k + 2]["after"]
           ELSE read[k + 1][m]]
  IN  read[1]["code"]

WordChars == AlNum \cup {"_", "."}
IsIdent(w) == w[1] \in Letters \cup {"_"} /\ \A k \in DOMAIN w : w[k] # "."
IsInt(w)   == \/ \A k \in DOMAIN w : w[k] \in Digits
              \/ Len(w) > 2 /\ w[1] = "0" /\ w[2] = "x" /\ \A k \in 3 .. Len(w) : w[k] \in AlNum
IsFloat(w) == /\ \E k \in DOMAIN w : w[k] = "." /\ \A j \in DOMAIN w \ {k} : w[j] \in Digits
              /\ Len(w) > 1
\* The length of the token at k: a word as long as it goes, or an operator.
LengthAt(t, k) ==
  IF t[k] \in WordChars
  THEN Max({n \in 1 .. (Len(t) - k + 1) : \A j \in k .. (k + n - 1) : t[j] \in WordChars})
  ELSE IF TwoAt(t, k) \in opwords2 THEN 2 ELSE 1
KindOf(w) ==
  CASE w[1] \in WordChars /\ IsIdent(w) -> get_Ident_type(w)
    [] w[1] \in WordChars /\ IsInt(w)   -> "INTLTR"
    [] w[1] \in WordChars /\ IsFloat(w) -> "FLOATLTR"
    [] w[1] \in opwords1 -> get_op_type(w)
    [] OTHER -> "no token"
TokensOf(t) ==
  LET from[k \in 1 .. (Len(t) + 1)] ==
        IF k > Len(t) THEN <<>>
        ELSE IF t[k] = " " THEN from[k + 1]
        ELSE LET w == SubSeq(t, k, k + LengthAt(t, k) - 1)
             IN  <<[type |-> KindOf(w), value |-> w]>> \o from[k + Len(w)]
  IN  from[1]

-----------------------------------------------------------------------------
(* Properties.                                                              *)

AllTokens(t) ==
  \A k \in DOMAIN TokensOf(t) : TokensOf(t)[k].type \notin {"no token", "invalid operator!"}

\* A point right behind an operator. What begins there is a FLOATLTR of the language (the
\* .0 of "if (.0 &&", test/ref/s0/function/95_float.tk:373) and an INTLTR of the code
\* (lexical.cpp:136-141): CutInto says nothing of the kinds of a text with one.
PointBehindOperator(t) == \E k \in 2 .. Len(t) : t[k] = "." /\ t[k - 1] \in opwords1
Spelling(tokens) == [k \in DOMAIN tokens |-> tokens[k].value]
\* The text has been cut where the language says and, where no point is behind an
\* operator, into tokens of the kinds it says.
CutInto(t) ==
  /\ failed = "" /\ Spelling(ans) = Spelling(TokensOf(t))
  /\ ~PointBehindOperator(t) => ans = TokensOf(t)

\* A source that is a sequence of tokens without its comments is scanned into them,
\* without a failing assertion: the removal of comments by searching each line for
\* marks finds the same comments as reading from left to right, and the automaton
\* cuts what is left into the longest tokens (lexical.cpp:52-175, 195-258).
ScansTheSource ==
  ScanDone => LET text == Comments(Text(file)) IN AllTokens(text) => CutInto(text)

\* The second half of that for itself, whatever preprocess has put together: a text
\* that can be cut into the longest tokens is, and no assertion fails on the way; the
\* state, the pending characters and the tokens never get out of step
\* (lexical.cpp:52-175, 252-258).
CutsTheText == ScanDone /\ AllTokens(ss) => CutInto(ss)

\* Whatever the source: every character that was read and is no blank is in exactly
\* one token, in its order, the last ones in the token that is not complete yet; at
\* the end none is left over (lexical.cpp:52-175, 252).
NonBlank(s) ==
  LET upTo[n \in 0 .. Len(s)] ==
        IF n = 0 THEN <<>>
        ELSE IF s[n] = " " THEN upTo[n - 1] ELSE Append(upTo[n - 1], s[n])
  IN  upTo[Len(s)]
NothingLost ==
  failed = "" =>
    /\ FlattenSeq([k \in DOMAIN ans |-> ans[k].value]) \o cur_str = NonBlank(SubSeq(ss, 1, pos - 1))
    /\ ScanDone => cur_str = <<>>
=============================================================================
