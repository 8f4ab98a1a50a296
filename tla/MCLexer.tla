------------------------------ MODULE MCLexer ------------------------------
(***************************************************************************)
(* Small sources for Lexer: all short texts of the characters of comments, *)
(* all short texts of the characters of tokens.                            *)
(***************************************************************************)
EXTENDS Lexer

\* The lines of a text.
LinesOf(t) ==
  LET Step(ls, d) == IF d = NewLine THEN Append(ls, <<>>)
                     ELSE [ls EXCEPT ![Len(ls)] = Append(@, d)]
  IN  FoldLeft(Step, << <<>> >>, t)
TextsOf(pieces, n) == {FlattenSeq(s) : s \in UNION {[1 .. k -> pieces] : k \in 0 .. n}}

CommentPieces == {<<"a">>, <<"/">>, <<"*">>, <<NewLine>>, <<" ">>, Opening, Closing, Slashes}
TokenPieces   == {<<"a">>, <<"if">>, <<"0">>, <<"x">>, <<".">>, <<"=">>, <<"<">>, <<"&">>, <<";">>, <<" ">>, <<"_">>}
MCSources == {LinesOf(t) : t \in TextsOf(CommentPieces, 5) \cup TextsOf(TokenPieces, 4)}
=============================================================================
