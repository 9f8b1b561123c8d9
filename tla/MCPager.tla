------------------------------ MODULE MCPager ------------------------------
(***************************************************************************)
(* Module Pager for texts shorter and longer than the window and the page, *)
(* and tokens that none, one or several of their lines contain.            *)
(***************************************************************************)
EXTENDS Pager

MCContains(line, text) ==
  \E i \in 0..Len(line) - Len(text) : SubSeq(line, i + 1, i + Len(text)) = text

MCLetters == {"G", "g", "q", "/"}

Long == << <<"g", "G">>, <<>>, <<"g">>, <<"G", " ">>, <<"g", "g">>, <<"/">>, <<"g">> >>

MCTexts == {SubSeq(Long, i, j) : i \in {1, 2}, j \in {1, 3, 5, 7}}
=============================================================================
