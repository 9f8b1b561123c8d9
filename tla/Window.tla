------------------------------- MODULE Window -------------------------------
(***************************************************************************)
(* What a reader of the pager sees: a window of height lines on a text of  *)
(* total lines, which never leaves the text, and moves by a line, a page,  *)
(* to an end of the text or to the line that has been searched for.        *)
(***************************************************************************)
EXTENDS Integers

CONSTANT Page

VARIABLES
  total, height,   \* of the text and of the window
  top,             \* lines above the window
  found            \* the line the last search has found, or -1

windowVars == <<total, height, top, found>>

Least(a, b) == IF a <= b THEN a ELSE b
Greatest(a, b) == IF a >= b THEN a ELSE b

Bottom == Greatest(total - height, 0)

Init == top = 0 /\ found = 0

Down == top' = Least(top + 1, Bottom)
Up == top' = Greatest(top - 1, 0)

\* A page ahead, or part of one; not less than a line unless at the bottom.
PageDown == top' \in Least(top + 1, Bottom)..Least(top + Page, Bottom)

Home == top' = 0
End == top' = Bottom

Scroll == (Down \/ Up \/ PageDown \/ Home \/ End) /\ UNCHANGED found

\* Another line is the second of the window, as far as the text allows.
Find ==
  /\ found' \in 0..total - 1
  /\ found' # found
  /\ top' = Least(Greatest(found' - 1, 0), Bottom)

\* The next search is for something else.
Forget == found' = -1 /\ UNCHANGED top

Next == (Scroll \/ Find \/ Forget) /\ UNCHANGED <<total, height>>

Spec == Init /\ [][Next]_windowVars
=============================================================================
