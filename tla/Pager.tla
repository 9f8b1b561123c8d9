------------------------------- MODULE Pager -------------------------------
(***************************************************************************)
(* Package pager: a viewer that reads its input as far as it is scrolled   *)
(* (ViewBuffer), and the loop over key events that drives it               *)
(* (Pager.Render).                                                         *)
(*                                                                         *)
(* The ViewBuffer is the record v: how many lines have been read, the      *)
(* index of the first line of the window, the index of the end of the      *)
(* input, or -1 while it is not known, and the height of the window.  An   *)
(* event is a step, with the call of draw that ends it; the loop of        *)
(* SearchFromLine is one step for each line it looks at.                   *)
(***************************************************************************)
EXTENDS Integers, Sequences

CONSTANTS
  Texts,            \* what the scanner may return until the end of the input
  Heights,          \* lines the terminal may have, but one
  PageSize,         \* lines the space bar scrolls
  Letters,          \* characters that can be typed
  Contains(_, _),   \* strings.Contains
  MaxToken          \* bound on the length of the search token

ASSUME TextsAssumption == \A t \in Texts : Len(t) \in Nat
ASSUME HeightsAssumption == Heights \subseteq Nat
ASSUME PageAssumption == PageSize \in Nat \ {0}

VARIABLES
  lines,                  \* the input, fixed while the pager runs
  v,                      \* the ViewBuffer
  lastSearchToken,
  lastSearchResultLine,
  g, search, search_result, token,   \* variables of Render
  lineIndex, stopAtLineIndex,        \* variables of SearchFromLine
  pc                      \* "key", "search", "quit" or "panic"

searchVars == <<lastSearchToken, lastSearchResultLine, lineIndex, stopAtLineIndex>>
modeVars == <<g, search, search_result, token>>
vars == <<lines, v, searchVars, modeVars, pc>>

-----------------------------------------------------------------------------
(***************************************************************************)
(* The ViewBuffer                                                          *)
(***************************************************************************)
N == Len(lines)

\* scan is called until n lines have been read, or it returns false.
ScanUntil(b, n) ==
  IF b.last # -1 \/ b.len >= n THEN b
  ELSE IF n <= N THEN [b EXCEPT !.len = n]
  ELSE [b EXCEPT !.len = N, !.last = N]

Begin(b, i) == [b EXCEPT !.begin = i]
NotNegative(i) == IF i < 0 THEN 0 ELSE i

\* A variant: the window is not moved back when the text ends in it.
CurrentViewNoClamp(b) == ScanUntil(b, b.begin + b.maxHeight)

\* A variant: one line too few is read.
CurrentViewOneShort(b) == ScanUntil(b, b.begin + b.maxHeight - 1)

CurrentView(b) ==
  LET read == ScanUntil(b, b.begin + b.maxHeight)
  IN  IF read.len - read.begin < b.maxHeight
      THEN Begin(read, NotNegative(read.len - b.maxHeight))
      ELSE Begin(read, NotNegative(read.begin))

ScrollUp(b) == IF b.begin > 0 THEN Begin(b, b.begin - 1) ELSE b

ScrollTop(b) == Begin(b, 0)

ScrollDown(b) ==
  IF b.len - b.begin > b.maxHeight THEN Begin(b, b.begin + 1)
  ELSE IF b.last = -1
  THEN LET read == ScanUntil(b, b.len + 1)
       IN  Begin(read, b.begin + (read.len - b.len))
  ELSE b

\* A variant: the height of the window does not count.
ScrollDownPastWindow(b, n) ==
  IF b.len - b.begin > b.maxHeight
  THEN Begin(b, b.len)
  ELSE Begin(ScanUntil(b, b.len + n), b.begin + n)

ScrollDownN(b, n) ==
  IF b.len - b.begin > b.maxHeight
  THEN IF b.len - b.begin >= b.maxHeight + n THEN Begin(b, b.begin + n)
       ELSE Begin(b, b.begin + (b.len - b.begin - b.maxHeight))
  ELSE IF b.last = -1
  THEN LET read == ScanUntil(b, b.len + n)
       IN  Begin(read, b.begin + (read.len - b.len))
  ELSE b

\* A variant: the line becomes the one above the window.
ScrollToNextLine(b, projected) ==
  Begin(ScanUntil(b, projected + b.maxHeight + 3), projected + 2)

ScrollToLine(b, projected) ==
  IF projected <= 0 THEN Begin(b, 0)
  ELSE LET read == ScanUntil(b, projected + b.maxHeight + 1)
       IN  IF read.len >= projected + b.maxHeight THEN Begin(read, projected)
           ELSE Begin(read, read.len - b.maxHeight)

ScrollBottom(b) ==
  LET read == ScanUntil(b, N + 1)
  IN  Begin(read, NotNegative(read.len - b.maxHeight))

-----------------------------------------------------------------------------
(***************************************************************************)
(* Events.  Every one but those that end the loop ends with a call of      *)
(* draw, which calls CurrentView.                                          *)
(***************************************************************************)
Init ==
  /\ lines \in Texts
  /\ \E h \in Heights : v = CurrentView([len |-> 0, begin |-> 0, last |-> -1, maxHeight |-> h])
  /\ lastSearchToken = <<>>
  /\ lastSearchResultLine = 0
  /\ g = FALSE
  /\ search = FALSE
  /\ search_result = FALSE
  /\ token = <<>>
  /\ lineIndex = 0
  /\ stopAtLineIndex = 0
  /\ pc = "key"

Searching == search \/ search_result

Draw(b) == v' = CurrentView(b)

Scroll(b) == Draw(b) /\ UNCHANGED <<lines, searchVars, modeVars, pc>>

Quit == pc' = "quit" /\ UNCHANGED <<lines, v, searchVars, modeVars>>

ArrowDown == pc = "key" /\ Scroll(ScrollDown(v))

ArrowUp == pc = "key" /\ Scroll(ScrollUp(v))

\* A variant: the result line of another token is kept.
SameSearch == lastSearchResultLine

\* The line the search starts after: none, for a new token.
SearchAfter == IF lastSearchToken # Tail(token) THEN -1 ELSE lastSearchResultLine

\* Search: token[1:] of an empty token is a panic, and nothing is looked
\* for if there is nothing after the slash.
Search ==
  \/ /\ Len(token) <= 1
     /\ Draw(v)
     /\ search_result' = FALSE
     /\ pc' = IF token = <<>> THEN "panic" ELSE "key"
     /\ UNCHANGED <<lines, searchVars, g, search, token>>
  \/ /\ Len(token) > 1
     /\ lastSearchToken' = Tail(token)
     /\ lastSearchResultLine' = SearchAfter
     /\ lineIndex' = SearchAfter + 1
     /\ stopAtLineIndex' = SearchAfter
     /\ pc' = "search"
     /\ UNCHANGED <<lines, v, modeVars>>

Enter ==
  /\ pc = "key"
  /\ \/ Searching /\ Search
     \/ ~Searching /\ Scroll(ScrollDown(v))

Type(c) ==
  /\ Len(token) < MaxToken
  /\ Draw(v)
  /\ token' = Append(token, c)
  /\ UNCHANGED <<lines, searchVars, g, search, search_result, pc>>

Space ==
  /\ pc = "key"
  /\ \/ ~Searching /\ Scroll(ScrollDownN(v, PageSize))
     \/ Searching /\ Type(" ")

Esc ==
  /\ pc = "key"
  /\ \/ ~Searching /\ Quit
     \/ /\ Searching
        /\ Draw(v)
        /\ search' = FALSE
        /\ search_result' = FALSE
        /\ token' = <<>>
        /\ UNCHANGED <<lines, searchVars, g, pc>>

\* A variant: the search goes on without a token.
BackspaceKeepsMode ==
  /\ pc = "key"
  /\ Draw(v)
  /\ token' = IF token = <<>> THEN <<>> ELSE SubSeq(token, 1, Len(token) - 1)
  /\ UNCHANGED <<lines, searchVars, g, search, search_result, pc>>

Backspace ==
  /\ pc = "key"
  /\ Draw(v)
  /\ token' = IF token = <<>> THEN <<>> ELSE SubSeq(token, 1, Len(token) - 1)
  /\ search' = (search /\ token' # <<>>)
  /\ search_result' = (search_result /\ token' # <<>>)
  /\ UNCHANGED <<lines, searchVars, g, pc>>

CtrlC == pc = "key" /\ Quit

\* An event that changes nothing, such as EventResize, is drawn after too.
OtherEvent == pc = "key" /\ Scroll(v)

Letter(c) ==
  /\ pc = "key"
  /\ \/ Searching /\ Type(c)
     \/ ~Searching /\ c = "G" /\ Scroll(ScrollBottom(v))
     \/ /\ ~Searching
        /\ c = "g"
        /\ Draw(IF g THEN ScrollTop(v) ELSE v)
        /\ g' = TRUE
        /\ UNCHANGED <<lines, searchVars, search, search_result, token, pc>>
     \/ ~Searching /\ c = "q" /\ Quit
     \/ /\ ~Searching
        /\ c = "/"
        /\ Draw(v)
        /\ search' = TRUE
        /\ token' = <<"/">>
        /\ UNCHANGED <<lines, searchVars, g, search_result, pc>>

-----------------------------------------------------------------------------
(***************************************************************************)
(* The loop of SearchFromLine, and what Search and Render do when it ends. *)
(***************************************************************************)
NotFound ==
  /\ pc = "search"
  /\ lineIndex = stopAtLineIndex
  /\ Draw(v)
  /\ search_result' = FALSE
  /\ pc' = "key"
  /\ UNCHANGED <<lines, searchVars, g, search, token>>

\* A variant: only a line of a text that has been searched once is a stop.
NoStop == stopAtLineIndex

\* In the first round after a new token the start line becomes the stop.
Stop == IF stopAtLineIndex = -1 THEN lineIndex ELSE stopAtLineIndex

Wrap ==
  /\ pc = "search"
  /\ lineIndex # stopAtLineIndex
  /\ v' = ScanUntil(v, lineIndex + 1)
  /\ lineIndex >= v'.len
  /\ lineIndex' = 0
  /\ stopAtLineIndex' = Stop
  /\ UNCHANGED <<lines, lastSearchToken, lastSearchResultLine, modeVars, pc>>

LookAt ==
  /\ pc = "search"
  /\ lineIndex # stopAtLineIndex
  /\ LET read == ScanUntil(v, lineIndex + 1)
     IN  /\ lineIndex < read.len
         /\ \/ /\ ~Contains(lines[lineIndex + 1], lastSearchToken)
               /\ v' = read
               /\ lineIndex' = lineIndex + 1
               /\ stopAtLineIndex' = Stop
               /\ UNCHANGED <<lines, lastSearchToken, lastSearchResultLine, modeVars, pc>>
            \/ /\ Contains(lines[lineIndex + 1], lastSearchToken)
               /\ Draw(ScrollToLine(read, lineIndex - 1))
               /\ lastSearchResultLine' = lineIndex
               /\ search_result' = TRUE
               /\ pc' = "key"
               /\ UNCHANGED <<lines, lastSearchToken, lineIndex, stopAtLineIndex, g, search, token>>

-----------------------------------------------------------------------------
Event ==
  \/ ArrowDown \/ ArrowUp \/ Enter \/ Space \/ Esc \/ Backspace \/ CtrlC \/ OtherEvent
  \/ \E c \in Letters : Letter(c)
SearchFromLine == NotFound \/ Wrap \/ LookAt

Next == Event \/ SearchFromLine

\* The loop of SearchFromLine does not wait; events may stop coming.
Spec == Init /\ [][Next]_vars /\ WF_vars(SearchFromLine)

-----------------------------------------------------------------------------
(***************************************************************************)
(* Properties                                                              *)
(***************************************************************************)
\* Type correctness: the indexes the code uses to slice the lines stay
\* within what has been read.
TypeOK ==
  /\ lines \in Texts
  /\ v \in [len : 0..N, begin : 0..N, last : {-1, N}, maxHeight : Heights]
  /\ v.last = N => v.len = N
  /\ lastSearchResultLine \in -1..N
  /\ lineIndex \in 0..N + 1
  /\ stopAtLineIndex \in -1..N
  /\ g \in BOOLEAN
  /\ search \in BOOLEAN
  /\ search_result \in BOOLEAN
  /\ token \in Seq(Letters \cup {"/", " "})
  /\ lastSearchToken \in Seq(Letters \cup {"/", " "})
  /\ pc \in {"key", "search", "quit", "panic"}

\* Search is never called without a token, whatever keys are pressed in
\* whatever order.
NeverPanics == pc # "panic"

\* The window shows as many lines as the terminal has room for, unless the
\* text has fewer: lines that are needed have been read when it is drawn.
ViewIsFull ==
  pc = "key" =>
    LET end == IF v.begin + v.maxHeight > v.len THEN v.len ELSE v.begin + v.maxHeight
    IN  end - v.begin = IF N < v.maxHeight THEN N ELSE v.maxHeight

Pages ==
  INSTANCE Window
    WITH Page <- PageSize, total <- N, height <- v.maxHeight,
         top <- v.begin, found <- lastSearchResultLine

\* Reading the text as far as it is scrolled is not visible: the pager is a
\* window on the whole text.
IsWindow == Pages!Spec

\* Line i comes before line j when the lines after line a are searched, and
\* then those before it.
Before(a, i, j) ==
  \/ a < i /\ i < j
  \/ j <= a /\ (a < i \/ i < j)

HasToken(i) == Contains(lines[i + 1], lastSearchToken)

\* A search ends with the first line that contains the token after the last
\* result for this token, the end of the text being followed by its start;
\* if there is none no line but the last result contains it.
FindsNext ==
  [][(pc = "search" /\ pc' = "key") =>
       LET a == lastSearchResultLine
           r == lastSearchResultLine'
       IN  /\ a # -1 => HasToken(a)
           /\ IF search_result'
              THEN HasToken(r) /\ \A i \in 0..N - 1 : Before(a, i, r) => ~HasToken(i)
              ELSE \A i \in 0..N - 1 : i # a => ~HasToken(i)]_vars

\* The line a search has found is shown, if the terminal has room for two
\* lines of text.
FoundIsShown ==
  [][(pc = "search" /\ pc' = "key" /\ search_result' /\ v.maxHeight >= 2) =>
       /\ v'.begin <= lastSearchResultLine'
       /\ lastSearchResultLine' < v'.begin + v.maxHeight]_vars

\* "Don't keep looping through the lines forever."
SearchEnds == pc = "search" ~> pc = "key"
=============================================================================
