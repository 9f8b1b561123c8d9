---------------------------- MODULE PagerProofs ----------------------------
(***************************************************************************)
(* Proofs about module Pager: for every text, terminal height and page     *)
(* size, and whatever keys are pressed, the indexes stay in range, Search  *)
(* never panics, the window is full, and the pager is a window on the      *)
(* whole text.                                                             *)
(***************************************************************************)
EXTENDS Pager, TLAPS

\* A ViewBuffer between two calls: begin may be anything until it is drawn.
Buffer(b) ==
  /\ b \in [len : 0..N, begin : Int, last : {-1, N}, maxHeight : Nat]
  /\ b.last = N => b.len = N

\* What CurrentView can draw: a negative begin only if the text is short.
Drawable(b) == Buffer(b) /\ (b.begin >= 0 \/ (b.last = N /\ N < b.maxHeight))

\* The part of the invariant about the ViewBuffer.
Full(b) ==
  /\ 0 <= b.begin
  /\ b.begin + b.maxHeight <= b.len \/ (N < b.maxHeight /\ b.begin = 0 /\ b.last = N)

\* The part about the modes of Render: there is a token while searching.
Modes ==
  /\ search_result => search
  /\ search => token # <<>>
  /\ pc = "search" => search
  /\ pc # "panic"

\* The part about the loop of SearchFromLine.
Loop ==
  pc = "search" =>
    /\ stopAtLineIndex = -1 => lineIndex = 0
    /\ stopAtLineIndex = lastSearchResultLine \/ lastSearchResultLine = -1

Inv == TypeOK /\ Full(v) /\ Modes /\ Loop

\* ScanUntil reads n lines or to the end of the text, and moves nothing.
LEMMA ScanUntilReads ==
  ASSUME NEW b, NEW n \in Int, N \in Nat, Buffer(b)
  PROVE  /\ Buffer(ScanUntil(b, n))
         /\ ScanUntil(b, n).begin = b.begin
         /\ ScanUntil(b, n).maxHeight = b.maxHeight
         /\ ScanUntil(b, n).len >= b.len
         /\ ScanUntil(b, n).len >= n \/ ScanUntil(b, n).last = N
         /\ n > b.len => ScanUntil(b, n).len <= n
         /\ b.last = N => ScanUntil(b, n).last = N
<1>1. CASE b.last # -1 \/ b.len >= n
  <2>1. ScanUntil(b, n) = b
    BY <1>1 DEF ScanUntil
  <2> QED
    BY <1>1, <2>1 DEF Buffer
<1>2. CASE ~(b.last # -1 \/ b.len >= n) /\ n <= N
  <2>1. ScanUntil(b, n) = [b EXCEPT !.len = n]
    BY <1>2 DEF ScanUntil
  <2>2. n \in 0..N
    BY <1>2 DEF Buffer
  <2> QED
    BY <1>2, <2>1, <2>2 DEF Buffer
<1>3. CASE ~(b.last # -1 \/ b.len >= n) /\ ~(n <= N)
  <2>1. ScanUntil(b, n) = [b EXCEPT !.len = N, !.last = N]
    BY <1>3 DEF ScanUntil
  <2>2. /\ b \in [len : 0..N, begin : Int, last : {-1, N}, maxHeight : Nat]
        /\ b.last = -1 /\ b.len < n
    BY <1>3 DEF Buffer
  <2>a. [b EXCEPT !.len = N] \in [len : 0..N, begin : Int, last : {-1, N}, maxHeight : Nat]
    <3>1. N \in 0..N
      OBVIOUS
    <3> QED
      BY <2>2, <3>1
  <2>b. ScanUntil(b, n) = [[b EXCEPT !.len = N] EXCEPT !.last = N]
    BY <2>1
  <2>3. ScanUntil(b, n) \in [len : 0..N, begin : Int, last : {-1, N}, maxHeight : Nat]
    BY <2>a, <2>b
  <2>4. /\ ScanUntil(b, n).len = N /\ ScanUntil(b, n).last = N
        /\ ScanUntil(b, n).begin = b.begin /\ ScanUntil(b, n).maxHeight = b.maxHeight
    BY <2>1, <2>2
  <2> QED
    BY <1>3, <2>2, <2>3, <2>4 DEF Buffer
<1> QED
  BY <1>1, <1>2, <1>3

\* Begin moves the window and nothing else.
LEMMA BeginMoves ==
  ASSUME NEW b, NEW i \in Int, N \in Nat, Buffer(b)
  PROVE  /\ Buffer(Begin(b, i))
         /\ Begin(b, i).begin = i
         /\ Begin(b, i).len = b.len
         /\ Begin(b, i).last = b.last
         /\ Begin(b, i).maxHeight = b.maxHeight
BY DEF Buffer, Begin

\* The window of height h that starts at line i, moved into the text.
Clamped(i, h) ==
  IF N < h \/ i < 0 THEN 0 ELSE IF i > N - h THEN N - h ELSE i

\* CurrentView leaves a full window, moved into the text.
LEMMA CurrentViewClamps ==
  ASSUME NEW b, N \in Nat, Drawable(b)
  PROVE  /\ Buffer(CurrentView(b))
         /\ Full(CurrentView(b))
         /\ CurrentView(b).maxHeight = b.maxHeight
         /\ CurrentView(b).begin = Clamped(b.begin, b.maxHeight)
         /\ CurrentView(b).begin \in 0..N
<1> DEFINE r == ScanUntil(b, b.begin + b.maxHeight)
<1>1. b.begin \in Int /\ b.maxHeight \in Nat /\ Buffer(b) /\ b.len \in 0..N
  BY DEF Drawable, Buffer
<1>2. /\ Buffer(r) /\ r.begin = b.begin /\ r.maxHeight = b.maxHeight /\ r.len >= b.len
      /\ r.len >= b.begin + b.maxHeight \/ r.last = N
      /\ b.last = N => r.last = N
  BY <1>1, ScanUntilReads
<1>3. r.len \in 0..N /\ (r.last = N => r.len = N)
  BY <1>2 DEF Buffer
<1>4. b.begin >= 0 \/ (r.last = N /\ N < b.maxHeight)
  BY <1>2 DEF Drawable
<1> HIDE DEF r
<1>5. CASE r.len - r.begin < b.maxHeight
  <2> DEFINE i == NotNegative(r.len - b.maxHeight)
  <2>1. r.last = N /\ r.len = N
    BY <1>1, <1>2, <1>3, <1>5
  <2>2. i \in Int /\ i = IF N < b.maxHeight THEN 0 ELSE N - b.maxHeight
    BY <1>1, <2>1 DEF NotNegative
  <2>3. CurrentView(b) = Begin(r, i)
    BY <1>5, <1>2 DEF CurrentView, r
  <2> HIDE DEF i
  <2>4. /\ Buffer(CurrentView(b)) /\ CurrentView(b).begin = i /\ CurrentView(b).len = N
        /\ CurrentView(b).last = N /\ CurrentView(b).maxHeight = b.maxHeight
    BY <1>2, <2>1, <2>2, <2>3, BeginMoves
  <2>5. i = Clamped(b.begin, b.maxHeight)
    BY <1>1, <1>2, <1>4, <1>5, <2>1, <2>2 DEF Clamped
  <2> QED
    BY <1>1, <2>2, <2>4, <2>5 DEF Full
<1>6. CASE ~(r.len - r.begin < b.maxHeight)
  <2> DEFINE i == NotNegative(r.begin)
  <2>1. r.begin \in Int /\ i \in Int /\ i = Clamped(b.begin, b.maxHeight)
    BY <1>1, <1>2, <1>3, <1>4, <1>6 DEF NotNegative, Clamped
  <2>2. CurrentView(b) = Begin(r, i)
    BY <1>6, <1>2 DEF CurrentView, r
  <2>3. (i = 0 /\ N < b.maxHeight /\ r.last = N) \/ (i >= 0 /\ i + b.maxHeight <= r.len)
    BY <1>1, <1>2, <1>3, <1>4, <1>6 DEF NotNegative
  <2> HIDE DEF i
  <2>4. /\ Buffer(CurrentView(b)) /\ CurrentView(b).begin = i /\ CurrentView(b).len = r.len
        /\ CurrentView(b).last = r.last /\ CurrentView(b).maxHeight = b.maxHeight
    BY <1>1, <1>2, <2>1, <2>2, BeginMoves
  <2>5. Full(CurrentView(b)) /\ i \in 0..N
    BY <1>1, <1>3, <2>1, <2>3, <2>4 DEF Full
  <2> QED
    BY <2>1, <2>4, <2>5
<1> QED
  BY <1>5, <1>6
-----------------------------------------------------------------------------
(***************************************************************************)
(* Where the window is drawn after each of the scroll functions.           *)
(***************************************************************************)
LastTop(h) == IF N < h THEN 0 ELSE N - h

\* A full window is in the text.
LEMMA FullIsInText ==
  ASSUME NEW b, N \in Nat, Buffer(b), Full(b)
  PROVE  /\ Drawable(b)
         /\ b.begin \in 0..LastTop(b.maxHeight)
         /\ Clamped(b.begin, b.maxHeight) = b.begin
         /\ LastTop(b.maxHeight) \in 0..N
         /\ b.maxHeight \in Nat /\ b.len \in 0..N
         /\ b.last = N => b.len = N
         /\ b.last = -1 \/ b.last = N
BY DEF Buffer, Full, Drawable, LastTop, Clamped

\* One line up, if there is one.
LEMMA ScrollUpMoves ==
  ASSUME NEW b, N \in Nat, Buffer(b), Full(b)
  PROVE  /\ Drawable(ScrollUp(b)) /\ ScrollUp(b).maxHeight = b.maxHeight
         /\ Clamped(ScrollUp(b).begin, b.maxHeight) = IF b.begin - 1 >= 0 THEN b.begin - 1 ELSE 0
<1>1. /\ b.begin \in 0..LastTop(b.maxHeight) /\ b.maxHeight \in Nat /\ Drawable(b)
      /\ LastTop(b.maxHeight) \in 0..N
  BY FullIsInText
<1>2. CASE b.begin > 0
  <2>1. ScrollUp(b) = Begin(b, b.begin - 1) /\ b.begin - 1 \in Int
    BY <1>1, <1>2 DEF ScrollUp
  <2>2. Buffer(ScrollUp(b)) /\ ScrollUp(b).begin = b.begin - 1 /\ ScrollUp(b).maxHeight = b.maxHeight
    BY <2>1, BeginMoves
  <2> QED
    BY <1>1, <1>2, <2>2 DEF Drawable, Clamped, LastTop
<1>3. CASE ~(b.begin > 0)
  BY <1>1, <1>3 DEF ScrollUp, Clamped, LastTop
<1> QED
  BY <1>2, <1>3

\* To the top.
LEMMA ScrollTopMoves ==
  ASSUME NEW b, N \in Nat, Buffer(b)
  PROVE  /\ Drawable(ScrollTop(b)) /\ ScrollTop(b).maxHeight = b.maxHeight
         /\ Clamped(ScrollTop(b).begin, b.maxHeight) = 0
<1>1. Buffer(ScrollTop(b)) /\ ScrollTop(b).begin = 0 /\ ScrollTop(b).maxHeight = b.maxHeight
  BY BeginMoves DEF ScrollTop
<1>2. b.maxHeight \in Nat
  BY DEF Buffer
<1> QED
  BY <1>1, <1>2 DEF Drawable, Clamped

\* One line down, unless the last line of the text is shown.
LEMMA ScrollDownMoves ==
  ASSUME NEW b, N \in Nat, Buffer(b), Full(b)
  PROVE  /\ Drawable(ScrollDown(b)) /\ ScrollDown(b).maxHeight = b.maxHeight
         /\ Clamped(ScrollDown(b).begin, b.maxHeight)
              = IF b.begin + 1 <= LastTop(b.maxHeight) THEN b.begin + 1 ELSE LastTop(b.maxHeight)
<1>1. /\ b.begin \in 0..LastTop(b.maxHeight) /\ b.maxHeight \in Nat /\ Drawable(b)
      /\ LastTop(b.maxHeight) \in 0..N /\ b.len \in 0..N
      /\ b.last = N => b.len = N
      /\ b.last = -1 \/ b.last = N
      /\ Clamped(b.begin, b.maxHeight) = b.begin
  BY FullIsInText
<1>2. CASE b.len - b.begin > b.maxHeight
  <2>1. ScrollDown(b) = Begin(b, b.begin + 1) /\ b.begin + 1 \in Int
    BY <1>1, <1>2 DEF ScrollDown
  <2>2. Buffer(ScrollDown(b)) /\ ScrollDown(b).begin = b.begin + 1 /\ ScrollDown(b).maxHeight = b.maxHeight
    BY <2>1, BeginMoves
  <2> QED
    BY <1>1, <1>2, <2>2 DEF Drawable, Clamped, LastTop
<1>3. CASE ~(b.len - b.begin > b.maxHeight) /\ b.last = -1
  <2> DEFINE r == ScanUntil(b, b.len + 1)
             i == b.begin + (r.len - b.len)
  <2>1. ScrollDown(b) = Begin(r, i)
    BY <1>3 DEF ScrollDown
  <2>2. b.len + 1 \in Int /\ b.len + 1 > b.len
    BY <1>1
  <2>3. /\ Buffer(r) /\ r.maxHeight = b.maxHeight /\ r.len >= b.len /\ r.len <= b.len + 1
        /\ r.len >= b.len + 1 \/ r.last = N
    BY <2>2, ScanUntilReads
  <2>4. r.len \in 0..N /\ (r.last = N => r.len = N)
    BY <2>3 DEF Buffer
  <2> HIDE DEF r
  <2>5. i \in Int /\ i >= 0
    BY <1>1, <2>3, <2>4
  <2>6. Buffer(ScrollDown(b)) /\ ScrollDown(b).begin = i /\ ScrollDown(b).maxHeight = b.maxHeight
    BY <2>1, <2>3, <2>5, BeginMoves
  <2>7. b.begin + b.maxHeight = b.len
    BY <1>1, <1>3 DEF Full
  <2>8. CASE r.len = b.len + 1
    BY <1>1, <2>4, <2>5, <2>6, <2>7, <2>8 DEF Drawable, Clamped, LastTop
  <2>9. CASE r.len = b.len
    BY <1>1, <2>3, <2>4, <2>5, <2>6, <2>7, <2>9 DEF Drawable, Clamped, LastTop
  <2> QED
    BY <1>1, <2>3, <2>4, <2>8, <2>9
<1>4. CASE ~(b.len - b.begin > b.maxHeight) /\ b.last # -1
  <2>1. ScrollDown(b) = b /\ b.len = N
    BY <1>1, <1>4 DEF ScrollDown
  <2>2. b.begin = LastTop(b.maxHeight)
    BY <1>1, <1>4, <2>1 DEF LastTop
  <2> QED
    BY <1>1, <2>1, <2>2
<1> QED
  BY <1>2, <1>3, <1>4

\* A page down, or as far as the text or what has been read goes.
LEMMA ScrollDownNMoves ==
  ASSUME NEW b, NEW n \in Nat \ {0}, N \in Nat, Buffer(b), Full(b)
  PROVE  /\ Drawable(ScrollDownN(b, n)) /\ ScrollDownN(b, n).maxHeight = b.maxHeight
         /\ LET t == Clamped(ScrollDownN(b, n).begin, b.maxHeight)
            IN  /\ t \in Int
                /\ t <= b.begin + n /\ t <= LastTop(b.maxHeight)
                /\ t >= b.begin + 1 \/ t >= LastTop(b.maxHeight)
<1>1. /\ b.begin \in 0..LastTop(b.maxHeight) /\ b.maxHeight \in Nat /\ Drawable(b)
      /\ LastTop(b.maxHeight) \in 0..N /\ b.len \in 0..N
      /\ b.last = N => b.len = N
      /\ b.last = -1 \/ b.last = N
      /\ Clamped(b.begin, b.maxHeight) = b.begin
  BY FullIsInText
<1>2. CASE b.len - b.begin > b.maxHeight
  <2> DEFINE i == IF b.len - b.begin >= b.maxHeight + n THEN b.begin + n
                  ELSE b.begin + (b.len - b.begin - b.maxHeight)
  <2>1. ScrollDownN(b, n) = Begin(b, i)
    BY <1>2 DEF ScrollDownN
  <2>2. i \in Int /\ i >= b.begin + 1 /\ i <= b.begin + n /\ i + b.maxHeight <= b.len
    BY <1>1, <1>2
  <2> HIDE DEF i
  <2>3. Buffer(ScrollDownN(b, n)) /\ ScrollDownN(b, n).begin = i /\ ScrollDownN(b, n).maxHeight = b.maxHeight
    BY <2>1, <2>2, BeginMoves
  <2> QED
    BY <1>1, <2>2, <2>3 DEF Drawable, Clamped, LastTop
<1>3. CASE ~(b.len - b.begin > b.maxHeight) /\ b.last = -1
  <2> DEFINE r == ScanUntil(b, b.len + n)
             i == b.begin + (r.len - b.len)
  <2>1. ScrollDownN(b, n) = Begin(r, i)
    BY <1>3 DEF ScrollDownN
  <2>2. b.len + n \in Int /\ b.len + n > b.len
    BY <1>1
  <2>3. /\ Buffer(r) /\ r.maxHeight = b.maxHeight /\ r.len >= b.len /\ r.len <= b.len + n
        /\ r.len >= b.len + n \/ r.last = N
    BY <2>2, ScanUntilReads
  <2>4. r.len \in 0..N /\ (r.last = N => r.len = N)
    BY <2>3 DEF Buffer
  <2> HIDE DEF r
  <2>5. b.begin + b.maxHeight = b.len
    BY <1>1, <1>3 DEF Full
  <2>6. i \in Int /\ i >= b.begin /\ i <= b.begin + n /\ i + b.maxHeight = r.len
    BY <1>1, <2>3, <2>4, <2>5
  <2> HIDE DEF i
  <2>7. Buffer(ScrollDownN(b, n)) /\ ScrollDownN(b, n).begin = i /\ ScrollDownN(b, n).maxHeight = b.maxHeight
    BY <2>1, <2>3, <2>6, BeginMoves
  <2>8. Clamped(i, b.maxHeight) = i /\ Drawable(ScrollDownN(b, n))
    BY <1>1, <2>4, <2>6, <2>7 DEF Drawable, Clamped
  <2>9. i >= b.begin + 1 \/ r.len = N
    BY <1>1, <2>3, <2>4, <2>5, <2>6
  <2> QED
    BY <1>1, <2>4, <2>6, <2>7, <2>8, <2>9 DEF LastTop
<1>4. CASE ~(b.len - b.begin > b.maxHeight) /\ b.last # -1
  <2>1. ScrollDownN(b, n) = b /\ b.len = N
    BY <1>1, <1>4 DEF ScrollDownN
  <2>2. b.begin = LastTop(b.maxHeight)
    BY <1>1, <1>4, <2>1 DEF LastTop
  <2> QED
    BY <1>1, <2>1, <2>2
<1> QED
  BY <1>2, <1>3, <1>4

\* The line of the index given becomes the first, as far as the text allows.
LEMMA ScrollToLineMoves ==
  ASSUME NEW b, NEW i \in Int, N \in Nat, Buffer(b)
  PROVE  /\ Drawable(ScrollToLine(b, i)) /\ ScrollToLine(b, i).maxHeight = b.maxHeight
         /\ Clamped(ScrollToLine(b, i).begin, b.maxHeight) = Clamped(i, b.maxHeight)
<1>1. b.maxHeight \in Nat
  BY DEF Buffer
<1>2. CASE i <= 0
  <2>1. ScrollToLine(b, i) = Begin(b, 0)
    BY <1>2 DEF ScrollToLine
  <2>2. Buffer(ScrollToLine(b, i)) /\ ScrollToLine(b, i).begin = 0 /\ ScrollToLine(b, i).maxHeight = b.maxHeight
    BY <2>1, BeginMoves
  <2> QED
    BY <1>1, <1>2, <2>2 DEF Drawable, Clamped
<1>3. CASE ~(i <= 0)
  <2> DEFINE r == ScanUntil(b, i + b.maxHeight + 1)
             k == IF r.len >= i + b.maxHeight THEN i ELSE r.len - b.maxHeight
  <2>1. ScrollToLine(b, i) = Begin(r, k)
    BY <1>3 DEF ScrollToLine
  <2>2. /\ Buffer(r) /\ r.maxHeight = b.maxHeight
        /\ r.len >= i + b.maxHeight + 1 \/ r.last = N
    <3>1. i + b.maxHeight + 1 \in Int
      BY <1>1
    <3> QED
      BY <3>1, ScanUntilReads
  <2>3. r.len \in 0..N /\ (r.last = N => r.len = N)
    BY <2>2 DEF Buffer
  <2> HIDE DEF r
  <2>4. k \in Int /\ (k >= 0 \/ (r.last = N /\ N < b.maxHeight))
    BY <1>1, <1>3, <2>2, <2>3
  <2>5. Clamped(k, b.maxHeight) = Clamped(i, b.maxHeight)
    BY <1>1, <1>3, <2>2, <2>3 DEF Clamped
  <2> HIDE DEF k
  <2>6. /\ Buffer(ScrollToLine(b, i)) /\ ScrollToLine(b, i).begin = k /\ ScrollToLine(b, i).last = r.last
        /\ ScrollToLine(b, i).maxHeight = b.maxHeight
    BY <2>1, <2>2, <2>4, BeginMoves
  <2> QED
    BY <2>4, <2>5, <2>6 DEF Drawable
<1> QED
  BY <1>2, <1>3

\* To the bottom.
LEMMA ScrollBottomMoves ==
  ASSUME NEW b, N \in Nat, Buffer(b)
  PROVE  /\ Drawable(ScrollBottom(b)) /\ ScrollBottom(b).maxHeight = b.maxHeight
         /\ Clamped(ScrollBottom(b).begin, b.maxHeight) = LastTop(b.maxHeight)
<1> DEFINE r == ScanUntil(b, N + 1)
           k == NotNegative(r.len - b.maxHeight)
<1>1. b.maxHeight \in Nat /\ N + 1 \in Int
  BY DEF Buffer
<1>2. Buffer(r) /\ r.maxHeight = b.maxHeight /\ (r.len >= N + 1 \/ r.last = N)
  BY <1>1, ScanUntilReads
<1>3. r.len = N
  BY <1>2 DEF Buffer
<1>4. ScrollBottom(b) = Begin(r, k)
  BY <1>2 DEF ScrollBottom
<1> HIDE DEF r
<1>5. k \in Int /\ k = LastTop(b.maxHeight)
  BY <1>1, <1>3 DEF NotNegative, LastTop
<1> HIDE DEF k
<1>6. Buffer(ScrollBottom(b)) /\ ScrollBottom(b).begin = k /\ ScrollBottom(b).maxHeight = b.maxHeight
  BY <1>2, <1>4, <1>5, BeginMoves
<1> QED
  BY <1>1, <1>5, <1>6 DEF Drawable, Clamped, LastTop
-----------------------------------------------------------------------------
(***************************************************************************)
(* Every step preserves the invariant and is a step of the window.         *)
(***************************************************************************)
ViewType ==
  /\ lines \in Texts
  /\ v \in [len : 0..N, begin : 0..N, last : {-1, N}, maxHeight : Heights]
  /\ v.last = N => v.len = N

SearchType ==
  /\ lastSearchResultLine \in -1..N
  /\ lineIndex \in 0..N + 1
  /\ stopAtLineIndex \in -1..N
  /\ lastSearchToken \in Seq(Letters \cup {"/", " "})

ModeType ==
  /\ g \in BOOLEAN
  /\ search \in BOOLEAN
  /\ search_result \in BOOLEAN
  /\ token \in Seq(Letters \cup {"/", " "})
  /\ pc \in {"key", "search", "quit", "panic"}

WindowStep == [Pages!Next]_(Pages!windowVars)

\* TypeOK, taken apart.
LEMMA TypeParts == TypeOK <=> ViewType /\ SearchType /\ ModeType
BY DEF TypeOK, ViewType, SearchType, ModeType

\* What the invariant says about the ViewBuffer that is drawn.
LEMMA InvView ==
  ASSUME Inv
  PROVE  /\ N \in Nat /\ Buffer(v) /\ Full(v) /\ Drawable(v)
         /\ v.maxHeight \in Heights /\ v.maxHeight \in Nat
         /\ v.begin \in 0..LastTop(v.maxHeight)
         /\ LastTop(v.maxHeight) \in 0..N
         /\ Clamped(v.begin, v.maxHeight) = v.begin
         /\ PageSize \in Nat \ {0}
<1>1. N \in Nat
  BY TextsAssumption, TypeParts DEF Inv, ViewType, N
<1>2. Buffer(v) /\ v.maxHeight \in Heights
  <2>1. /\ v \in [len : 0..N, begin : 0..N, last : {-1, N}, maxHeight : Heights]
        /\ v.last = N => v.len = N
    BY TypeParts DEF Inv, ViewType
  <2>2. v.maxHeight \in Heights /\ v.maxHeight \in Nat /\ v.begin \in Int
    <3>1. v.maxHeight \in Heights /\ v.begin \in 0..N
      BY <2>1
    <3>2. v.maxHeight \in Nat
      BY <3>1, HeightsAssumption
    <3>3. v.begin \in Int
      BY <1>1, <3>1
    <3> QED
      BY <3>1, <3>2, <3>3
  <2>3. v = [len |-> v.len, begin |-> v.begin, last |-> v.last, maxHeight |-> v.maxHeight]
    BY <2>1
  <2>4. v \in [len : 0..N, begin : Int, last : {-1, N}, maxHeight : Nat]
    BY <2>1, <2>2, <2>3
  <2> QED
    BY <2>1, <2>2, <2>4 DEF Buffer
<1> QED
  BY <1>1, <1>2, FullIsInText, PageAssumption DEF Inv

\* Drawing re-establishes what the invariant says about the ViewBuffer.
LEMMA DrawView ==
  ASSUME Inv, NEW b, Drawable(b), b.maxHeight = v.maxHeight, Draw(b), UNCHANGED lines
  PROVE  /\ ViewType' /\ Full(v)' /\ N' = N
         /\ v'.maxHeight = v.maxHeight
         /\ v'.begin = Clamped(b.begin, v.maxHeight)
<1>1. N' = N /\ N \in Nat /\ v.maxHeight \in Heights /\ v' = CurrentView(b)
  BY InvView DEF Draw, N
<1>2. /\ Buffer(v') /\ Full(v') /\ v'.maxHeight = v.maxHeight
      /\ v'.begin = Clamped(b.begin, v.maxHeight) /\ v'.begin \in 0..N
  BY <1>1, CurrentViewClamps
<1>3. Full(v)'
  BY <1>1, <1>2 DEF Full
<1>4. /\ v' \in [len : 0..N, begin : 0..N, last : {-1, N}, maxHeight : Heights]
      /\ v'.last = N => v'.len = N
  BY <1>1, <1>2 DEF Buffer
<1>5. ViewType'
  BY <1>1, <1>4 DEF ViewType, Inv, TypeOK
<1> QED
  BY <1>1, <1>2, <1>3, <1>5

\* A step that only scrolls preserves the invariant.
LEMMA ScrollStep ==
  ASSUME Inv, NEW b, Drawable(b), b.maxHeight = v.maxHeight, Scroll(b)
  PROVE  /\ Inv' /\ N' = N /\ v'.maxHeight = v.maxHeight
         /\ v'.begin = Clamped(b.begin, v.maxHeight)
         /\ lastSearchResultLine' = lastSearchResultLine
<1>1. /\ Draw(b)
      /\ UNCHANGED <<lines, lastSearchToken, lastSearchResultLine, lineIndex, stopAtLineIndex>>
      /\ UNCHANGED <<g, search, search_result, token, pc>>
  BY DEF Scroll, searchVars, modeVars
<1>2. /\ ViewType' /\ Full(v)' /\ N' = N /\ v'.maxHeight = v.maxHeight
      /\ v'.begin = Clamped(b.begin, v.maxHeight)
  BY <1>1, DrawView
<1>3. SearchType' /\ ModeType'
  BY <1>1, <1>2, TypeParts DEF Inv, SearchType, ModeType
<1>4. Modes' /\ Loop'
  BY <1>1 DEF Inv, Modes, Loop
<1>5. TypeOK'
  BY <1>2, <1>3 DEF TypeOK, ViewType, SearchType, ModeType
<1> QED
  BY <1>1, <1>2, <1>4, <1>5 DEF Inv

\* Key down.
LEMMA ScrollDownStep ==
  ASSUME Inv, Scroll(ScrollDown(v))
  PROVE  Inv' /\ WindowStep
<1>1. /\ Drawable(ScrollDown(v)) /\ ScrollDown(v).maxHeight = v.maxHeight
      /\ Clamped(ScrollDown(v).begin, v.maxHeight)
           = IF v.begin + 1 <= LastTop(v.maxHeight) THEN v.begin + 1 ELSE LastTop(v.maxHeight)
  BY InvView, ScrollDownMoves
<1>2. /\ Inv' /\ N' = N /\ v'.maxHeight = v.maxHeight
      /\ v'.begin = Clamped(ScrollDown(v).begin, v.maxHeight)
      /\ lastSearchResultLine' = lastSearchResultLine
  BY <1>1, ScrollStep
<1>3. Pages!Bottom = LastTop(v.maxHeight)
  BY InvView DEF Pages!Bottom, Pages!Greatest, LastTop
<1>4. Pages!Down
  BY <1>1, <1>2, <1>3 DEF Pages!Down, Pages!Least
<1> QED
  BY <1>2, <1>4 DEF WindowStep, Pages!Next, Pages!Scroll

\* Key up.
LEMMA ScrollUpStep ==
  ASSUME Inv, Scroll(ScrollUp(v))
  PROVE  Inv' /\ WindowStep
<1>1. /\ Drawable(ScrollUp(v)) /\ ScrollUp(v).maxHeight = v.maxHeight
      /\ Clamped(ScrollUp(v).begin, v.maxHeight) = IF v.begin - 1 >= 0 THEN v.begin - 1 ELSE 0
  BY InvView, ScrollUpMoves
<1>2. /\ Inv' /\ N' = N /\ v'.maxHeight = v.maxHeight
      /\ v'.begin = Clamped(ScrollUp(v).begin, v.maxHeight)
      /\ lastSearchResultLine' = lastSearchResultLine
  BY <1>1, ScrollStep
<1>3. Pages!Up
  BY <1>1, <1>2 DEF Pages!Up, Pages!Greatest
<1> QED
  BY <1>2, <1>3 DEF WindowStep, Pages!Next, Pages!Scroll

\* The space bar.
LEMMA ScrollDownNStep ==
  ASSUME Inv, Scroll(ScrollDownN(v, PageSize))
  PROVE  Inv' /\ WindowStep
<1> DEFINE b == ScrollDownN(v, PageSize)
           t == Clamped(b.begin, v.maxHeight)
<1>1. /\ Drawable(b) /\ b.maxHeight = v.maxHeight
      /\ t \in Int
      /\ t <= v.begin + PageSize /\ t <= LastTop(v.maxHeight)
      /\ t >= v.begin + 1 \/ t >= LastTop(v.maxHeight)
  BY InvView, ScrollDownNMoves
<1>2. /\ Inv' /\ N' = N /\ v'.maxHeight = v.maxHeight /\ v'.begin = t
      /\ lastSearchResultLine' = lastSearchResultLine
  BY <1>1, ScrollStep
<1> HIDE DEF b, t
<1>3. Pages!Bottom = LastTop(v.maxHeight)
  BY InvView DEF Pages!Bottom, Pages!Greatest, LastTop
<1>4. Pages!PageDown
  BY <1>1, <1>2, <1>3, InvView DEF Pages!PageDown, Pages!Least
<1> QED
  BY <1>2, <1>4 DEF WindowStep, Pages!Next, Pages!Scroll

\* The letter G.
LEMMA ScrollBottomStep ==
  ASSUME Inv, Scroll(ScrollBottom(v))
  PROVE  Inv' /\ WindowStep
<1>1. /\ Drawable(ScrollBottom(v)) /\ ScrollBottom(v).maxHeight = v.maxHeight
      /\ Clamped(ScrollBottom(v).begin, v.maxHeight) = LastTop(v.maxHeight)
  BY InvView, ScrollBottomMoves
<1>2. /\ Inv' /\ N' = N /\ v'.maxHeight = v.maxHeight
      /\ v'.begin = Clamped(ScrollBottom(v).begin, v.maxHeight)
      /\ lastSearchResultLine' = lastSearchResultLine
  BY <1>1, ScrollStep
<1>3. Pages!End
  BY <1>1, <1>2, InvView DEF Pages!End, Pages!Bottom, Pages!Greatest, LastTop
<1> QED
  BY <1>2, <1>3 DEF WindowStep, Pages!Next, Pages!Scroll

\* Drawing what is shown already, while modes or the token change.
LEMMA ModeStep ==
  ASSUME Inv, Draw(v), UNCHANGED <<lines, searchVars>>, ModeType', Modes', pc' # "search"
  PROVE  Inv' /\ WindowStep
<1>1. UNCHANGED <<lines, lastSearchToken, lastSearchResultLine, lineIndex, stopAtLineIndex>>
  BY DEF searchVars
<1>2. /\ ViewType' /\ Full(v)' /\ N' = N /\ v'.maxHeight = v.maxHeight /\ v'.begin = v.begin
  BY <1>1, InvView, DrawView
<1>3. SearchType'
  BY <1>1, <1>2, TypeParts DEF Inv, SearchType
<1>4. TypeOK' /\ Loop'
  BY <1>2, <1>3 DEF TypeOK, ViewType, SearchType, ModeType, Loop
<1> QED
  BY <1>1, <1>2, <1>4 DEF Inv, WindowStep, Pages!windowVars

\* Keys that end the pager.
LEMMA QuitStep ==
  ASSUME Inv, Quit
  PROVE  Inv' /\ WindowStep
<1>1. /\ UNCHANGED <<lines, v, lastSearchToken, lastSearchResultLine, lineIndex, stopAtLineIndex>>
      /\ UNCHANGED <<g, search, search_result, token>>
      /\ pc' = "quit" /\ N' = N
  BY DEF Quit, searchVars, modeVars, N
<1>2. TypeOK'
  BY <1>1 DEF Inv, TypeOK
<1>3. Full(v)' /\ Modes' /\ Loop'
  BY <1>1 DEF Inv, Full, Modes, Loop
<1> QED
  BY <1>1, <1>2, <1>3 DEF Inv, WindowStep, Pages!windowVars

\* Sequences of characters stay ones.
LEMMA Characters ==
  ASSUME NEW S, NEW t \in Seq(S)
  PROVE  /\ \A c \in S : Append(t, c) \in Seq(S) /\ Append(t, c) # <<>>
         /\ t # <<>> => Tail(t) \in Seq(S)
         /\ t # <<>> => SubSeq(t, 1, Len(t) - 1) \in Seq(S)
         /\ <<>> \in Seq(S)
OBVIOUS

\* A character is added to the token.
LEMMA TypeStep ==
  ASSUME Inv, NEW c \in Letters \cup {" "}, Type(c), pc = "key"
  PROVE  Inv' /\ WindowStep
<1>1. /\ Draw(v) /\ UNCHANGED <<lines, searchVars>>
      /\ UNCHANGED <<g, search, search_result, pc>> /\ token' = Append(token, c)
  BY DEF Type
<1>2. /\ g \in BOOLEAN /\ search \in BOOLEAN /\ search_result \in BOOLEAN
      /\ token \in Seq(Letters \cup {"/", " "})
  BY DEF Inv, TypeOK
<1>3. token' \in Seq(Letters \cup {"/", " "}) /\ token' # <<>>
  <2>1. c \in Letters \cup {"/", " "}
    OBVIOUS
  <2> QED
    BY <1>1, <1>2, <2>1, Characters
<1>4. ModeType'
  BY <1>1, <1>2, <1>3 DEF ModeType
<1>5. Modes'
  BY <1>1, <1>3 DEF Inv, Modes
<1> QED
  BY <1>1, <1>4, <1>5, ModeStep

\* A search begins, or is refused: there is a token, since the mode is one
\* of the two search modes.
LEMMA SearchStep ==
  ASSUME Inv, pc = "key", Searching, Search
  PROVE  Inv' /\ WindowStep
<1> DEFINE L == Letters \cup {"/", " "}
<1>1. /\ token \in Seq(L) /\ lastSearchToken \in Seq(L) /\ g \in BOOLEAN /\ search \in BOOLEAN
      /\ search_result \in BOOLEAN /\ lastSearchResultLine \in -1..N
  BY DEF Inv, TypeOK
<1> HIDE DEF L
<1>2. search /\ token # <<>>
  BY DEF Inv, Modes, Searching
<1>3. CASE Len(token) <= 1 /\ Draw(v) /\ search_result' = FALSE
           /\ pc' = (IF token = <<>> THEN "panic" ELSE "key")
           /\ UNCHANGED <<lines, searchVars, g, search, token>>
  <2>1. pc' = "key"
    BY <1>2, <1>3
  <2>2. ModeType' /\ Modes'
    BY <1>1, <1>2, <1>3, <2>1 DEF ModeType, Modes, L
  <2>3. UNCHANGED <<lines, searchVars>>
    BY <1>3
  <2> QED
    BY <1>3, <2>1, <2>2, <2>3, ModeStep
<1>4. CASE Len(token) > 1 /\ lastSearchToken' = Tail(token) /\ lastSearchResultLine' = SearchAfter
           /\ lineIndex' = SearchAfter + 1 /\ stopAtLineIndex' = SearchAfter /\ pc' = "search"
           /\ UNCHANGED <<lines, v, modeVars>>
  <2>1. N \in Nat /\ N' = N
    BY <1>4, InvView DEF N
  <2>2. /\ SearchAfter \in -1..N
        /\ SearchAfter = -1 \/ SearchAfter = lastSearchResultLine
    <3>1. SearchAfter = -1 \/ SearchAfter = lastSearchResultLine
      BY DEF SearchAfter
    <3> QED
      BY <1>1, <2>1, <3>1
  <2>3. Tail(token) \in Seq(L)
    BY <1>1, <1>2, Characters
  <2>4. UNCHANGED <<g, search, search_result, token>>
    BY <1>4 DEF modeVars
  <2>5. SearchType'
    <3>1. lastSearchResultLine' \in -1..N' /\ lineIndex' \in 0..N' + 1 /\ stopAtLineIndex' \in -1..N'
      BY <1>4, <2>1, <2>2
    <3>2. lastSearchToken' \in Seq(L)
      BY <1>4, <2>3
    <3> QED
      BY <3>1, <3>2 DEF SearchType, L
  <2>6. ModeType' /\ Modes'
    BY <1>1, <1>2, <1>4, <2>4 DEF ModeType, Inv, Modes, L
  <2>7. Loop'
    BY <1>4, <2>1, <2>2 DEF Loop
  <2>8. ViewType' /\ Full(v)'
    BY <1>4, <2>1, TypeParts DEF Inv, ViewType, Full
  <2>9. WindowStep
    <3>1. v'.begin = v.begin /\ v'.maxHeight = v.maxHeight
      BY <1>4
    <3>2. CASE SearchAfter = -1
      BY <1>4, <2>1, <3>1, <3>2 DEF WindowStep, Pages!Next, Pages!Forget
    <3>3. CASE SearchAfter = lastSearchResultLine
      BY <1>4, <2>1, <3>1, <3>3 DEF WindowStep, Pages!windowVars
    <3> QED
      BY <2>2, <3>2, <3>3
  <2> QED
    BY <2>5, <2>6, <2>7, <2>8, <2>9 DEF Inv, TypeOK, ViewType, SearchType, ModeType
<1> QED
  BY <1>3, <1>4 DEF Search

\* Escape leaves the search modes and drops the token.
LEMMA EscStep ==
  ASSUME Inv, Esc
  PROVE  Inv' /\ WindowStep
<1>1. CASE Quit
  BY <1>1, QuitStep
<1>2. CASE /\ Draw(v) /\ search' = FALSE /\ search_result' = FALSE /\ token' = <<>>
           /\ UNCHANGED <<lines, searchVars, g, pc>>
  <2>1. g \in BOOLEAN /\ pc = "key" /\ UNCHANGED <<lines, searchVars>>
    BY <1>2 DEF Esc, Inv, TypeOK
  <2>2. <<>> \in Seq(Letters \cup {"/", " "})
    OBVIOUS
  <2>3. ModeType' /\ Modes'
    BY <1>2, <2>1, <2>2 DEF ModeType, Modes
  <2> QED
    BY <1>2, <2>1, <2>3, ModeStep
<1> QED
  BY <1>1, <1>2 DEF Esc

\* Backspace leaves them with the last character.
LEMMA BackspaceStep ==
  ASSUME Inv, Backspace
  PROVE  Inv' /\ WindowStep
<1> DEFINE L == Letters \cup {"/", " "}
<1>1. /\ Draw(v) /\ UNCHANGED <<lines, searchVars>> /\ UNCHANGED <<g, pc>> /\ pc = "key"
      /\ token' = IF token = <<>> THEN <<>> ELSE SubSeq(token, 1, Len(token) - 1)
      /\ search' = (search /\ token' # <<>>)
      /\ search_result' = (search_result /\ token' # <<>>)
  BY DEF Backspace
<1>2. token \in Seq(L) /\ g \in BOOLEAN /\ search \in BOOLEAN /\ search_result \in BOOLEAN
  BY DEF Inv, TypeOK
<1> HIDE DEF L
<1>3. token' \in Seq(L)
  <2>1. CASE token = <<>>
    BY <1>1, <1>2, <2>1, Characters
  <2>2. CASE token # <<>>
    BY <1>1, <1>2, <2>2, Characters
  <2> QED
    BY <2>1, <2>2
<1>4. search' \in BOOLEAN /\ search_result' \in BOOLEAN
  BY <1>1
<1>5. ModeType'
  BY <1>1, <1>2, <1>3, <1>4 DEF ModeType, L
<1>6. Modes'
  BY <1>1 DEF Inv, Modes
<1> QED
  BY <1>1, <1>5, <1>6, ModeStep

\* A key with a character.
LEMMA LetterStep ==
  ASSUME Inv, NEW c \in Letters, Letter(c)
  PROVE  Inv' /\ WindowStep
<1>1. pc = "key"
  BY DEF Letter
<1>2. CASE Type(c)
  BY <1>1, <1>2, TypeStep
<1>3. CASE Scroll(ScrollBottom(v))
  BY <1>3, ScrollBottomStep
<1>4. CASE Draw(IF g THEN ScrollTop(v) ELSE v) /\ g' = TRUE
           /\ UNCHANGED <<lines, searchVars, search, search_result, token, pc>>
  <2> DEFINE b == IF g THEN ScrollTop(v) ELSE v
  <2>1. /\ UNCHANGED <<lines, lastSearchToken, lastSearchResultLine, lineIndex, stopAtLineIndex>>
        /\ UNCHANGED <<search, search_result, token, pc>>
    BY <1>4 DEF searchVars
  <2>2. /\ Drawable(b) /\ b.maxHeight = v.maxHeight
        /\ Clamped(b.begin, v.maxHeight) = 0 \/ Clamped(b.begin, v.maxHeight) = v.begin
    BY InvView, ScrollTopMoves
  <2> HIDE DEF b
  <2>3. Draw(b)
    BY <1>4 DEF b
  <2>4. /\ ViewType' /\ Full(v)' /\ N' = N /\ v'.maxHeight = v.maxHeight
        /\ v'.begin = 0 \/ v'.begin = v.begin
    BY <2>1, <2>2, <2>3, DrawView
  <2>5. SearchType'
    BY <2>1, <2>4 DEF Inv, TypeOK, SearchType
  <2>6. ModeType'
    BY <1>4, <2>1 DEF Inv, TypeOK, ModeType
  <2>7. Modes' /\ Loop'
    BY <2>1 DEF Inv, Modes, Loop
  <2>8. WindowStep
    BY <2>1, <2>4 DEF WindowStep, Pages!windowVars, Pages!Next, Pages!Scroll, Pages!Home
  <2> QED
    BY <2>4, <2>5, <2>6, <2>7, <2>8 DEF Inv, TypeOK, ViewType, SearchType, ModeType
<1>5. CASE Quit
  BY <1>5, QuitStep
<1>6. CASE Draw(v) /\ search' = TRUE /\ token' = <<"/">>
           /\ UNCHANGED <<lines, searchVars, g, search_result, pc>>
  <2>1. /\ g \in BOOLEAN /\ search_result \in BOOLEAN /\ UNCHANGED <<lines, searchVars>>
        /\ UNCHANGED <<g, search_result, pc>>
    BY <1>6 DEF Inv, TypeOK
  <2>2. <<"/">> \in Seq(Letters \cup {"/", " "}) /\ <<"/">> # <<>>
    OBVIOUS
  <2>3. ModeType' /\ Modes'
    BY <1>1, <1>6, <2>1, <2>2 DEF ModeType, Modes
  <2> QED
    BY <1>1, <1>6, <2>1, <2>3, ModeStep
<1> QED
  BY <1>2, <1>3, <1>4, <1>5, <1>6 DEF Letter

\* The search has come back to where it began.
LEMMA NotFoundStep ==
  ASSUME Inv, NotFound
  PROVE  Inv' /\ WindowStep
<1>1. /\ Draw(v) /\ search_result' = FALSE /\ pc' = "key"
      /\ UNCHANGED <<lines, searchVars>> /\ UNCHANGED <<g, search, token>>
  BY DEF NotFound
<1>2. ModeType'
  BY <1>1 DEF Inv, TypeOK, ModeType
<1>3. Modes'
  BY <1>1 DEF Inv, Modes
<1> QED
  BY <1>1, <1>2, <1>3, ModeStep

\* Reading on is not seen in the window.
LEMMA ReadOn ==
  ASSUME Inv, NEW n \in Int, v' = ScanUntil(v, n), UNCHANGED lines
  PROVE  /\ ViewType' /\ Full(v)' /\ N' = N
         /\ v'.begin = v.begin /\ v'.maxHeight = v.maxHeight
<1>1. N' = N /\ N \in Nat
  BY InvView DEF N
<1>2. /\ Buffer(v') /\ v'.begin = v.begin /\ v'.maxHeight = v.maxHeight
      /\ v'.len >= v.len /\ (v.last = N => v'.last = N)
  BY <1>1, InvView, ScanUntilReads
<1>3. /\ v'.len \in 0..N /\ v.len \in 0..N /\ v.begin \in 0..N /\ v.maxHeight \in Heights
      /\ v.maxHeight \in Nat
  <2>1. v.len \in 0..N /\ v.begin \in 0..N
    BY DEF Inv, TypeOK
  <2> QED
    BY <1>2, <2>1, InvView DEF Buffer
<1>4. Full(v)'
  BY <1>1, <1>2, <1>3 DEF Inv, Full
<1>5. /\ v' \in [len : 0..N, begin : 0..N, last : {-1, N}, maxHeight : Heights]
      /\ v'.last = N => v'.len = N
  BY <1>2, <1>3 DEF Buffer
<1>6. ViewType'
  BY <1>1, <1>5 DEF ViewType, Inv, TypeOK
<1> QED
  BY <1>1, <1>2, <1>4, <1>6

\* The search goes on at another line.
LEMMA OnwardStep ==
  ASSUME Inv, pc = "search", lineIndex # stopAtLineIndex, NEW k \in 0..N,
         v' = ScanUntil(v, lineIndex + 1), lineIndex' = k, stopAtLineIndex' = Stop,
         UNCHANGED <<lines, lastSearchToken, lastSearchResultLine, modeVars, pc>>
  PROVE  Inv' /\ WindowStep
<1>1. /\ N \in Nat /\ lineIndex \in 0..N + 1 /\ stopAtLineIndex \in -1..N
      /\ lastSearchResultLine \in -1..N
      /\ stopAtLineIndex = -1 => lineIndex = 0
      /\ stopAtLineIndex = lastSearchResultLine \/ lastSearchResultLine = -1
  BY InvView DEF Inv, TypeOK, Loop
<1>2. lineIndex + 1 \in Int
  BY <1>1
<1>3. /\ ViewType' /\ Full(v)' /\ N' = N
      /\ v'.begin = v.begin /\ v'.maxHeight = v.maxHeight
  BY <1>2, ReadOn
<1>4. /\ Stop \in 0..N
      /\ Stop = lastSearchResultLine \/ lastSearchResultLine = -1
  BY <1>1 DEF Stop
<1>5. SearchType'
  <2>1. lastSearchToken' = lastSearchToken /\ lastSearchToken \in Seq(Letters \cup {"/", " "})
    BY DEF Inv, TypeOK
  <2>2. /\ lastSearchResultLine' \in -1..N' /\ lineIndex' \in 0..N' + 1
        /\ stopAtLineIndex' \in -1..N'
    BY <1>1, <1>3, <1>4
  <2> QED
    BY <2>1, <2>2 DEF SearchType
<1>6. ModeType' /\ Modes'
  BY DEF Inv, TypeOK, ModeType, Modes, modeVars
<1>7. Loop'
  BY <1>1, <1>4 DEF Loop
<1>8. WindowStep
  BY <1>3 DEF WindowStep, Pages!windowVars
<1> QED
  BY <1>3, <1>5, <1>6, <1>7, <1>8 DEF Inv, TypeOK, ViewType, SearchType, ModeType

\* The search has found a line: it is another than the last result, and the
\* window is moved to the line before it.
LEMMA FoundView ==
  ASSUME Inv, pc = "search", lineIndex # stopAtLineIndex,
         lineIndex < ScanUntil(v, lineIndex + 1).len,
         Draw(ScrollToLine(ScanUntil(v, lineIndex + 1), lineIndex - 1)), UNCHANGED lines
  PROVE  /\ lineIndex \in 0..N - 1 /\ lineIndex # lastSearchResultLine
         /\ ViewType' /\ Full(v)' /\ N' = N /\ v'.maxHeight = v.maxHeight
         /\ v'.begin = Clamped(lineIndex - 1, v.maxHeight)
<1> DEFINE r == ScanUntil(v, lineIndex + 1)
           b == ScrollToLine(r, lineIndex - 1)
<1>1. /\ N \in Nat /\ lineIndex \in 0..N + 1 /\ stopAtLineIndex \in -1..N
      /\ stopAtLineIndex = lastSearchResultLine \/ lastSearchResultLine = -1
      /\ v.maxHeight \in Nat
  BY InvView DEF Inv, TypeOK, Loop
<1>2. lineIndex + 1 \in Int /\ lineIndex - 1 \in Int
  BY <1>1
<1>3. Buffer(r) /\ r.maxHeight = v.maxHeight
  BY <1>2, InvView, ScanUntilReads
<1>4. lineIndex \in 0..N - 1 /\ lineIndex # lastSearchResultLine
  <2>1. r.len \in 0..N
    BY <1>3 DEF Buffer
  <2> QED
    BY <1>1, <2>1
<1> HIDE DEF r
<1>5. /\ Drawable(b) /\ b.maxHeight = v.maxHeight
      /\ Clamped(b.begin, v.maxHeight) = Clamped(lineIndex - 1, v.maxHeight)
  BY <1>1, <1>2, <1>3, ScrollToLineMoves
<1>6. Draw(b)
  BY DEF r
<1> HIDE DEF b
<1> QED
  BY <1>4, <1>5, <1>6, DrawView

\* The line that has been found becomes the last result.
LEMMA FoundStep ==
  ASSUME Inv, pc = "search", lineIndex # stopAtLineIndex,
         lineIndex < ScanUntil(v, lineIndex + 1).len,
         Draw(ScrollToLine(ScanUntil(v, lineIndex + 1), lineIndex - 1)),
         lastSearchResultLine' = lineIndex, search_result' = TRUE, pc' = "key",
         UNCHANGED <<lines, lastSearchToken, lineIndex, stopAtLineIndex, g, search, token>>
  PROVE  Inv' /\ WindowStep
<1>1. N \in Nat /\ lineIndex \in 0..N + 1 /\ stopAtLineIndex \in -1..N /\ v.maxHeight \in Nat
  BY InvView DEF Inv, TypeOK
<1>4. lineIndex \in 0..N - 1 /\ lineIndex # lastSearchResultLine
  BY FoundView
<1>7. /\ ViewType' /\ Full(v)' /\ N' = N /\ v'.maxHeight = v.maxHeight
      /\ v'.begin = Clamped(lineIndex - 1, v.maxHeight)
  BY FoundView
<1>8. SearchType'
  <2>1. lastSearchToken' = lastSearchToken /\ lastSearchToken \in Seq(Letters \cup {"/", " "})
    BY DEF Inv, TypeOK
  <2>2. /\ lastSearchResultLine' \in -1..N' /\ lineIndex' \in 0..N' + 1
        /\ stopAtLineIndex' \in -1..N'
    BY <1>1, <1>4, <1>7
  <2> QED
    BY <2>1, <2>2 DEF SearchType
<1>9. ModeType'
  BY DEF Inv, TypeOK, ModeType
<1>10. WindowStep
  <2>1. Pages!Bottom = LastTop(v.maxHeight)
    BY <1>1 DEF Pages!Bottom, Pages!Greatest, LastTop
  <2>2. Pages!Least(Pages!Greatest(lineIndex - 1, 0), LastTop(v.maxHeight))
          = Clamped(lineIndex - 1, v.maxHeight)
    BY <1>1, <1>4 DEF Pages!Least, Pages!Greatest, LastTop, Clamped
  <2>3. Pages!Find
    BY <1>4, <1>7, <2>1, <2>2 DEF Pages!Find
  <2> QED
    BY <1>7, <2>3 DEF WindowStep, Pages!Next
<1>11. Modes' /\ Loop'
  BY DEF Inv, Modes, Loop
<1> QED
  BY <1>7, <1>8, <1>9, <1>10, <1>11 DEF Inv, TypeOK, ViewType, SearchType, ModeType

\* Every step preserves the invariant and is a step of the window.
LEMMA NextStep ==
  ASSUME Inv, [Next]_vars
  PROVE  Inv' /\ WindowStep
<1>1. CASE ArrowDown
  BY <1>1, ScrollDownStep DEF ArrowDown
<1>2. CASE ArrowUp
  BY <1>2, ScrollUpStep DEF ArrowUp
<1>3. CASE Enter
  BY <1>3, SearchStep, ScrollDownStep DEF Enter
<1>4. CASE Space
  <2>1. CASE Type(" ")
    BY <1>4, <2>1, TypeStep DEF Space
  <2> QED
    BY <1>4, <2>1, ScrollDownNStep DEF Space
<1>5. CASE Esc
  BY <1>5, EscStep
<1>6. CASE Backspace
  BY <1>6, BackspaceStep
<1>7. CASE CtrlC
  BY <1>7, QuitStep DEF CtrlC
<1>8. CASE OtherEvent
  <2>1. Inv' /\ N' = N /\ v'.maxHeight = v.maxHeight /\ v'.begin = v.begin
        /\ lastSearchResultLine' = lastSearchResultLine
    BY <1>8, InvView, ScrollStep DEF OtherEvent
  <2> QED
    BY <2>1 DEF WindowStep, Pages!windowVars
<1>9. ASSUME NEW c \in Letters, Letter(c)
      PROVE  Inv' /\ WindowStep
  BY <1>9, LetterStep
<1>10. CASE NotFound
  BY <1>10, NotFoundStep
<1>11. CASE Wrap
  <2>1. 0 \in 0..N
    BY InvView
  <2> QED
    BY <1>11, <2>1, OnwardStep DEF Wrap
<1>12. CASE LookAt
  <2> DEFINE r == ScanUntil(v, lineIndex + 1)
  <2>1. pc = "search" /\ lineIndex # stopAtLineIndex /\ lineIndex < r.len
    BY <1>12 DEF LookAt
  <2>2. CASE /\ v' = r /\ lineIndex' = lineIndex + 1 /\ stopAtLineIndex' = Stop
             /\ UNCHANGED <<lines, lastSearchToken, lastSearchResultLine, modeVars, pc>>
    <3>0. N \in Nat /\ lineIndex \in 0..N + 1
      BY InvView DEF Inv, TypeOK
    <3>1. N \in Nat /\ lineIndex \in 0..N + 1 /\ lineIndex + 1 \in Int
      BY <3>0
    <3>2. r.len \in 0..N
      BY <3>1, InvView, ScanUntilReads DEF Buffer
    <3>3. lineIndex + 1 \in 0..N
      BY <2>1, <3>1, <3>2
    <3> QED
      BY <2>1, <2>2, <3>3, OnwardStep
  <2>3. CASE /\ Draw(ScrollToLine(r, lineIndex - 1)) /\ lastSearchResultLine' = lineIndex
             /\ search_result' = TRUE /\ pc' = "key"
             /\ UNCHANGED <<lines, lastSearchToken, lineIndex, stopAtLineIndex, g, search, token>>
    BY <2>1, <2>3, FoundStep
  <2> QED
    BY <1>12, <2>2, <2>3 DEF LookAt
<1>13. CASE UNCHANGED vars
  <2>1. /\ UNCHANGED <<lines, v, lastSearchToken, lastSearchResultLine, lineIndex, stopAtLineIndex>>
        /\ UNCHANGED <<g, search, search_result, token, pc>> /\ N' = N
    BY <1>13 DEF vars, searchVars, modeVars, N
  <2>2. TypeOK'
    BY <2>1 DEF Inv, TypeOK
  <2>3. Full(v)' /\ Modes' /\ Loop'
    BY <2>1 DEF Inv, Full, Modes, Loop
  <2> QED
    BY <2>1, <2>2, <2>3 DEF Inv, WindowStep, Pages!windowVars
<1> QED
  BY <1>1, <1>2, <1>3, <1>4, <1>5, <1>6, <1>7, <1>8, <1>9, <1>10, <1>11, <1>12, <1>13
     DEF Next, Event, SearchFromLine

\* The pager starts with the first lines of the text.
LEMMA InitInv ==
  ASSUME Init
  PROVE  Inv /\ Pages!Init
<1>1. lines \in Texts /\ N \in Nat
  BY TextsAssumption DEF Init, N
<1>2. PICK h \in Heights : v = CurrentView([len |-> 0, begin |-> 0, last |-> -1, maxHeight |-> h])
  BY DEF Init
<1> DEFINE b == [len |-> 0, begin |-> 0, last |-> -1, maxHeight |-> h]
<1>3. b.begin = 0 /\ b.maxHeight = h /\ h \in Nat
  BY HeightsAssumption
<1>4. Drawable(b)
  <2>1. 0 \in 0..N /\ -1 # N
    BY <1>1
  <2> QED
    BY <1>3, <2>1 DEF Drawable, Buffer
<1>5. v = CurrentView(b)
  BY <1>2
<1> HIDE DEF b
<1>6. /\ Buffer(v) /\ Full(v) /\ v.maxHeight = h /\ v.begin = Clamped(0, h) /\ v.begin \in 0..N
  BY <1>1, <1>3, <1>4, <1>5, CurrentViewClamps
<1>7. v.begin = 0
  BY <1>1, <1>3, <1>6 DEF Clamped
<1>8. ViewType
  <2>1. v \in [len : 0..N, begin : 0..N, last : {-1, N}, maxHeight : Heights]
    BY <1>6 DEF Buffer
  <2> QED
    BY <1>1, <1>6, <2>1 DEF ViewType, Buffer
<1>9. SearchType
  <2>1. 0 \in -1..N /\ 0 \in 0..N + 1
    BY <1>1
  <2> QED
    BY <2>1, Characters DEF SearchType, Init
<1>10. ModeType /\ Modes /\ Loop
  <2>1. <<>> \in Seq(Letters \cup {"/", " "})
    OBVIOUS
  <2>2. ModeType
    BY <2>1 DEF Init, ModeType
  <2> QED
    BY <2>2 DEF Init, Modes, Loop
<1> QED
  BY <1>6, <1>7, <1>8, <1>9, <1>10, TypeParts DEF Inv, Pages!Init, Init

-----------------------------------------------------------------------------
\* The inductive invariant.
THEOREM PagerInvariant == Spec => []Inv
<1>1. Init => Inv
  BY InitInv
<1>2. Inv /\ [Next]_vars => Inv'
  BY NextStep
<1> QED
  BY <1>1, <1>2, PTL DEF Spec

\* The indexes stay in range (TypeOK), for every text and terminal.
THEOREM PagerTypeCorrect == Spec => []TypeOK
<1>1. Inv => TypeOK
  BY DEF Inv
<1> QED
  BY <1>1, PagerInvariant, PTL

\* Search, which cuts the slash off the token (token[1:]), is never called
\* with an empty token, whatever keys are pressed.
THEOREM SearchNeverPanics == Spec => []NeverPanics
<1>1. Inv => NeverPanics
  BY DEF Inv, Modes, NeverPanics
<1> QED
  BY <1>1, PagerInvariant, PTL

\* CurrentView returns as many lines as the terminal has room for, or all.
THEOREM WindowIsFull == Spec => []ViewIsFull
<1>1. Inv => ViewIsFull
  <2>1. SUFFICES ASSUME Inv PROVE ViewIsFull
    OBVIOUS
  <2>2. /\ N \in Nat /\ v.maxHeight \in Nat /\ v.len \in 0..N /\ v.begin \in 0..N
        /\ v.last = N => v.len = N
    BY <2>1, InvView DEF Buffer, Inv, TypeOK
  <2> QED
    BY <2>1, <2>2 DEF ViewIsFull, Inv, Full
<1> QED
  BY <1>1, PagerInvariant, PTL

\* The pager, which reads its input as far as it is scrolled or searched,
\* implements a window on the whole text.
THEOREM PagerImplementsWindow == Spec => IsWindow
<1>1. Init => Pages!Init
  BY InitInv
<1>2. Inv /\ [Next]_vars => [Pages!Next]_(Pages!windowVars)
  BY NextStep DEF WindowStep
<1> QED
  BY <1>1, <1>2, PagerInvariant, PTL DEF Spec, IsWindow, Pages!Spec

-----------------------------------------------------------------------------
(***************************************************************************)
(* What a search finds.  The lines it has passed are those that come after *)
(* the last result and before the line it looks at next; when a token is   *)
(* new there is no last result, and all lines are passed when the loop is  *)
(* back at the first of them.                                              *)
(***************************************************************************)
Passed(i) ==
  \/ Before(lastSearchResultLine, i, lineIndex)
  \/ lastSearchResultLine = -1 /\ lineIndex = 0 /\ stopAtLineIndex = 0

\* The last result is a line with the token, also long after the search.
ResultHasToken ==
  lastSearchToken # <<>> /\ lastSearchResultLine # -1 =>
    lastSearchResultLine \in 0..N - 1 /\ HasToken(lastSearchResultLine)

\* The loop stops at the last result, or else at the first line.
PassedLackToken ==
  pc = "search" =>
    /\ lastSearchToken # <<>>
    /\ IF lastSearchResultLine = -1 THEN stopAtLineIndex \in {-1, 0}
       ELSE stopAtLineIndex = lastSearchResultLine
    /\ \A i \in 0..N - 1 : Passed(i) => ~HasToken(i)

SearchInv == ResultHasToken /\ PassedLackToken

\* An event that starts no search leaves the last result alone.
LEMMA QuietEvent ==
  ASSUME SearchInv, pc' # "search", UNCHANGED <<lines, lastSearchToken, lastSearchResultLine>>
  PROVE  SearchInv'
BY DEF SearchInv, ResultHasToken, PassedLackToken, HasToken, N

\* A search begins after the last result, if the token is the same.
LEMMA SearchBegins ==
  ASSUME Inv, SearchInv, Search
  PROVE  SearchInv'
<1>1. CASE pc' \in {"key", "panic"} /\ UNCHANGED <<lines, searchVars>>
  BY <1>1, QuietEvent DEF searchVars
<1>2. CASE /\ Len(token) > 1 /\ lastSearchToken' = Tail(token) /\ lastSearchResultLine' = SearchAfter
           /\ lineIndex' = SearchAfter + 1 /\ stopAtLineIndex' = SearchAfter /\ UNCHANGED lines
  <2>1. N \in Nat /\ N' = N /\ lastSearchResultLine \in -1..N
    BY <1>2, InvView DEF N, Inv, TypeOK
  <2>2. Tail(token) # <<>>
    <3>1. PICK T : token \in Seq(T)
      BY DEF Inv, TypeOK
    <3>2. ASSUME NEW s \in Seq(T), Len(s) > 1
          PROVE  Tail(s) # <<>>
      <4>1. Len(s) \in Nat /\ s # <<>>
        BY <3>2
      <4>2. Len(Tail(s)) = Len(s) - 1
        BY <4>1
      <4>3. Len(Tail(s)) # Len(<<>>)
        BY <3>2, <4>1, <4>2
      <4> QED
        BY <4>3
    <3> QED
      BY <1>2, <3>1, <3>2
  <2>3. ResultHasToken'
    BY <1>2, <2>1, <2>2 DEF SearchAfter, SearchInv, ResultHasToken, HasToken
  <2>4. SearchAfter \in -1..N
    BY <2>1 DEF SearchAfter
  <2>5. \A i \in 0..N - 1 : ~Passed(i)'
    BY <1>2, <2>1, <2>4 DEF Passed, Before
  <2>6. PassedLackToken'
    BY <1>2, <2>1, <2>2, <2>5 DEF PassedLackToken
  <2> QED
    BY <2>3, <2>6 DEF SearchInv
<1> QED
  BY <1>1, <1>2 DEF Search

\* What the loop does to the line it looks at, and where it goes.
LEMMA LoopLines ==
  ASSUME Inv, SearchInv, pc = "search", lineIndex # stopAtLineIndex
  PROVE  /\ N \in Nat /\ lineIndex \in 0..N + 1
         /\ lastSearchResultLine = -1 \/ lastSearchResultLine \in 0..N - 1
         /\ lastSearchResultLine = -1 => Stop = 0 /\ (stopAtLineIndex = -1 => lineIndex = 0)
         /\ lastSearchResultLine # -1 => Stop = lastSearchResultLine /\ stopAtLineIndex = lastSearchResultLine
         /\ lineIndex < ScanUntil(v, lineIndex + 1).len => lineIndex < N
         /\ lineIndex >= ScanUntil(v, lineIndex + 1).len => lineIndex >= N
<1>1. N \in Nat /\ lineIndex \in 0..N + 1 /\ stopAtLineIndex \in -1..N
  BY InvView DEF Inv, TypeOK
<1>2. /\ lastSearchResultLine = -1 \/ lastSearchResultLine \in 0..N - 1
      /\ IF lastSearchResultLine = -1 THEN stopAtLineIndex \in {-1, 0}
         ELSE stopAtLineIndex = lastSearchResultLine
      /\ stopAtLineIndex = -1 => lineIndex = 0
  BY DEF SearchInv, ResultHasToken, PassedLackToken, Inv, Loop
<1>3. /\ lastSearchResultLine = -1 => Stop = 0
      /\ lastSearchResultLine # -1 => Stop = lastSearchResultLine
  BY <1>1, <1>2 DEF Stop
<1> DEFINE r == ScanUntil(v, lineIndex + 1)
<1>4. r.len \in 0..N /\ (r.len >= lineIndex + 1 \/ r.len = N)
  <2>1. lineIndex + 1 \in Int
    BY <1>1
  <2>2. Buffer(r) /\ (r.len >= lineIndex + 1 \/ r.last = N)
    BY <2>1, InvView, ScanUntilReads
  <2> QED
    BY <2>2 DEF Buffer
<1> HIDE DEF r
<1>5. (lineIndex < r.len => lineIndex < N) /\ (lineIndex >= r.len => lineIndex >= N)
  BY <1>1, <1>4
<1> QED
  BY <1>1, <1>2, <1>3, <1>5 DEF r

\* The loop goes on: one more line is passed, or the text starts again.
LEMMA LoopGoesOn ==
  ASSUME Inv, SearchInv, pc = "search", lineIndex # stopAtLineIndex,
         \/ lineIndex < N /\ ~HasToken(lineIndex) /\ lineIndex' = lineIndex + 1
         \/ lineIndex >= N /\ lineIndex' = 0,
         stopAtLineIndex' = Stop, UNCHANGED <<lines, lastSearchToken, lastSearchResultLine, pc>>
  PROVE  SearchInv'
<1>1. /\ N \in Nat /\ lineIndex \in 0..N + 1 /\ N' = N
      /\ lastSearchResultLine = -1 \/ lastSearchResultLine \in 0..N - 1
      /\ lastSearchResultLine = -1 => Stop = 0 /\ (stopAtLineIndex = -1 => lineIndex = 0)
      /\ lastSearchResultLine # -1 => Stop = lastSearchResultLine /\ stopAtLineIndex = lastSearchResultLine
  BY LoopLines DEF N
<1>2. ASSUME NEW i \in 0..N - 1, Passed(i)'
      PROVE  Passed(i) \/ (i = lineIndex /\ ~HasToken(lineIndex))
  BY <1>1, <1>2 DEF Passed, Before
<1>3. \A i : HasToken(i)' = HasToken(i)
  BY DEF HasToken
<1>4. \A i \in 0..N - 1 : Passed(i)' => ~HasToken(i)
  BY <1>2 DEF SearchInv, PassedLackToken
<1>5. PassedLackToken'
  BY <1>1, <1>3, <1>4 DEF SearchInv, PassedLackToken
<1>6. ResultHasToken'
  BY <1>1, <1>3 DEF SearchInv, ResultHasToken
<1> QED
  BY <1>5, <1>6 DEF SearchInv

\* The loop ends at a line with the token, or where it began.
LEMMA SearchEnding ==
  ASSUME Inv, SearchInv, SearchFromLine, pc' = "key"
  PROVE  /\ pc = "search"
         /\ UNCHANGED <<lines, lastSearchToken>>
         /\ \/ /\ lineIndex = stopAtLineIndex /\ search_result' = FALSE
               /\ UNCHANGED lastSearchResultLine
            \/ /\ lineIndex # stopAtLineIndex /\ search_result' = TRUE
               /\ lastSearchResultLine' = lineIndex
               /\ lineIndex \in 0..N - 1 /\ HasToken(lineIndex)
               /\ v'.begin = Clamped(lineIndex - 1, v.maxHeight)
<1>1. CASE NotFound
  BY <1>1 DEF NotFound, searchVars
<1>2. CASE LookAt
  <2>1. /\ pc = "search" /\ lineIndex # stopAtLineIndex
        /\ lineIndex < ScanUntil(v, lineIndex + 1).len
        /\ Contains(lines[lineIndex + 1], lastSearchToken)
        /\ Draw(ScrollToLine(ScanUntil(v, lineIndex + 1), lineIndex - 1))
        /\ lastSearchResultLine' = lineIndex /\ search_result' = TRUE
        /\ UNCHANGED <<lines, lastSearchToken>>
    BY <1>2 DEF LookAt
  <2>2. lineIndex \in 0..N - 1 /\ v'.begin = Clamped(lineIndex - 1, v.maxHeight)
    BY <2>1, FoundView
  <2> QED
    BY <2>1, <2>2 DEF HasToken
<1>3. CASE Wrap
  BY <1>3 DEF Wrap
<1> QED
  BY <1>1, <1>2, <1>3 DEF SearchFromLine

\* Every step preserves what is known about the search.
LEMMA NextSearch ==
  ASSUME Inv, SearchInv, [Next]_vars
  PROVE  SearchInv'
<1>1. CASE Event /\ pc' # "search" /\ UNCHANGED <<lines, lastSearchToken, lastSearchResultLine>>
  BY <1>1, QuietEvent
<1>2. CASE Enter
  BY <1>2, SearchBegins, QuietEvent DEF Enter, Scroll, searchVars
<1>3. ArrowDown \/ ArrowUp \/ OtherEvent => pc' # "search" /\ UNCHANGED <<lines, lastSearchToken, lastSearchResultLine>>
  BY DEF ArrowDown, ArrowUp, OtherEvent, Scroll, searchVars
<1>4. Space \/ Esc \/ Backspace \/ CtrlC => pc' # "search" /\ UNCHANGED <<lines, lastSearchToken, lastSearchResultLine>>
  BY DEF Space, Esc, Backspace, CtrlC, Scroll, Type, Quit, searchVars
<1>5. ASSUME NEW c \in Letters, Letter(c)
      PROVE  pc' # "search" /\ UNCHANGED <<lines, lastSearchToken, lastSearchResultLine>>
  BY <1>5 DEF Letter, Scroll, Type, Quit, searchVars
<1>6. CASE SearchFromLine /\ pc' = "key"
  <2>1. /\ pc = "search" /\ UNCHANGED <<lines, lastSearchToken>>
        /\ \/ UNCHANGED lastSearchResultLine
           \/ /\ lastSearchResultLine' = lineIndex
              /\ lineIndex \in 0..N - 1 /\ HasToken(lineIndex)
    BY <1>6, SearchEnding
  <2>2. ResultHasToken'
    BY <2>1 DEF SearchInv, ResultHasToken, HasToken, N
  <2>3. PassedLackToken'
    BY <1>6 DEF PassedLackToken
  <2> QED
    BY <2>2, <2>3 DEF SearchInv
<1>7. CASE Wrap
  <2>1. /\ pc = "search" /\ lineIndex # stopAtLineIndex /\ lineIndex >= ScanUntil(v, lineIndex + 1).len
        /\ lineIndex' = 0 /\ stopAtLineIndex' = Stop
        /\ UNCHANGED <<lines, lastSearchToken, lastSearchResultLine, pc>>
    BY <1>7 DEF Wrap
  <2> QED
    BY <2>1, LoopLines, LoopGoesOn
<1>8. CASE LookAt /\ pc' # "key"
  <2>1. /\ pc = "search" /\ lineIndex # stopAtLineIndex /\ lineIndex < ScanUntil(v, lineIndex + 1).len
        /\ ~HasToken(lineIndex)
        /\ lineIndex' = lineIndex + 1 /\ stopAtLineIndex' = Stop
        /\ UNCHANGED <<lines, lastSearchToken, lastSearchResultLine, pc>>
    BY <1>8 DEF LookAt, HasToken
  <2> QED
    BY <2>1, LoopLines, LoopGoesOn
<1>9. CASE UNCHANGED vars
  BY <1>9 DEF vars, searchVars, SearchInv, ResultHasToken, PassedLackToken, Passed, HasToken, N
<1>10. NotFound => pc' = "key"
  BY DEF NotFound
<1> QED
  BY <1>1, <1>2, <1>3, <1>4, <1>5, <1>6, <1>7, <1>8, <1>9, <1>10 DEF Next, Event, SearchFromLine

\* No line has been looked at at the start.
LEMMA InitSearch == Init => SearchInv
BY DEF Init, SearchInv, ResultHasToken, PassedLackToken

\* What is known about the search, in every state.
THEOREM SearchInvariant == Spec => []SearchInv
<1>1. Inv /\ SearchInv /\ [Next]_vars => SearchInv'
  BY NextSearch
<1> QED
  BY <1>1, InitSearch, PagerInvariant, PTL DEF Spec

\* A search ends in a step of its loop.
LEMMA EndsInLoop ==
  ASSUME Inv, [Next]_vars, pc = "search", pc' = "key"
  PROVE  SearchFromLine
<1>1. Event => pc = "key"
  BY DEF Event, ArrowDown, ArrowUp, Enter, Space, Esc, Backspace, CtrlC, OtherEvent, Letter
<1> QED
  BY <1>1 DEF Next, vars

\* Search finds the next line with the token: the first after the last
\* result, going round at the end of the text, for every text, every token
\* and every way to compare them; and it gives up only if there is no other.
THEOREM SearchFindsNext == Spec => FindsNext
<1> DEFINE a == lastSearchResultLine
           r == lastSearchResultLine'
           Finds == (pc = "search" /\ pc' = "key") =>
                       /\ a # -1 => HasToken(a)
                       /\ IF search_result'
                          THEN HasToken(r) /\ \A i \in 0..N - 1 : Before(a, i, r) => ~HasToken(i)
                          ELSE \A i \in 0..N - 1 : i # a => ~HasToken(i)
<1>1. Inv /\ SearchInv /\ [Next]_vars => [Finds]_vars
  <2> SUFFICES ASSUME Inv, SearchInv, [Next]_vars, pc = "search", pc' = "key"
               PROVE  /\ a # -1 => HasToken(a)
                      /\ IF search_result'
                         THEN HasToken(r) /\ \A i \in 0..N - 1 : Before(a, i, r) => ~HasToken(i)
                         ELSE \A i \in 0..N - 1 : i # a => ~HasToken(i)
    OBVIOUS
  <2>1. SearchFromLine
    BY EndsInLoop
  <2>2. a # -1 => HasToken(a)
    BY DEF SearchInv, ResultHasToken, PassedLackToken
  <2>3. \A i \in 0..N - 1 : Passed(i) => ~HasToken(i)
    BY DEF SearchInv, PassedLackToken
  <2>4. CASE lineIndex = stopAtLineIndex /\ search_result' = FALSE
    <3>1. /\ N \in Nat /\ lineIndex \in 0..N + 1
          /\ IF a = -1 THEN stopAtLineIndex \in {-1, 0} ELSE stopAtLineIndex = a
      BY InvView DEF Inv, TypeOK, SearchInv, PassedLackToken
    <3>2. \A i \in 0..N - 1 : i # a => Passed(i)
      BY <2>4, <3>1 DEF Passed, Before
    <3> QED
      BY <2>2, <2>3, <2>4, <3>2
  <2>5. CASE search_result' = TRUE /\ r = lineIndex /\ HasToken(lineIndex)
    <3>1. \A i \in 0..N - 1 : Before(a, i, r) => Passed(i)
      BY <2>5 DEF Passed
    <3> QED
      BY <2>2, <2>3, <2>5, <3>1
  <2> QED
    BY <2>1, <2>4, <2>5, SearchEnding
<1> HIDE DEF Finds
<1>2. Spec => [][Finds]_vars
  BY <1>1, PagerInvariant, SearchInvariant, PTL DEF Spec
<1> QED
  BY <1>2 DEF FindsNext, Finds

\* The line that has been found is in the window, if that has two lines.
THEOREM FoundLineIsShown == Spec => FoundIsShown
<1> DEFINE Shown == (pc = "search" /\ pc' = "key" /\ search_result' /\ v.maxHeight >= 2) =>
                      /\ v'.begin <= lastSearchResultLine'
                      /\ lastSearchResultLine' < v'.begin + v.maxHeight
<1>1. Inv /\ SearchInv /\ [Next]_vars => [Shown]_vars
  <2> SUFFICES ASSUME Inv, SearchInv, [Next]_vars, pc = "search", pc' = "key", search_result',
                      v.maxHeight >= 2
               PROVE  /\ v'.begin <= lastSearchResultLine'
                      /\ lastSearchResultLine' < v'.begin + v.maxHeight
    OBVIOUS
  <2>1. /\ lastSearchResultLine' = lineIndex /\ lineIndex \in 0..N - 1
        /\ v'.begin = Clamped(lineIndex - 1, v.maxHeight)
    BY EndsInLoop, SearchEnding
  <2>2. N \in Nat /\ v.maxHeight \in Nat
    BY InvView
  <2> QED
    BY <2>1, <2>2 DEF Clamped
<1> HIDE DEF Shown
<1>2. Spec => [][Shown]_vars
  BY <1>1, PagerInvariant, SearchInvariant, PTL DEF Spec
<1> QED
  BY <1>2 DEF FoundIsShown, Shown
=============================================================================
