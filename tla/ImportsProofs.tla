--------------------------- MODULE ImportsProofs ---------------------------
(***************************************************************************)
(* Proofs about module Imports, for every file system, command line,       *)
(* template language and stack size.                                       *)
(***************************************************************************)
EXTENDS Imports, SequenceFacts, FiniteSetTheorems

\* The modules a call of Parse holds: those of the sections it has
\* finished, and those its finished imports point to.
Held(f) == {f.modules[k] : k \in DOMAIN f.modules} \cup {f.imports[i].mod : i \in DOMAIN f.imports}

Pointed(x) == \E m \in DOMAIN mods : \E i \in DOMAIN mods[m].imports : Child(m, i) = x

\* What is held is not yet reachable from anywhere else.
HeldFree ==
  \A d \in DOMAIN pstack : \A x \in Held(pstack[d]) :
    /\ x \in DOMAIN mods
    /\ x \notin DOMAIN exports
    /\ ~Pointed(x)
    /\ \A r \in DOMAIN roots : roots[r] < x

\* Calls made later hold modules made later.
HeldOrdered ==
  /\ \A d, e \in DOMAIN pstack : d < e =>
       \A x \in Held(pstack[d]), y \in Held(pstack[e]) : x < y
  /\ \A d \in DOMAIN pstack :
       /\ \A k \in DOMAIN pstack[d].modules, i \in DOMAIN pstack[d].imports :
            pstack[d].modules[k] < pstack[d].imports[i].mod
       /\ \A i, j \in DOMAIN pstack[d].imports : i < j => pstack[d].imports[i].mod < pstack[d].imports[j].mod

ParseInv ==
  /\ pstack # <<>> => status \notin {"load", "eval"} /\ estack = <<>>
  /\ status = "parse" => pstack # <<>>
  /\ status \in {"parse", "eval"} => fileIx <= Len(Filenames)
  /\ \A d \in DOMAIN pstack : ReadFromPath(pstack[d].path) # Unreadable
  /\ HeldFree
  /\ HeldOrdered

\* The template a call of EvaluateExport or EvaluateImport starts from.
Source(f) == IF f.imp = 0 THEN Raw(f.mod) ELSE DeclaredParams(f.mod, f.imp)
Slot(f) == <<f.mod, f.imp>>
Depths == DOMAIN estack

\* Modules are evaluated inside their importers, which were parsed later.
Nested ==
  /\ \A d, e \in Depths : d < e =>
       /\ estack[e].mod <= estack[d].mod
       /\ estack[e].imp = 0 => estack[e].mod < estack[d].mod
  /\ estack # <<>> => estack[1].imp = 0 /\ \E r \in DOMAIN roots : estack[1].mod = roots[r]

\* Why the call above is there: its module is the import's, or a hole
\* refers to the import and is not filled.
Pushed(f, g) ==
  IF g.imp = 0
  THEN f.imp # 0 /\ f.applied /\ g.mod = Child(f.mod, f.imp)
  ELSE /\ ~f.applied
       /\ g.mod = f.mod
       /\ \E h \in MapHoles(Source(f)) :
            h.name \notin DOMAIN params[f.mod] /\ FirstNamed(f.mod, h.name, g.imp)

Filled(f) ==
  \A h \in DOMAIN f.env :
    h.name \notin DOMAIN params[f.mod] =>
      \E i \in DOMAIN mods[f.mod].imports : FirstNamed(f.mod, h.name, i) /\ <<f.mod, i>> \in impEvaluated

\* A module in evaluation has no export yet; an import in evaluation is not
\* evaluated, its Params are those of the file until they are applied, and
\* those of its module afterwards.
Open(f) ==
  /\ f.imp = 0 => ~f.applied /\ f.mod \notin DOMAIN exports
  /\ f.imp # 0 => Slot(f) \notin impEvaluated
  /\ f.imp # 0 /\ ~f.applied => Slot(f) \notin DOMAIN applied
  /\ f.applied => /\ MapHoles(Source(f)) \subseteq DOMAIN f.env
                  /\ Slot(f) \in DOMAIN applied
                  /\ Child(f.mod, f.imp) \in DOMAIN params
                  /\ params[Child(f.mod, f.imp)] = applied[Slot(f)]

\* Params are applied by a call that is open or has returned, and only
\* after that does the import's module get an export.
AppliedBy ==
  /\ \A s \in DOMAIN applied :
       /\ s[1] \in DOMAIN mods
       /\ s[2] \in DOMAIN mods[s[1]].imports
       /\ s = <<s[1], s[2]>>
       /\ s \in impEvaluated \/ \E d \in Depths : estack[d].applied /\ Slot(estack[d]) = s
  /\ \A m \in DOMAIN mods : \A i \in DOMAIN mods[m].imports :
       Child(m, i) \in DOMAIN exports => <<m, i>> \in DOMAIN applied

EvalInv ==
  /\ estack # <<>> => status \notin {"load", "parse", "done"}
  /\ Nested
  /\ \A d \in Depths : d + 1 \in Depths => Pushed(estack[d], estack[d + 1])
  /\ \A d \in Depths : Filled(estack[d]) /\ Open(estack[d])
  /\ status = "eval" /\ estack # <<>> /\ Top.applied => Child(Top.mod, Top.imp) \in DOMAIN exports
  /\ DOMAIN exports \subseteq DOMAIN params
  /\ AppliedBy

Inv == TypeOK /\ OwnedOnce /\ Isolated /\ ParseInv /\ EvalInv

-----------------------------------------------------------------------------
(***************************************************************************)
(* Sequences used as stacks.                                               *)
(***************************************************************************)
\* A sequence over a set is one over every larger set.
LEMMA SeqMonotone ==
  ASSUME NEW S, NEW R, S \subseteq R, NEW s \in Seq(S)
  PROVE  s \in Seq(R)
OBVIOUS

\* A sequence is one over the set of its elements.
LEMMA SeqOfElements ==
  ASSUME NEW S, NEW s \in Seq(S)
  PROVE  s \in Seq({s[i] : i \in DOMAIN s})
OBVIOUS

\* A call pushes a frame: the frames below it stay, the new one is the last.
LEMMA Pushing ==
  ASSUME NEW S, NEW s \in Seq(S), NEW e
  PROVE  /\ Append(s, e) \in Seq(S \cup {e})
         /\ Len(Append(s, e)) = Len(s) + 1
         /\ DOMAIN Append(s, e) = 1..Len(s) + 1
         /\ \A i \in 1..Len(s) : Append(s, e)[i] = s[i]
         /\ Append(s, e)[Len(s) + 1] = e
<1>1. s \in Seq(S \cup {e}) /\ e \in S \cup {e}
  BY SeqMonotone
<1> QED BY <1>1

\* A return pops a frame: the frames below it stay.
LEMMA Popping ==
  ASSUME NEW S, NEW s \in Seq(S), s # <<>>
  PROVE  /\ Len(s) \in Nat \ {0}
         /\ Last(s) = s[Len(s)]
         /\ Last(s) \in S
         /\ Front(s) \in Seq(S)
         /\ Len(Front(s)) = Len(s) - 1
         /\ DOMAIN Front(s) = 1..Len(s) - 1
         /\ \A i \in 1..Len(s) - 1 : Front(s)[i] = s[i]
<1>1. Len(s) \in Nat \ {0}
  OBVIOUS
<1>2. Last(s) = s[Len(s)] /\ Last(s) \in S
  BY <1>1 DEF Last
<1>3. /\ Front(s) \in Seq(S)
      /\ Len(Front(s)) = Len(s) - 1
      /\ \A i \in 1..Len(s) - 1 : Front(s)[i] = s[i]
  <2> DEFINE n == Len(s) - 1
  <2>1. n \in Int /\ n >= 0 /\ \A i \in 1..n : s[i] \in S
    BY <1>1
  <2>2. /\ SubSeq(s, 1, n) \in Seq(S)
        /\ Len(SubSeq(s, 1, n)) = IF 1 <= n THEN n - 1 + 1 ELSE 0
        /\ \A i \in 1..n - 1 + 1 : SubSeq(s, 1, n)[i] = s[1 + i - 1]
    <3> HIDE DEF n
    <3> QED BY <2>1, SubSeqProperties
  <2>3. /\ SubSeq(s, 1, n) \in Seq(S)
        /\ Len(SubSeq(s, 1, n)) = n
        /\ \A i \in 1..n : SubSeq(s, 1, n)[i] = s[i]
    <3> HIDE DEF n
    <3> QED BY <2>1, <2>2
  <2> QED BY <2>3 DEF Front
<1> QED BY <1>1, <1>2, <1>3

-----------------------------------------------------------------------------
\* The invariant holds when loadKokiFiles starts.
LEMMA InitInv == Init => Inv
<1> SUFFICES ASSUME Init PROVE Inv
  OBVIOUS
<1> USE DEF Init
<1>1. TypeOK
  BY FilenamesAssumption DEF TypeOK, Running
<1>2. OwnedOnce /\ Isolated
  BY DEF OwnedOnce, Isolated
<1>3. ParseInv
  BY DEF ParseInv, HeldFree, HeldOrdered
<1>4. EvalInv
  BY DEF EvalInv, Nested, AppliedBy, Depths
<1> QED BY <1>1, <1>2, <1>3, <1>4 DEF Inv

\* What Inv says while files are read, when no module is in evaluation.
LEMMA Quiet ==
  ASSUME Inv, estack = <<>>, estack' = estack, mods' = mods, impEvaluated' = impEvaluated,
         applied' = applied, exports' = exports, params' = params
  PROVE  EvalInv'
<1>1. \A m, i : Child(m, i)' = Child(m, i)
  BY DEF Child
<1> QED BY <1>1 DEF Inv, EvalInv, Nested, AppliedBy, Depths

\* The state the reader of files leaves alone.
ReaderFrame == UNCHANGED <<disk, fileIx, mods, roots, rootIx, evalVars, results>>

\* A call of Parse, made by loadKokiFiles or by parseImport, preserves the
\* invariant: a file that cannot be read, a full stack, or a new frame.
LEMMA CallParseInv ==
  ASSUME Inv, ReaderFrame, estack = <<>>, NEW p \in Path, NEW n \in Name,
         CallParse(p, n, pstack), status \in {"load", "parse"}, fileIx <= Len(Filenames)
  PROVE  Inv'
<1> USE DEF ReaderFrame, evalVars
<1> DEFINE new == [path |-> p, modules |-> <<>>, imports |-> <<>>, as |-> n]
<1>t. TypeOK /\ OwnedOnce /\ Isolated /\ ParseInv
  BY DEF Inv
<1>c. \A m, i : Child(m, i)' = Child(m, i)
  BY DEF Child
<1>new. new \in ParseFrame /\ Held(new) = {}
  BY DEF ParseFrame, Held
<1>1. \/ pstack' = pstack /\ status' \in {"error", "overflow"}
      \/ pstack' = Append(pstack, new) /\ status' = "parse" /\ ReadFromPath(p) # Unreadable
  BY DEF CallParse
<1> HIDE DEF new
<1>2. /\ pstack' \in Seq(ParseFrame)
      /\ \A d \in DOMAIN pstack' :
           (d \in DOMAIN pstack /\ pstack'[d] = pstack[d]) \/ (d > Len(pstack) /\ pstack'[d] = new)
      /\ status' = "parse" => pstack' # <<>>
      /\ Len(pstack) \in Nat /\ DOMAIN pstack = 1..Len(pstack)
  <2>1. pstack \in Seq(ParseFrame)
    BY <1>t DEF TypeOK
  <2>2. CASE pstack' = pstack /\ status' \in {"error", "overflow"}
    BY <2>1, <2>2
  <2>3. CASE pstack' = Append(pstack, new) /\ status' = "parse"
    <3>1. pstack' \in Seq(ParseFrame) /\ pstack' # <<>>
      BY <2>1, <2>3, <1>new
    <3> QED BY <2>1, <2>3, <3>1, Pushing
  <2> QED BY <1>1, <2>2, <2>3
<1>3. TypeOK'
  <2>1. \A d \in DOMAIN estack : FrameOK(estack[d])'
    OBVIOUS
  <2> QED BY <1>t, <1>1, <1>2, <1>c, <2>1 DEF TypeOK, Running, Ended
<1>4. OwnedOnce' /\ Isolated'
  BY <1>t, <1>c DEF OwnedOnce, Isolated
<1>5. ParseInv'
  <2>1. HeldFree'
    BY <1>t, <1>2, <1>new, <1>c DEF ParseInv, HeldFree, Pointed
  <2>2. HeldOrdered'
    BY <1>t, <1>2, <1>new DEF ParseInv, HeldOrdered, new
  <2>3. \A d \in DOMAIN pstack' : disk'[pstack'[d].path] # Unreadable
    BY <1>t, <1>1, <1>2 DEF ParseInv, ReadFromPath, new
  <2> QED BY <1>t, <1>1, <1>2, <2>1, <2>2, <2>3 DEF ParseInv, ReadFromPath
<1>6. EvalInv'
  BY Quiet
<1> QED BY <1>3, <1>4, <1>5, <1>6 DEF Inv

\* loadKokiFiles calls Parse for the next file of the command line.
LEMMA LoadFileInv == Inv /\ LoadFile => Inv'
<1> SUFFICES ASSUME Inv, LoadFile PROVE Inv'
  OBVIOUS
<1>1. pstack = <<>> /\ estack = <<>> /\ status = "load" /\ fileIx <= Len(Filenames)
  BY DEF LoadFile, Inv, ParseInv, EvalInv
<1>2. Filenames[fileIx] \in Path /\ NoName \in Name
  BY FilenamesAssumption, NameAssumption DEF LoadFile, Inv, TypeOK
<1>3. CallParse(Filenames[fileIx], NoName, pstack) /\ ReaderFrame
  BY <1>1 DEF LoadFile, ReaderFrame
<1> QED BY <1>1, <1>2, <1>3, CallParseInv

\* While a file is read: the current call, and the file it reads.
LEMMA Reading ==
  ASSUME Inv, status = "parse"
  PROVE  /\ estack = <<>> /\ pstack \in Seq(ParseFrame) /\ pstack # <<>> /\ Len(pstack) \in DOMAIN pstack
         /\ Caller = pstack[Len(pstack)] /\ Caller \in ParseFrame
         /\ Len(Sections) \in Nat
         /\ \A s \in 1..Len(Sections) : IsSection(Sections[s], Caller.path)
<1>1. pstack \in Seq(ParseFrame) /\ pstack # <<>> /\ estack = <<>>
  BY DEF Inv, TypeOK, ParseInv, EvalInv
<1>2. Caller = pstack[Len(pstack)] /\ Caller \in ParseFrame /\ Len(pstack) \in DOMAIN pstack
  BY <1>1, Popping DEF Caller
<1>3. ReadFromPath(Caller.path) # Unreadable /\ Caller.path \in Path /\ disk \in FileSystems
  BY <1>2 DEF Inv, ParseInv, ParseFrame, TypeOK
<1> QED BY <1>1, <1>2, <1>3, FilesAssumption DEF Sections, ReadFromPath

\* A refusal changes nothing but the status.
LEMMA ParseErrorInv ==
  ASSUME Inv, ReaderFrame, status = "parse", status' \in {"error", "panic"}, UNCHANGED pstack
  PROVE  Inv'
<1> USE DEF ReaderFrame, evalVars
<1>0. estack = <<>> /\ pstack # <<>>
  BY Reading
<1>1. TypeOK'
  BY DEF Inv, TypeOK, Running, Ended, FrameOK, Child
<1>2. OwnedOnce' /\ Isolated'
  BY DEF Inv, OwnedOnce, Isolated, Child
<1>3. ParseInv'
  BY <1>0 DEF Inv, ParseInv, HeldFree, HeldOrdered, Pointed, Child, ReadFromPath
<1>4. EvalInv'
  BY <1>0, Quiet
<1> QED BY <1>1, <1>2, <1>3, <1>4 DEF Inv

\* What an import declaration names is a path and a name.
LEMMA ImportTarget ==
  ASSUME Inv, ParseImport, NEW t \in NextDecl.targets
  PROVE  ResolveImportPath(Caller.path, t.path) \in Path /\ t.name \in Name
<1>0. status = "parse"
  BY DEF ParseImport
<1>1. Caller \in ParseFrame /\ Len(Caller.modules) \in Nat /\ Len(Caller.imports) \in Nat
  BY <1>0, Reading DEF ParseFrame
<1>2. Len(Caller.modules) + 1 \in 1..Len(Sections)
  BY <1>0, <1>1, Reading DEF ParseImport, InSection
<1>3. IsSection(Current, Caller.path)
  BY <1>0, <1>2, Reading DEF Current
<1>4. IsImportDecl(NextDecl, Caller.path)
  BY <1>1, <1>3 DEF ParseImport, NextDecl, IsSection
<1> QED BY <1>4 DEF IsImportDecl

\* parseImport refuses the declaration or calls Parse for the file it names.
LEMMA ParseImportInv == Inv /\ ParseImport => Inv'
<1> SUFFICES ASSUME Inv, ParseImport PROVE Inv'
  OBVIOUS
<1>1. status = "parse" /\ ReaderFrame
  BY DEF ParseImport, ReaderFrame
<1>2. estack = <<>> /\ pstack # <<>> /\ fileIx <= Len(Filenames)
  BY <1>1, Reading DEF Inv, ParseInv
<1>3. CASE status' = "error" /\ UNCHANGED pstack
  BY <1>1, <1>3, ParseErrorInv
<1>4. ASSUME NEW t \in NextDecl.targets,
             CallParse(ResolveImportPath(Caller.path, t.path), t.name, pstack)
      PROVE  Inv'
  <2>1. ResolveImportPath(Caller.path, t.path) \in Path /\ t.name \in Name
    BY ImportTarget
  <2> QED BY <1>1, <1>2, <1>4, <2>1, CallParseInv
<1> QED BY <1>3, <1>4 DEF ParseImport

\* ParseComponent makes a Module of a section: it owns the imports parsed
\* for it, and nothing else points to it yet.
LEMMA ParseComponentInv == Inv /\ ParseComponent => Inv'
<1> SUFFICES ASSUME Inv, ParseComponent PROVE Inv'
  OBVIOUS
<1>0. status = "parse" /\ UNCHANGED <<disk, fileIx, roots, rootIx, evalVars, results>>
  BY DEF ParseComponent
<1>1. CASE status' = "error" /\ UNCHANGED <<pstack, mods>>
  BY <1>0, <1>1, ParseErrorInv DEF ReaderFrame
<1>2. ASSUME NEW names \in ParamNames(Current.params),
             mods' = Append(mods, [path |-> Caller.path, sec |-> Len(Caller.modules) + 1,
                                   imports |-> Caller.imports, names |-> names]),
             pstack' = Append(Front(pstack),
                          [Caller EXCEPT !.modules = Append(@, Len(mods) + 1), !.imports = <<>>]),
             UNCHANGED status
      PROVE  Inv'
  <2> USE <1>0 DEF evalVars
  <2>t. TypeOK /\ OwnedOnce /\ Isolated /\ ParseInv /\ EvalInv
    BY DEF Inv
  <2>m0. mods \in Seq(Module) /\ Len(mods) + 1 \in Nat \ {0}
    BY <2>t DEF TypeOK
  <2>K. PICK K \in Nat \ {0} : K = Len(mods) + 1
    BY <2>m0
  <2> DEFINE M == [path |-> Caller.path, sec |-> Len(Caller.modules) + 1,
                   imports |-> Caller.imports, names |-> names]
             C == [Caller EXCEPT !.modules = Append(@, K), !.imports = <<>>]
             D == Len(pstack)
  <2>r. /\ estack = <<>> /\ pstack \in Seq(ParseFrame) /\ pstack # <<>> /\ D \in DOMAIN pstack
        /\ Caller = pstack[D] /\ Caller \in ParseFrame /\ Len(Sections) \in Nat
        /\ \A s \in 1..Len(Sections) : IsSection(Sections[s], Caller.path)
    BY Reading
  <2>m. mods \in Seq(Module) /\ DOMAIN mods = 1..K - 1
    BY <2>m0, <2>K
  <2>names. names \in Seq(Name)
    <3>1. IsSection(Current, Caller.path)
      BY <2>r DEF ParseComponent, InSection, Current, ParseFrame
    <3> QED BY <3>1 DEF IsSection, ParamNames
  <2>M. M \in Module
    BY <2>r, <2>names DEF Module, ParseFrame
  <2>C. /\ C \in ParseFrame /\ C.imports = <<>> /\ C.path = Caller.path
        /\ DOMAIN C.modules = 1..Len(Caller.modules) + 1
        /\ \A k \in DOMAIN Caller.modules : C.modules[k] = Caller.modules[k]
        /\ C.modules[Len(Caller.modules) + 1] = K
        /\ DOMAIN Caller.modules = 1..Len(Caller.modules)
        /\ Len(Caller.modules) \in Nat
    <3>1. Caller.modules \in Seq(Nat) /\ Append(Caller.modules, K) \in Seq(Nat)
      BY <2>r DEF ParseFrame
    <3>2. C.imports = <<>> /\ C.path = Caller.path /\ C.modules = Append(Caller.modules, K)
      BY <2>r DEF ParseFrame
    <3>3. C \in ParseFrame
      <4>1. <<>> \in Seq(Import)
        OBVIOUS
      <4> QED BY <2>r, <3>1, <4>1 DEF ParseFrame
    <3> QED BY <3>1, <3>2, <3>3, Pushing
  <2> HIDE DEF M, C, D
  <2>1. /\ mods' \in Seq(Module) /\ DOMAIN mods' = 1..K
        /\ \A m \in DOMAIN mods : mods'[m] = mods[m]
        /\ mods'[K] = M
    BY <1>2, <2>K, <2>m, <2>M, Pushing DEF M
  <2>2. /\ pstack' \in Seq(ParseFrame) /\ pstack' # <<>> /\ DOMAIN pstack' = DOMAIN pstack
        /\ \A d \in DOMAIN pstack : d < D => pstack'[d] = pstack[d]
        /\ pstack'[D] = C
        /\ DOMAIN pstack = 1..D /\ D \in Nat
    <3>1. pstack' = Append(Front(pstack), C)
      BY <1>2, <2>K DEF C
    <3>2. Front(pstack) \in Seq(ParseFrame)
      BY <2>r, Popping
    <3>3. pstack' \in Seq(ParseFrame) /\ pstack' # <<>>
      BY <3>1, <3>2, <2>C
    <3>4. /\ DOMAIN pstack' = 1..Len(pstack)
          /\ \A d \in 1..Len(pstack) - 1 : pstack'[d] = pstack[d]
          /\ pstack'[Len(pstack)] = C
      <4>1. /\ Front(pstack) \in Seq(ParseFrame) /\ Len(pstack) \in Nat \ {0}
            /\ Len(Front(pstack)) = Len(pstack) - 1
            /\ \A i \in 1..Len(pstack) - 1 : Front(pstack)[i] = pstack[i]
        BY <2>r, Popping
      <4>2. /\ DOMAIN pstack' = 1..Len(Front(pstack)) + 1
            /\ \A i \in 1..Len(Front(pstack)) : pstack'[i] = Front(pstack)[i]
            /\ pstack'[Len(Front(pstack)) + 1] = C
        BY <3>1, <4>1, Pushing
      <4> QED BY <4>1, <4>2
    <3> QED BY <3>3, <3>4, <2>r DEF D
  <2>imp. M.imports = Caller.imports
    BY DEF M
  <2>3. /\ \A m \in DOMAIN mods : \A i \in DOMAIN mods[m].imports : Child(m, i)' = Child(m, i)
        /\ \A i \in DOMAIN Caller.imports : Child(K, i)' = Caller.imports[i].mod
        /\ mods'[K].imports = Caller.imports
    BY <2>1, <2>imp DEF Child
  <2>4. \A i \in DOMAIN Caller.imports :
          /\ Caller.imports[i].mod \in Held(pstack[D])
          /\ Caller.imports[i].mod \in DOMAIN mods
          /\ Caller.imports[i].mod \notin DOMAIN exports
          /\ ~Pointed(Caller.imports[i].mod)
          /\ \A r \in DOMAIN roots : roots[r] < Caller.imports[i].mod
    BY <2>r, <2>t DEF Held, ParseInv, HeldFree
  <2>5. /\ Held(C) = {Caller.modules[k] : k \in DOMAIN Caller.modules} \cup {K}
        /\ {Caller.modules[k] : k \in DOMAIN Caller.modules} \subseteq Held(pstack[D])
    <3>3. {C.modules[k] : k \in DOMAIN C.modules} = {Caller.modules[k] : k \in DOMAIN Caller.modules} \cup {K}
      BY <2>C
    <3>4. {C.imports[i].mod : i \in DOMAIN C.imports} = {}
      BY <2>C
    <3>5. Held(C) = {Caller.modules[k] : k \in DOMAIN Caller.modules} \cup {K}
      BY <3>3, <3>4 DEF Held
    <3>6. {Caller.modules[k] : k \in DOMAIN Caller.modules} \subseteq Held(pstack[D])
      BY <2>r DEF Held
    <3> QED BY <3>5, <3>6
  <2>6. /\ \A d \in DOMAIN pstack : d < D => \A x \in Held(pstack[d]) : \A i \in DOMAIN Caller.imports :
              x < Caller.imports[i].mod
        /\ \A k \in DOMAIN Caller.modules, i \in DOMAIN Caller.imports : Caller.modules[k] < Caller.imports[i].mod
        /\ \A i, j \in DOMAIN Caller.imports : i < j => Caller.imports[i].mod < Caller.imports[j].mod
    BY <2>r, <2>t, <2>4 DEF ParseInv, HeldOrdered
  <2>7. TypeOK'
    <3>1. roots' \in Seq(DOMAIN mods') /\ results' \in Seq(DOMAIN mods')
      BY <2>t, <2>m, <2>1, SeqMonotone DEF TypeOK
    <3>2. \A m \in DOMAIN mods' : \A i \in DOMAIN mods'[m].imports : Child(m, i)' \in DOMAIN mods'
      <4>1. \A m \in DOMAIN mods : \A i \in DOMAIN mods[m].imports : Child(m, i)' \in DOMAIN mods
        BY <2>t, <2>3 DEF TypeOK
      <4>2. \A i \in DOMAIN Caller.imports : Child(K, i)' \in DOMAIN mods
        BY <2>3, <2>4
      <4> QED BY <4>1, <4>2, <2>1, <2>3, <2>m
    <3>3. estack' \in Seq({estack'[d] : d \in DOMAIN estack'}) /\ \A d \in DOMAIN estack' : FrameOK(estack[d])'
      BY <2>r
    <3>4. DOMAIN params' \subseteq DOMAIN mods' /\ DOMAIN exports' \subseteq DOMAIN mods'
      BY <2>t, <2>m, <2>1 DEF TypeOK
    <3> QED BY <1>2, <2>t, <2>1, <2>2, <3>1, <3>2, <3>3, <3>4 DEF TypeOK
  <2>8. OwnedOnce'
    <3>1. \A m, n \in DOMAIN mods' :
            \A i \in DOMAIN mods'[m].imports, j \in DOMAIN mods'[n].imports :
              Child(m, i)' = Child(n, j)' => m = n /\ i = j
      <4> SUFFICES ASSUME NEW m \in DOMAIN mods', NEW n \in DOMAIN mods',
                          NEW i \in DOMAIN mods'[m].imports, NEW j \in DOMAIN mods'[n].imports,
                          Child(m, i)' = Child(n, j)'
                   PROVE  m = n /\ i = j
        OBVIOUS
      <4>1. CASE m \in DOMAIN mods /\ n \in DOMAIN mods
        BY <4>1, <2>t, <2>1, <2>3 DEF OwnedOnce
      <4>2. CASE m = K /\ n \in DOMAIN mods
        BY <4>2, <2>1, <2>3, <2>4 DEF Pointed
      <4>3. CASE m \in DOMAIN mods /\ n = K
        BY <4>3, <2>1, <2>3, <2>4 DEF Pointed
      <4>4. CASE m = K /\ n = K
        <5>1. i \in DOMAIN Caller.imports /\ j \in DOMAIN Caller.imports
          BY <4>4, <2>3
        <5>2. DOMAIN Caller.imports \subseteq Nat /\ \A k \in DOMAIN Caller.imports : Caller.imports[k].mod \in Nat
          <6>1. Caller.imports \in Seq(Import)
            BY <2>r DEF ParseFrame
          <6>2. \A k \in DOMAIN Caller.imports : k \in Nat /\ Caller.imports[k] \in Import
            BY <6>1
          <6> QED BY <6>2 DEF Import
        <5> QED BY <4>4, <5>1, <5>2, <2>3, <2>6
      <4> QED BY <4>1, <4>2, <4>3, <4>4, <2>1, <2>m
    <3>2. \A m \in DOMAIN mods' : \A i \in DOMAIN mods'[m].imports :
            Child(m, i)' < m /\ \A r \in DOMAIN roots' : Child(m, i)' # roots'[r]
      <4>1. \A m \in DOMAIN mods : \A i \in DOMAIN mods[m].imports :
              Child(m, i)' < m /\ \A r \in DOMAIN roots' : Child(m, i)' # roots'[r]
        BY <2>t, <2>3 DEF OwnedOnce
      <4>2. \A i \in DOMAIN Caller.imports :
              Child(K, i)' < K /\ \A r \in DOMAIN roots' : Child(K, i)' # roots'[r]
        BY <2>3, <2>4, <2>m
      <4> QED BY <4>1, <4>2, <2>1, <2>3, <2>m
    <3> QED BY <3>1, <3>2 DEF OwnedOnce
  <2>9. Isolated' /\ EvalInv'
    <3>1. \A s \in DOMAIN applied : s[1] \in DOMAIN mods /\ s[2] \in DOMAIN mods[s[1]].imports
      BY <2>t DEF EvalInv, AppliedBy
    <3>2. Isolated'
      <4>1. \A s \in impEvaluated : s \in DOMAIN applied /\ Child(s[1], s[2])' = Child(s[1], s[2])
        BY <3>1, <2>t, <2>3 DEF TypeOK
      <4> QED BY <4>1, <2>t DEF Isolated
    <3>3. AppliedBy'
      <4>1. \A s \in DOMAIN applied' :
              /\ s[1] \in DOMAIN mods'
              /\ s[2] \in DOMAIN mods'[s[1]].imports
              /\ s = <<s[1], s[2]>>
              /\ s \in impEvaluated' \/ \E d \in Depths' : estack'[d].applied /\ Slot(estack[d])' = s
        BY <3>1, <2>t, <2>1, <2>m, <2>r DEF EvalInv, AppliedBy, Depths
      <4>2. \A m \in DOMAIN mods' : \A i \in DOMAIN mods'[m].imports :
              Child(m, i)' \in DOMAIN exports' => <<m, i>> \in DOMAIN applied'
        <5>1. \A m \in DOMAIN mods : \A i \in DOMAIN mods[m].imports :
                Child(m, i)' \in DOMAIN exports' => <<m, i>> \in DOMAIN applied'
          BY <2>t, <2>3 DEF EvalInv, AppliedBy
        <5>2. \A i \in DOMAIN Caller.imports : Child(K, i)' \notin DOMAIN exports'
          BY <2>3, <2>4
        <5> QED BY <5>1, <5>2, <2>1, <2>3, <2>m
      <4> QED BY <4>1, <4>2 DEF AppliedBy
    <3>4. EvalInv'
      BY <3>3, <2>r, <2>t DEF EvalInv, Nested, Depths
    <3> QED BY <3>2, <3>4
  <2>10. ParseInv'
    <3>0. \A x : Pointed(x)' => Pointed(x) \/ \E i \in DOMAIN Caller.imports : x = Caller.imports[i].mod
      BY <2>1, <2>3, <2>m DEF Pointed
    <3>1. \A d \in DOMAIN pstack : \A x \in Held(pstack[d]) : x \in DOMAIN mods /\ x \in Nat
      BY <2>t, <2>m DEF ParseInv, HeldFree
    <3>2. \A d \in DOMAIN pstack : d < D => Held(pstack'[d]) = Held(pstack[d])
      BY <2>2
    <3>3. Held(pstack'[D]) = Held(C)
      BY <2>2
    <3>4. HeldFree'
      <4>1. ASSUME NEW d \in DOMAIN pstack, d < D, NEW x \in Held(pstack[d])
            PROVE  /\ x \in DOMAIN mods' /\ x \notin DOMAIN exports' /\ ~Pointed(x)'
                   /\ \A r \in DOMAIN roots' : roots'[r] < x
        BY <4>1, <3>0, <3>1, <2>t, <2>1, <2>m, <2>6 DEF ParseInv, HeldFree
      <4>2. ASSUME NEW x \in {Caller.modules[k] : k \in DOMAIN Caller.modules}
            PROVE  /\ x \in DOMAIN mods' /\ x \notin DOMAIN exports' /\ ~Pointed(x)'
                   /\ \A r \in DOMAIN roots' : roots'[r] < x
        <5>1. x \in Held(pstack[D]) /\ \A i \in DOMAIN Caller.imports : x < Caller.imports[i].mod
          BY <4>2, <2>5, <2>6
        <5>2. x \in DOMAIN mods /\ x \notin DOMAIN exports /\ ~Pointed(x) /\ \A r \in DOMAIN roots : roots[r] < x
          BY <5>1, <2>t, <2>r DEF ParseInv, HeldFree
        <5>3. \A i \in DOMAIN Caller.imports : x # Caller.imports[i].mod
          BY <5>1, <5>2, <2>m
        <5> QED BY <5>2, <5>3, <3>0, <2>1, <2>m
      <4>3. /\ K \in DOMAIN mods' /\ K \notin DOMAIN exports' /\ ~Pointed(K)'
            /\ \A r \in DOMAIN roots' : roots'[r] < K
        <5>1. ~Pointed(K)
          BY <2>t, <2>m DEF Pointed, TypeOK
        <5>2. \A i \in DOMAIN Caller.imports : K # Caller.imports[i].mod
          BY <2>4, <2>m
        <5>3. K \notin DOMAIN exports /\ \A r \in DOMAIN roots : roots[r] < K
          BY <2>t, <2>m DEF TypeOK
        <5> QED BY <5>1, <5>2, <5>3, <3>0, <2>1
      <4>4. \A d \in DOMAIN pstack' : \A x \in Held(pstack'[d]) :
              \/ d \in DOMAIN pstack /\ d < D /\ x \in Held(pstack[d])
              \/ x \in {Caller.modules[k] : k \in DOMAIN Caller.modules}
              \/ x = K
        BY <3>2, <3>3, <2>2, <2>5
      <4> QED BY <4>1, <4>2, <4>3, <4>4 DEF HeldFree
    <3>5. HeldOrdered'
      <4>1. ASSUME NEW d \in DOMAIN pstack', NEW e \in DOMAIN pstack', d < e,
                   NEW x \in Held(pstack'[d]), NEW y \in Held(pstack'[e])
            PROVE  x < y
        <5>1. d < D /\ x \in Held(pstack[d])
          BY <4>1, <2>2, <3>2
        <5>2. CASE e < D
          BY <4>1, <5>1, <5>2, <2>2, <2>t, <3>2 DEF ParseInv, HeldOrdered
        <5>3. CASE e = D /\ y = K
          BY <5>1, <5>3, <3>1, <2>2, <2>m
        <5>4. CASE e = D /\ y # K
          BY <4>1, <5>1, <5>4, <2>2, <2>5, <2>t, <2>r DEF ParseInv, HeldOrdered
        <5> QED BY <5>2, <5>3, <5>4, <2>2
      <4>2. \A d \in DOMAIN pstack' :
              /\ \A k \in DOMAIN pstack'[d].modules, i \in DOMAIN pstack'[d].imports :
                   pstack'[d].modules[k] < pstack'[d].imports[i].mod
              /\ \A i, j \in DOMAIN pstack'[d].imports :
                   i < j => pstack'[d].imports[i].mod < pstack'[d].imports[j].mod
        BY <2>2, <2>C, <2>t DEF ParseInv, HeldOrdered
      <4> QED BY <4>1, <4>2 DEF HeldOrdered
    <3>6. \A d \in DOMAIN pstack' : disk'[pstack'[d].path] # Unreadable
      BY <2>2, <2>C, <2>r, <2>t DEF ParseInv, ReadFromPath
    <3> QED BY <1>2, <2>2, <2>r, <2>t, <3>4, <3>5, <3>6 DEF ParseInv, ReadFromPath
  <2> QED BY <2>7, <2>8, <2>9, <2>10 DEF Inv
<1> QED BY <1>1, <1>2 DEF ParseComponent

\* Parse returns to parseImport: the import owns the first of the modules,
\* which no other import and no other frame holds.
LEMMA ReturnToImportInv == Inv /\ ReturnToImport => Inv'
<1> SUFFICES ASSUME Inv, ReturnToImport PROVE Inv'
  OBVIOUS
<1>0. status = "parse" /\ ReaderFrame /\ Len(pstack) > 1
  BY DEF ReturnToImport, ReaderFrame
<1>1. CASE status' = "panic" /\ UNCHANGED pstack
  BY <1>0, <1>1, ParseErrorInv
<1> DEFINE B == Last(Front(pstack))
           N == [B EXCEPT !.imports = Append(@, Imported)]
           D == Len(pstack)
<1>2. CASE Caller.modules # <<>> /\ pstack' = Append(Front(Front(pstack)), N) /\ UNCHANGED status
  <2> USE <1>0 DEF ReaderFrame, evalVars
  <2>t. TypeOK /\ OwnedOnce /\ Isolated /\ ParseInv /\ EvalInv
    BY DEF Inv
  <2>r. /\ estack = <<>> /\ pstack \in Seq(ParseFrame) /\ pstack # <<>> /\ D \in DOMAIN pstack
        /\ Caller = pstack[D] /\ Caller \in ParseFrame
    BY Reading
  <2>f. /\ Front(pstack) \in Seq(ParseFrame) /\ Len(Front(pstack)) = D - 1 /\ D \in Nat /\ D > 1
        /\ \A d \in 1..D - 1 : Front(pstack)[d] = pstack[d]
        /\ DOMAIN pstack = 1..D
    BY <2>r, Popping
  <2>fn. Front(pstack) # <<>>
    BY <2>f
  <2>B. B = pstack[D - 1] /\ B \in ParseFrame
    BY <2>f, <2>fn, Popping
  <2>I. Imported \in Import /\ Imported.mod = Caller.modules[1] /\ 1 \in DOMAIN Caller.modules
    <3>1. Caller.modules \in Seq(Nat) /\ Caller.as \in Name /\ Caller.path \in Path
      BY <2>r DEF ParseFrame
    <3>2. Caller.modules[1] \in Nat /\ 1 \in DOMAIN Caller.modules
      BY <1>2, <3>1
    <3> QED BY <3>1, <3>2 DEF Imported, Import
  <2>imp. B.imports \in Seq(Import) /\ B.modules \in Seq(Nat)
    BY <2>B DEF ParseFrame
  <2>N. /\ N \in ParseFrame /\ N.path = B.path /\ N.modules = B.modules
        /\ N.imports = Append(B.imports, Imported)
    <3>1. Append(B.imports, Imported) \in Seq(Import)
      BY <2>imp, <2>I
    <3>2. N.path = B.path /\ N.modules = B.modules /\ N.imports = Append(B.imports, Imported)
      BY <2>B DEF ParseFrame
    <3> HIDE DEF B
    <3>3. N \in ParseFrame
      BY <2>B, <3>1 DEF ParseFrame
    <3> QED BY <3>2, <3>3
  <2> HIDE DEF B, N, D
  <2>1. /\ DOMAIN N.imports = 1..Len(B.imports) + 1 /\ Len(B.imports) \in Nat
        /\ DOMAIN B.imports = 1..Len(B.imports)
        /\ \A i \in DOMAIN B.imports : N.imports[i] = B.imports[i]
        /\ N.imports[Len(B.imports) + 1] = Imported
    BY <2>imp, <2>N, Pushing
  <2>2. /\ pstack' \in Seq(ParseFrame) /\ pstack' # <<>> /\ DOMAIN pstack' = 1..D - 1
        /\ \A d \in 1..D - 1 : d < D - 1 => pstack'[d] = pstack[d]
        /\ pstack'[D - 1] = N
    <3>a. /\ Front(Front(pstack)) \in Seq(ParseFrame)
          /\ Len(Front(Front(pstack))) = Len(Front(pstack)) - 1
          /\ \A d \in 1..Len(Front(pstack)) - 1 : Front(Front(pstack))[d] = Front(pstack)[d]
      BY <2>f, <2>fn, Popping
    <3>1. /\ DOMAIN pstack' = 1..Len(Front(Front(pstack))) + 1
          /\ \A d \in 1..Len(Front(Front(pstack))) : pstack'[d] = Front(Front(pstack))[d]
          /\ pstack'[Len(Front(Front(pstack))) + 1] = N
      BY <1>2, <3>a, Pushing
    <3>2. pstack' \in Seq(ParseFrame)
      BY <1>2, <3>a, <2>N
    <3> QED BY <3>a, <3>1, <3>2, <2>f
  <2>c. \A m, i : Child(m, i)' = Child(m, i)
    BY DEF Child
  <2>p. \A x : Pointed(x)' = Pointed(x)
    BY <2>c DEF Pointed
  <2>3. Held(N) = Held(B) \cup {Imported.mod}
    BY <2>1, <2>N DEF Held
  <2>4. Imported.mod \in Held(pstack[D])
    BY <2>I, <2>r DEF Held
  <2>5. /\ \A d \in 1..D - 1 : d < D - 1 => Held(pstack'[d]) = Held(pstack[d])
        /\ Held(pstack'[D - 1]) = Held(pstack[D - 1]) \cup {Imported.mod}
    BY <2>2, <2>3, <2>B
  <2>6. TypeOK'
    <3>1. \A d \in DOMAIN estack' : FrameOK(estack[d])'
      BY <2>r
    <3> QED BY <1>2, <2>t, <2>2, <2>c, <3>1 DEF TypeOK
  <2>7. OwnedOnce' /\ Isolated'
    BY <2>t, <2>c DEF OwnedOnce, Isolated
  <2>8. EvalInv'
    BY <2>r, Quiet
  <2>9. HeldFree'
    <3>1. \A d \in DOMAIN pstack' : \A x \in Held(pstack'[d]) : \E e \in DOMAIN pstack : x \in Held(pstack[e])
      BY <2>2, <2>4, <2>5, <2>f, <2>r
    <3> QED BY <3>1, <2>t, <2>p DEF ParseInv, HeldFree
  <2>10. HeldOrdered'
    <3>1. ASSUME NEW d \in DOMAIN pstack', NEW e \in DOMAIN pstack', d < e,
                 NEW x \in Held(pstack'[d]), NEW y \in Held(pstack'[e])
          PROVE  x < y
      <4>1. d \in DOMAIN pstack /\ e \in DOMAIN pstack /\ d < D - 1 /\ x \in Held(pstack[d])
        BY <3>1, <2>2, <2>5, <2>f
      <4>2. y \in Held(pstack[e]) \/ y \in Held(pstack[D])
        BY <3>1, <2>2, <2>4, <2>5, <2>f
      <4>3. D \in DOMAIN pstack /\ d < D
        BY <4>1, <2>f
      <4> QED BY <3>1, <4>1, <4>2, <4>3, <2>t DEF ParseInv, HeldOrdered
    <3>2. ASSUME NEW d \in DOMAIN pstack'
          PROVE  /\ \A k \in DOMAIN pstack'[d].modules, i \in DOMAIN pstack'[d].imports :
                      pstack'[d].modules[k] < pstack'[d].imports[i].mod
                 /\ \A i, j \in DOMAIN pstack'[d].imports :
                      i < j => pstack'[d].imports[i].mod < pstack'[d].imports[j].mod
      <4>1. CASE d < D - 1
        BY <4>1, <2>2, <2>f, <2>t DEF ParseInv, HeldOrdered
      <4>2. CASE d = D - 1
        <5>1. \A x \in Held(B) : x < Imported.mod
          BY <2>4, <2>f, <2>B, <2>t DEF ParseInv, HeldOrdered
        <5>2. /\ \A k \in DOMAIN B.modules : B.modules[k] < Imported.mod
              /\ \A i \in DOMAIN B.imports : B.imports[i].mod < Imported.mod
          BY <5>1 DEF Held
        <5>3. /\ \A k \in DOMAIN B.modules, i \in DOMAIN B.imports : B.modules[k] < B.imports[i].mod
              /\ \A i, j \in DOMAIN B.imports : i < j => B.imports[i].mod < B.imports[j].mod
          BY <2>f, <2>B, <2>t DEF ParseInv, HeldOrdered
        <5>4. pstack'[d] = N
          BY <4>2, <2>2
        <5> QED BY <5>2, <5>3, <5>4, <2>1, <2>N
      <4> QED BY <4>1, <4>2, <2>2, <2>f
    <3> QED BY <3>1, <3>2 DEF HeldOrdered
  <2>11. ParseInv'
    <3>1. \A d \in DOMAIN pstack' : disk'[pstack'[d].path] # Unreadable
      BY <2>2, <2>N, <2>B, <2>f, <2>t DEF ParseInv, ReadFromPath
    <3> QED BY <1>2, <2>r, <2>t, <2>2, <2>9, <2>10, <3>1 DEF ParseInv, ReadFromPath
  <2> QED BY <2>6, <2>7, <2>8, <2>11 DEF Inv
<1> QED BY <1>1, <1>2 DEF ReturnToImport

\* Parse returns to loadKokiFiles: its modules become the roots.
LEMMA ReturnToLoadInv == Inv /\ ReturnToLoad => Inv'
<1> SUFFICES ASSUME Inv, ReturnToLoad PROVE Inv'
  OBVIOUS
<1> USE DEF evalVars
<1>0. /\ status = "parse" /\ status' = "eval" /\ roots' = Caller.modules /\ rootIx' = 1 /\ pstack' = <<>>
      /\ UNCHANGED <<disk, fileIx, mods, evalVars, results>>
  BY DEF ReturnToLoad
<1>t. TypeOK /\ OwnedOnce /\ Isolated /\ ParseInv /\ EvalInv
  BY DEF Inv
<1>r. /\ estack = <<>> /\ Caller \in ParseFrame
      /\ Len(pstack) \in DOMAIN pstack /\ Caller = pstack[Len(pstack)]
  BY <1>0, Reading
<1>m. Caller.modules \in Seq(Nat)
  BY <1>r DEF ParseFrame
<1>h. \A r \in DOMAIN Caller.modules : Caller.modules[r] \in Held(pstack[Len(pstack)])
  BY <1>r DEF Held
<1>1. \A r \in DOMAIN roots' : roots'[r] \in DOMAIN mods /\ ~Pointed(roots'[r])
  BY <1>0, <1>h, <1>r, <1>t DEF ParseInv, HeldFree
<1>c. \A m, i : Child(m, i)' = Child(m, i)
  BY <1>0 DEF Child
<1>2. TypeOK'
  <2>1. roots' \in Seq(DOMAIN mods)
    BY <1>0, <1>1, <1>m
  <2>2. \A d \in DOMAIN estack' : FrameOK(estack[d])'
    BY <1>0, <1>r
  <2>3. rootIx' \in 1..Len(roots') + 1
    BY <1>0, <1>m
  <2>4. pstack' \in Seq(ParseFrame)
    BY <1>0
  <2> QED BY <1>0, <1>t, <1>c, <2>1, <2>2, <2>3, <2>4 DEF TypeOK, Running
<1>3. OwnedOnce' /\ Isolated'
  <2>1. \A m \in DOMAIN mods : \A i \in DOMAIN mods[m].imports : \A r \in DOMAIN roots' : Child(m, i) # roots'[r]
    BY <1>1 DEF Pointed
  <2> QED BY <1>0, <1>t, <1>c, <2>1 DEF OwnedOnce, Isolated
<1>4. ParseInv'
  BY <1>0, <1>t DEF ParseInv, HeldFree, HeldOrdered
<1>5. EvalInv'
  BY <1>0, <1>r, Quiet
<1> QED BY <1>2, <1>3, <1>4, <1>5 DEF Inv

-----------------------------------------------------------------------------
(***************************************************************************)
(* Evaluation.                                                             *)
(***************************************************************************)
\* The state the evaluator leaves alone.
EvaluatorFrame == UNCHANGED <<disk, fileIx, parseVars, rootIx, results>>

\* What evaluation does not write to keeps the parser's part of the invariant.
LEMMA EvaluatorKeeps ==
  ASSUME Inv, EvaluatorFrame, status = "eval", status' \in {"eval", "error", "panic", "overflow"}
  PROVE  OwnedOnce' /\ ParseInv' /\ pstack = <<>>
<1> USE DEF EvaluatorFrame, parseVars
<1>1. pstack = <<>> /\ pstack' = <<>> /\ fileIx <= Len(Filenames)
  BY DEF Inv, ParseInv
<1>2. OwnedOnce'
  BY DEF Inv, OwnedOnce, Child
<1>3. ParseInv'
  BY <1>1 DEF ParseInv, HeldFree, HeldOrdered
<1> QED BY <1>1, <1>2, <1>3

\* While a module is in evaluation: the innermost call.
LEMMA Busy ==
  ASSUME Inv, estack # <<>>
  PROVE  /\ Len(estack) \in Nat \ {0} /\ DOMAIN estack = 1..Len(estack)
         /\ Top = estack[Len(estack)]
         /\ FrameOK(Top) /\ Filled(Top) /\ Open(Top)
         /\ Top.mod \in Nat /\ mods[Top.mod].imports \in Seq(Import)
<1>1. PICK S : estack \in Seq(S)
  BY DEF Inv, TypeOK
<1>2. Len(estack) \in Nat \ {0} /\ DOMAIN estack = 1..Len(estack) /\ Top = estack[Len(estack)]
  <2>1. Len(estack) \in Nat \ {0} /\ DOMAIN estack = 1..Len(estack)
    BY <1>1
  <2> QED BY <2>1 DEF Top, Last
<1>3. FrameOK(Top) /\ Filled(Top) /\ Open(Top)
  BY <1>2 DEF Inv, TypeOK, EvalInv, Depths
<1>4. mods \in Seq(Module) /\ Top.mod \in DOMAIN mods
  BY <1>3 DEF FrameOK, Inv, TypeOK
<1>5. mods[Top.mod] \in Module /\ Top.mod \in Nat
  BY <1>4
<1> QED BY <1>2, <1>3, <1>5 DEF Module

\* An error, a panic or a full stack during evaluation changes the status only.
LEMMA EvalErrorInv ==
  ASSUME Inv, EvaluatorFrame, status = "eval", status' \in {"error", "panic", "overflow"},
         UNCHANGED <<estack, params, exports, applied, impEvaluated>>
  PROVE  Inv'
<1> USE DEF EvaluatorFrame, parseVars
<1>1. TypeOK'
  BY DEF Inv, TypeOK, FrameOK, Child, Running, Ended
<1>2. Isolated'
  BY DEF Inv, Isolated, Child
<1>3. EvalInv'
  <2>1. ASSUME NEW d \in Depths, d + 1 \in Depths
        PROVE  Pushed(estack[d], estack[d + 1])'
    <3>1. Pushed(estack[d], estack[d + 1])
      BY <2>1 DEF Inv, EvalInv
    <3>2. \A f : Source(f)' = Source(f)
      BY DEF Source, Raw, DeclaredParams, SectionOf
    <3> QED BY <3>1, <3>2 DEF Pushed, FirstNamed, Named, Child
  <2>2. ASSUME NEW d \in Depths
        PROVE  Filled(estack[d])' /\ Open(estack[d])'
    <3>1. Filled(estack[d]) /\ Open(estack[d])
      BY <2>2 DEF Inv, EvalInv
    <3>2. Filled(estack[d])'
      BY <3>1 DEF Filled, FirstNamed, Named
    <3>3. Open(estack[d])'
      BY <3>1 DEF Open, Source, Raw, DeclaredParams, SectionOf, Child, Slot
    <3> QED BY <3>2, <3>3
  <2>3. Nested' /\ AppliedBy'
    BY DEF Inv, EvalInv, Depths, Nested, AppliedBy, Slot, Child
  <2> QED BY <2>1, <2>2, <2>3 DEF Inv, EvalInv, Depths
<1> QED BY <1>1, <1>2, <1>3, EvaluatorKeeps DEF Inv

\* A frame with another env, or with applied set, is otherwise the same.
LEMMA FrameUpdate ==
  ASSUME NEW f, DOMAIN f = {"mod", "imp", "applied", "env"}, NEW v
  PROVE  /\ DOMAIN [f EXCEPT !.env = v] = {"mod", "imp", "applied", "env"}
         /\ [f EXCEPT !.env = v].mod = f.mod /\ [f EXCEPT !.env = v].imp = f.imp
         /\ [f EXCEPT !.env = v].applied = f.applied /\ [f EXCEPT !.env = v].env = v
         /\ DOMAIN [f EXCEPT !.applied = v] = {"mod", "imp", "applied", "env"}
         /\ [f EXCEPT !.applied = v].mod = f.mod /\ [f EXCEPT !.applied = v].imp = f.imp
         /\ [f EXCEPT !.applied = v].env = f.env /\ [f EXCEPT !.applied = v].applied = v
OBVIOUS

\* A stack whose top is replaced.
WithTop(e) == Append(Front(estack), e)

\* Replacing the innermost call leaves the calls below it.
LEMMA TopReplaced ==
  ASSUME Inv, estack # <<>>, NEW e, NEW t, t = WithTop(e)
  PROVE  /\ \E S : t \in Seq(S)
         /\ DOMAIN t = DOMAIN estack
         /\ Len(t) = Len(estack)
         /\ \A d \in DOMAIN estack : d # Len(estack) => t[d] = estack[d]
         /\ t[Len(estack)] = e
<1>0. estack \in Seq({estack[d] : d \in DOMAIN estack})
  BY DEF Inv, TypeOK
<1>1. PICK S : estack \in Seq(S)
  BY <1>0
<1>2. /\ Front(estack) \in Seq(S) /\ Len(estack) \in Nat \ {0}
      /\ Len(Front(estack)) = Len(estack) - 1
      /\ \A i \in 1..Len(estack) - 1 : Front(estack)[i] = estack[i]
      /\ DOMAIN estack = 1..Len(estack)
  <2>1. Len(estack) \in Nat \ {0} /\ DOMAIN estack = 1..Len(estack)
    BY <1>1
  <2>2. /\ Front(estack) \in Seq(S)
        /\ Len(Front(estack)) = Len(estack) - 1
        /\ \A i \in 1..Len(estack) - 1 : Front(estack)[i] = estack[i]
    BY <1>1, Popping
  <2> QED BY <2>1, <2>2
<1>3. /\ t \in Seq(S \cup {e})
      /\ Len(t) = Len(Front(estack)) + 1
      /\ DOMAIN t = 1..Len(Front(estack)) + 1
      /\ \A i \in 1..Len(Front(estack)) : t[i] = Front(estack)[i]
      /\ t[Len(Front(estack)) + 1] = e
  BY <1>2, Pushing DEF WithTop
<1>4. /\ DOMAIN t = 1..Len(estack) /\ Len(t) = Len(estack) /\ t[Len(estack)] = e
      /\ \A i \in 1..Len(estack) - 1 : t[i] = estack[i]
  BY <1>2, <1>3
<1> QED BY <1>2, <1>3, <1>4

\* A call that waits for its module's evaluation is in another module than
\* the innermost call.
LEMMA AppliedBelow ==
  ASSUME Inv, NEW d \in DOMAIN estack, d < Len(estack), estack[d].applied
  PROVE  Top.mod < estack[d].mod
<1>0. estack # <<>>
  OBVIOUS
<1>1. /\ Len(estack) \in Nat \ {0} /\ DOMAIN estack = 1..Len(estack) /\ Top = estack[Len(estack)]
  BY <1>0, Busy
<1>2. d + 1 \in DOMAIN estack /\ Len(estack) \in DOMAIN estack
  BY <1>1
<1>3. Pushed(estack[d], estack[d + 1])
  BY <1>2 DEF Inv, EvalInv, Depths
<1>4. estack[d + 1].imp = 0
  BY <1>3 DEF Pushed
<1>5. estack[d + 1].mod < estack[d].mod
  BY <1>1, <1>2, <1>4 DEF Inv, EvalInv, Nested, Depths
<1>6. \A e \in DOMAIN estack : estack[e].mod \in Nat
  <2>1. \A e \in DOMAIN estack : estack[e].mod \in DOMAIN mods
    BY DEF Inv, TypeOK, FrameOK
  <2>2. mods \in Seq(Module)
    BY DEF Inv, TypeOK
  <2> QED BY <2>1, <2>2
<1>7. estack[Len(estack)].mod <= estack[d + 1].mod
  BY <1>1, <1>2, <1>6 DEF Inv, EvalInv, Nested, Depths
<1> QED BY <1>1, <1>2, <1>5, <1>6, <1>7

\* What only depends on the files and on the modules parsed.
LEMMA Parsed ==
  ASSUME UNCHANGED <<disk, mods>>
  PROVE  /\ \A f : Source(f)' = Source(f)
         /\ \A m, n, i : FirstNamed(m, n, i)' <=> FirstNamed(m, n, i)
         /\ \A m, i : Child(m, i)' = Child(m, i)
<1>1. \A f : Source(f)' = Source(f)
  BY DEF Source, Raw, DeclaredParams, SectionOf
<1>2. \A m, n, i : FirstNamed(m, n, i)' <=> FirstNamed(m, n, i)
  BY DEF FirstNamed, Named
<1>3. \A m, i : Child(m, i)' = Child(m, i)
  BY DEF Child
<1> QED BY <1>1, <1>2, <1>3

\* Calls keep their reason to be there, and what they have filled.
LEMMA Waiting ==
  ASSUME UNCHANGED <<disk, mods>>, NEW f, NEW g, FrameOK(f), Pushed(f, g), params'[f.mod] = params[f.mod]
  PROVE  Pushed(f, g)'
<1>1. CASE g.imp = 0
  BY <1>1, Parsed DEF Pushed
<1>2. CASE g.imp # 0
  <2>1. PICK h \in MapHoles(Source(f)) : h.name \notin DOMAIN params[f.mod] /\ FirstNamed(f.mod, h.name, g.imp)
    BY <1>2 DEF Pushed
  <2>2. /\ h \in MapHoles(Source(f)')
        /\ h.name \notin DOMAIN params'[f.mod]
        /\ FirstNamed(f.mod, h.name, g.imp)'
    BY <2>1, Parsed
  <2>3. ~f.applied /\ g.mod = f.mod
    BY <1>2 DEF Pushed
  <2> QED BY <2>2, <2>3, <1>2 DEF Pushed, MapHoles
<1> QED BY <1>1, <1>2

\* The holes a call has filled stay holes of its template.
LEMMA StillFilled ==
  ASSUME UNCHANGED <<disk, mods>>, NEW f, Filled(f), params'[f.mod] = params[f.mod],
         impEvaluated \subseteq impEvaluated'
  PROVE  Filled(f)'
<1> SUFFICES ASSUME NEW h \in DOMAIN f.env, h.name \notin DOMAIN params'[f.mod]
             PROVE  \E i \in DOMAIN mods'[f.mod].imports :
                      FirstNamed(f.mod, h.name, i)' /\ <<f.mod, i>> \in impEvaluated'
  BY DEF Filled
<1>1. PICK i \in DOMAIN mods[f.mod].imports : FirstNamed(f.mod, h.name, i) /\ <<f.mod, i>> \in impEvaluated
  BY DEF Filled
<1>2. FirstNamed(f.mod, h.name, i)'
  BY <1>1, Parsed
<1> QED BY <1>1, <1>2

\* A hole is filled.
LEMMA FilledInv ==
  ASSUME Inv, EvaluatorFrame, status = "eval", status' = status, estack # <<>>, ~Top.applied,
         UNCHANGED <<params, exports, applied, impEvaluated>>,
         NEW h, NEW val,
         h.name \notin DOMAIN params[Top.mod] =>
           \E i \in DOMAIN mods[Top.mod].imports :
             FirstNamed(Top.mod, h.name, i) /\ <<Top.mod, i>> \in impEvaluated,
         estack' = Append(Front(estack), [Top EXCEPT !.env = Put(@, h, val)])
  PROVE  Inv'
<1> USE DEF EvaluatorFrame, parseVars
<1>u. UNCHANGED <<disk, mods>>
  OBVIOUS
<1>b. /\ Len(estack) \in Nat \ {0} /\ DOMAIN estack = 1..Len(estack) /\ Top = estack[Len(estack)]
      /\ FrameOK(Top) /\ Filled(Top) /\ Open(Top)
  BY Busy
<1>p. PICK g : g = [Top EXCEPT !.env = Put(@, h, val)]
  OBVIOUS
<1>q. PICK D : D = Len(estack)
  OBVIOUS
<1>g. /\ DOMAIN g = {"mod", "imp", "applied", "env"}
      /\ g.mod = Top.mod /\ g.imp = Top.imp /\ g.applied = Top.applied
      /\ DOMAIN g.env = DOMAIN Top.env \cup {h}
  BY <1>b, <1>p, FrameUpdate DEF FrameOK, Put
<1>1. /\ estack' \in Seq({estack'[d] : d \in DOMAIN estack'}) /\ DOMAIN estack' = DOMAIN estack
      /\ \A d \in DOMAIN estack : d # D => estack'[d] = estack[d]
      /\ estack'[D] = g /\ Len(estack') = D
  <2>1. PICK t : t = estack'
    OBVIOUS
  <2>2. t = WithTop(g)
    BY <2>1, <1>p DEF WithTop
  <2>3. /\ \E S : t \in Seq(S)
        /\ DOMAIN t = DOMAIN estack /\ Len(t) = Len(estack)
        /\ \A d \in DOMAIN estack : d # Len(estack) => t[d] = estack[d]
        /\ t[Len(estack)] = g
    BY <2>2, TopReplaced
  <2>4. t \in Seq({t[d] : d \in DOMAIN t})
    BY <2>3, SeqOfElements
  <2> QED BY <2>1, <2>3, <2>4, <1>q
<1>2. \A d \in DOMAIN estack : /\ estack'[d].mod = estack[d].mod
                               /\ estack'[d].imp = estack[d].imp
                               /\ estack'[d].applied = estack[d].applied
  BY <1>1, <1>g, <1>b, <1>q
<1>3. TypeOK'
  <2>1. \A d \in DOMAIN estack' : FrameOK(estack[d])'
    <3>1. \A d \in DOMAIN estack : FrameOK(estack[d])
      BY DEF Inv, TypeOK
    <3> QED BY <3>1, <1>1, <1>2, <1>g DEF FrameOK
  <2> QED BY <1>1, <2>1 DEF Inv, TypeOK, Child
<1>4. Isolated'
  BY DEF Inv, Isolated, Child
<1>5. EvalInv'
  <2>1. ASSUME NEW d \in Depths, d + 1 \in Depths
        PROVE  Pushed(estack[d], estack[d + 1])'
    <3>1. Pushed(estack[d], estack[d + 1]) /\ FrameOK(estack[d])
      BY <2>1 DEF Inv, EvalInv, TypeOK, Depths
    <3>2. PICK x, y : x = estack'[d] /\ y = estack'[d + 1]
      OBVIOUS
    <3>3. Source(x) = Source(estack[d])
      BY <2>1, <3>2, <1>2 DEF Source, Depths
    <3>4. Pushed(x, y)
      BY <2>1, <3>1, <3>2, <3>3, <1>2 DEF Pushed, Depths
    <3>5. FrameOK(x)
      BY <1>3, <3>2, <2>1, <1>1 DEF TypeOK, Depths, FrameOK
    <3>6. Pushed(x, y)'
      BY <3>4, <3>5, <1>u, Waiting
    <3> QED BY <3>2, <3>6
  <2>2. ASSUME NEW d \in Depths
        PROVE  Filled(estack[d])' /\ Open(estack[d])'
    <3>1. Filled(estack[d]) /\ Open(estack[d])
      BY <2>2 DEF Inv, EvalInv
    <3>2. CASE d # D
      <4>0. PICK x : x = estack'[d]
        OBVIOUS
      <4>1. x = estack[d]
        BY <1>1, <2>2, <3>2, <4>0 DEF Depths
      <4>2. Filled(x)'
        BY <3>1, <4>1, <1>u, StillFilled
      <4>3. Open(x)'
        BY <3>1, <4>1 DEF Open, Source, Raw, DeclaredParams, SectionOf, Child, Slot
      <4> QED BY <4>0, <4>2, <4>3
    <3>3. CASE d = D
      <4>1. estack'[d] = g
        BY <1>1, <3>3
      <4>2. Filled(g)
        <5> SUFFICES ASSUME NEW k \in DOMAIN g.env, k.name \notin DOMAIN params[g.mod]
                     PROVE  \E i \in DOMAIN mods[g.mod].imports :
                              FirstNamed(g.mod, k.name, i) /\ <<g.mod, i>> \in impEvaluated
          BY DEF Filled
        <5>1. CASE k = h
          BY <5>1, <1>g
        <5>2. CASE k \in DOMAIN Top.env
          BY <5>2, <1>b, <1>g DEF Filled
        <5> QED BY <5>1, <5>2, <1>g
      <4>3. Filled(g)'
        BY <4>2, <1>u, StillFilled
      <4>4. Open(g)'
        BY <1>b, <1>g DEF Open, Slot
      <4> QED BY <4>1, <4>3, <4>4
    <3> QED BY <3>2, <3>3
  <2>3. Nested'
    <3>1. Nested
      BY DEF Inv, EvalInv
    <3>2. 1 \in DOMAIN estack
      BY <1>b
    <3>3. estack'[1].imp = 0 /\ \E r \in DOMAIN roots' : estack'[1].mod = roots'[r]
      BY <3>1, <3>2, <1>2 DEF Nested
    <3>4. \A d, e \in DOMAIN estack' : d < e =>
            /\ estack'[e].mod <= estack'[d].mod
            /\ estack'[e].imp = 0 => estack'[e].mod < estack'[d].mod
      <4>0. DOMAIN estack' = DOMAIN estack
        BY <1>1
      <4> SUFFICES ASSUME NEW d \in DOMAIN estack, NEW e \in DOMAIN estack, d < e
                   PROVE  /\ estack'[e].mod <= estack'[d].mod
                          /\ estack'[e].imp = 0 => estack'[e].mod < estack'[d].mod
        BY <4>0
      <4>1. /\ estack[e].mod <= estack[d].mod
            /\ estack[e].imp = 0 => estack[e].mod < estack[d].mod
        BY <3>1 DEF Nested, Depths
      <4>2. /\ estack'[d].mod = estack[d].mod
            /\ estack'[e].mod = estack[e].mod /\ estack'[e].imp = estack[e].imp
        BY <1>2
      <4> QED BY <4>1, <4>2
    <3> QED BY <3>3, <3>4 DEF Depths, Nested
  <2>4. AppliedBy'
    <3>1. AppliedBy
      BY DEF Inv, EvalInv
    <3>2. \A s \in DOMAIN applied' : s \in impEvaluated' \/ \E d \in Depths' : estack'[d].applied /\ Slot(estack[d])' = s
      BY <3>1, <1>1, <1>2 DEF AppliedBy, Depths, Slot
    <3> QED BY <3>1, <3>2 DEF AppliedBy, Child
  <2>5. ~Top'.applied
    BY <1>1, <1>g, <1>q DEF Top, Last
  <2> QED BY <2>1, <2>2, <2>3, <2>4, <2>5, <1>1 DEF Inv, EvalInv, Depths
<1> QED BY <1>3, <1>4, <1>5, EvaluatorKeeps DEF Inv

\* A call more, a call less.
WithMore(e) == Append(estack, e)

\* A call is added on top of the open ones.
LEMMA CallAdded ==
  ASSUME Inv, NEW e, NEW t, t = WithMore(e)
  PROVE  /\ \E S : t \in Seq(S)
         /\ Len(estack) \in Nat
         /\ DOMAIN estack = 1..Len(estack)
         /\ DOMAIN t = 1..Len(estack) + 1
         /\ Len(t) = Len(estack) + 1
         /\ \A d \in 1..Len(estack) : t[d] = estack[d]
         /\ t[Len(estack) + 1] = e
<1>0. estack \in Seq({estack[d] : d \in DOMAIN estack})
  BY DEF Inv, TypeOK
<1>1. PICK S : estack \in Seq(S)
  BY <1>0
<1>2. Len(estack) \in Nat /\ DOMAIN estack = 1..Len(estack)
  BY <1>1
<1>3. /\ t \in Seq(S \cup {e})
      /\ Len(t) = Len(estack) + 1
      /\ DOMAIN t = 1..Len(estack) + 1
      /\ \A d \in 1..Len(estack) : t[d] = estack[d]
      /\ t[Len(estack) + 1] = e
  BY <1>1, Pushing DEF WithMore
<1> QED BY <1>2, <1>3

\* The innermost call returns; the ones below it stay.
LEMMA CallRemoved ==
  ASSUME Inv, estack # <<>>, NEW t, t = Front(estack)
  PROVE  /\ \E S : t \in Seq(S)
         /\ Len(t) = Len(estack) - 1
         /\ DOMAIN t = 1..Len(estack) - 1
         /\ \A d \in 1..Len(estack) - 1 : t[d] = estack[d]
<1>0. estack \in Seq({estack[d] : d \in DOMAIN estack})
  BY DEF Inv, TypeOK
<1>1. PICK S : estack \in Seq(S)
  BY <1>0
<1> QED BY <1>1, Popping

\* Until its params are applied, a call works on what the file says.
LEMMA Unapplied ==
  ASSUME Inv, estack # <<>>, ~Top.applied
  PROVE  /\ TemplateOf(Top) = Source(Top)
         /\ ToFill(Top) = MapHoles(Source(Top)) \ DOMAIN Top.env
<1>1. Open(Top)
  BY Busy
<1>2. Top.imp # 0 => <<Top.mod, Top.imp>> \notin DOMAIN applied
  BY <1>1 DEF Open, Slot
<1>3. TemplateOf(Top) = Source(Top)
  BY <1>2 DEF TemplateOf, Source, ImportParams
<1> QED BY <1>3 DEF ToFill

\* EvaluateImport is called for a hole.
LEMMA PushImportInv ==
  ASSUME Inv, EvaluatorFrame, status = "eval", status' = status, estack # <<>>,
         UNCHANGED <<params, exports, applied, impEvaluated>>,
         NEW h \in ToFill(Top), ~IsParam(h), NEW i \in DOMAIN mods[Top.mod].imports,
         FirstNamed(Top.mod, h.name, i), <<Top.mod, i>> \notin impEvaluated,
         estack' = Append(estack, Frame(Top.mod, i))
  PROVE  Inv'
<1> USE DEF EvaluatorFrame, parseVars
<1>u. UNCHANGED <<disk, mods>>
  OBVIOUS
<1>b. /\ Len(estack) \in Nat \ {0} /\ DOMAIN estack = 1..Len(estack) /\ Top = estack[Len(estack)]
      /\ FrameOK(Top) /\ Filled(Top) /\ Open(Top) /\ Top.mod \in Nat
      /\ mods[Top.mod].imports \in Seq(Import)
  BY Busy
<1>a. ~Top.applied
  BY DEF ToFill
<1>p. PICK g : g = Frame(Top.mod, i)
  OBVIOUS
<1>q. PICK D : D = Len(estack)
  OBVIOUS
<1>g. /\ DOMAIN g = {"mod", "imp", "applied", "env"}
      /\ g.mod = Top.mod /\ g.imp = i /\ ~g.applied /\ g.applied \in BOOLEAN /\ DOMAIN g.env = {}
      /\ i # 0 /\ i \in 1..Len(mods[Top.mod].imports)
  BY <1>p, <1>b DEF Frame
<1>1. /\ estack' \in Seq({estack'[d] : d \in DOMAIN estack'}) /\ DOMAIN estack' = 1..D + 1
      /\ \A d \in DOMAIN estack : estack'[d] = estack[d]
      /\ estack'[D + 1] = g /\ Len(estack') = D + 1
  <2>1. PICK t : t = estack'
    OBVIOUS
  <2>2. t = WithMore(g)
    BY <2>1, <1>p DEF WithMore
  <2>3. /\ \E S : t \in Seq(S)
        /\ DOMAIN estack = 1..Len(estack)
        /\ DOMAIN t = 1..Len(estack) + 1 /\ Len(t) = Len(estack) + 1
        /\ \A d \in 1..Len(estack) : t[d] = estack[d]
        /\ t[Len(estack) + 1] = g
    BY <2>2, CallAdded
  <2>4. t \in Seq({t[d] : d \in DOMAIN t})
    BY <2>3, SeqOfElements
  <2> QED BY <2>1, <2>3, <2>4, <1>q
<1>d. DOMAIN estack' = DOMAIN estack \cup {D + 1} /\ D + 1 \notin DOMAIN estack /\ D \in DOMAIN estack
  BY <1>1, <1>b, <1>q
<1>3. TypeOK'
  <2>1. \A d \in DOMAIN estack' : FrameOK(estack[d])'
    <3>1. \A d \in DOMAIN estack : FrameOK(estack[d])
      BY DEF Inv, TypeOK
    <3>2. FrameOK(g)
      BY <1>g, <1>b DEF FrameOK
    <3> QED BY <3>1, <3>2, <1>1, <1>d DEF FrameOK
  <2> QED BY <1>1, <2>1 DEF Inv, TypeOK, Child
<1>4. Isolated'
  BY DEF Inv, Isolated, Child
<1>5. EvalInv'
  <2>1. ASSUME NEW d \in Depths', d + 1 \in Depths'
        PROVE  Pushed(estack[d], estack[d + 1])'
    <3>1. PICK x, y : x = estack'[d] /\ y = estack'[d + 1]
      OBVIOUS
    <3>d. d \in DOMAIN estack /\ x = estack[d]
      BY <2>1, <3>1, <1>1, <1>b, <1>q DEF Depths
    <3>2. Pushed(x, y)
      <4>1. CASE d + 1 \in DOMAIN estack
        <5>1. y = estack[d + 1]
          BY <4>1, <3>1, <1>1
        <5> QED BY <5>1, <4>1, <3>d DEF Inv, EvalInv, Depths
      <4>2. CASE d + 1 = D + 1
        <5>1. x = Top /\ y = g
          BY <4>2, <3>1, <3>d, <1>1, <1>b, <1>q
        <5>2. h \in MapHoles(Source(Top)) /\ h.name \notin DOMAIN params[Top.mod]
          BY Unapplied, <1>a DEF IsParam
        <5> QED BY <5>1, <5>2, <1>a, <1>g DEF Pushed
      <4> QED BY <4>1, <4>2, <2>1, <1>d DEF Depths
    <3>3. FrameOK(x)
      BY <3>d DEF Inv, TypeOK
    <3>6. Pushed(x, y)'
      BY <3>2, <3>3, <1>u, Waiting
    <3> QED BY <3>1, <3>6
  <2>f. Filled(g)
    BY <1>g DEF Filled
  <2>o. Open(g)
    <3>1. Slot(g) \notin impEvaluated
      BY <1>g DEF Slot
    <3>2. Slot(g) \notin DOMAIN applied
      <4>1. SUFFICES ASSUME Slot(g) \in DOMAIN applied PROVE FALSE
        OBVIOUS
      <4>2. PICK d \in DOMAIN estack : estack[d].applied /\ Slot(estack[d]) = Slot(g)
        BY <4>1, <3>1 DEF Inv, EvalInv, AppliedBy, Depths
      <4>3. d < Len(estack)
        BY <4>2, <1>b, <1>a
      <4>4. Top.mod < estack[d].mod
        BY <4>2, <4>3, AppliedBelow
      <4>5. estack[d].mod = Top.mod
        BY <4>2, <1>g DEF Slot
      <4> QED BY <4>4, <4>5, <1>b
    <3> QED BY <3>1, <3>2, <1>g DEF Open
  <2>2. ASSUME NEW d \in Depths'
        PROVE  Filled(estack[d])' /\ Open(estack[d])'
    <3>1. PICK x : x = estack'[d]
      OBVIOUS
    <3>2. Filled(x) /\ Open(x)
      <4>1. CASE d \in DOMAIN estack
        BY <4>1, <3>1, <1>1 DEF Inv, EvalInv, Depths
      <4>2. CASE d = D + 1
        BY <4>2, <3>1, <1>1, <2>f, <2>o
      <4> QED BY <4>1, <4>2, <2>2, <1>d DEF Depths
    <3>3. Filled(x)'
      BY <3>2, <1>u, StillFilled
    <3>4. Open(x)'
      BY <3>2 DEF Open, Source, Raw, DeclaredParams, SectionOf, Child, Slot
    <3> QED BY <3>1, <3>3, <3>4
  <2>3. Nested'
    <3>1. Nested
      BY DEF Inv, EvalInv
    <3>2. 1 \in DOMAIN estack
      BY <1>b
    <3>3. estack'[1].imp = 0 /\ \E r \in DOMAIN roots' : estack'[1].mod = roots'[r]
      BY <3>1, <3>2, <1>1 DEF Nested
    <3>4. ASSUME NEW d \in DOMAIN estack', NEW e \in DOMAIN estack', d < e
          PROVE  /\ estack'[e].mod <= estack'[d].mod
                 /\ estack'[e].imp = 0 => estack'[e].mod < estack'[d].mod
      <4>1. d \in DOMAIN estack
        BY <3>4, <1>1, <1>b, <1>q
      <4>2. CASE e \in DOMAIN estack
        BY <4>1, <4>2, <3>4, <3>1, <1>1 DEF Nested, Depths
      <4>3. CASE e = D + 1
        <5>1. estack'[e] = g /\ estack'[d] = estack[d]
          BY <4>1, <4>3, <1>1
        <5>2. Top.mod <= estack[d].mod
          BY <4>1, <3>1, <1>b DEF Nested, Depths
        <5> QED BY <5>1, <5>2, <1>g
      <4> QED BY <4>2, <4>3, <3>4, <1>d
    <3> QED BY <3>3, <3>4 DEF Depths, Nested
  <2>4. AppliedBy'
    <3>1. AppliedBy
      BY DEF Inv, EvalInv
    <3>2. \A s \in DOMAIN applied' : s \in impEvaluated' \/ \E d \in Depths' : estack'[d].applied /\ Slot(estack[d])' = s
      BY <3>1, <1>1, <1>d DEF AppliedBy, Depths, Slot
    <3> QED BY <3>1, <3>2 DEF AppliedBy, Child
  <2>5. ~Top'.applied
    BY <1>1, <1>g, <1>q DEF Top, Last
  <2> QED BY <2>1, <2>2, <2>3, <2>4, <2>5, <1>1 DEF Inv, EvalInv, Depths
<1> QED BY <1>3, <1>4, <1>5, EvaluatorKeeps DEF Inv

\* Resolving a hole preserves the invariant: from a param, from an import, or
\* not at all.
LEMMA ResolveInv == Inv /\ Resolve => Inv'
<1> SUFFICES ASSUME Inv, Resolve PROVE Inv'
  OBVIOUS
<1>0. /\ status = "eval" /\ estack # <<>>
      /\ EvaluatorFrame
      /\ UNCHANGED <<params, exports, applied, impEvaluated>>
  BY DEF Resolve, EvaluatorFrame, parseVars
<1>1. PICK h \in ToFill(Top) : ResolveParam(h) \/ ResolveImport(h) \/ ResolveUnknown(h)
  BY DEF Resolve
<1>a. ~Top.applied
  BY <1>1 DEF ToFill
<1>2. ASSUME NEW val, FillHole(h, val),
             h.name \notin DOMAIN params[Top.mod] =>
               \E i \in DOMAIN mods[Top.mod].imports :
                 FirstNamed(Top.mod, h.name, i) /\ <<Top.mod, i>> \in impEvaluated
      PROVE  Inv'
  <2>1. CASE status' \in {"panic", "error"} /\ estack' = estack
    BY <2>1, <1>0, EvalErrorInv
  <2>2. CASE status' = status /\ estack' = Append(Front(estack), [Top EXCEPT !.env = Put(@, h, val)])
    BY <2>2, <1>0, <1>a, <1>2, FilledInv
  <2> QED BY <2>1, <2>2, <1>2 DEF FillHole
<1>3. CASE ResolveParam(h)
  BY <1>2, <1>3 DEF ResolveParam, IsParam
<1>4. CASE ResolveImport(h)
  <2>1. PICK i \in DOMAIN mods[Top.mod].imports :
          /\ FirstNamed(Top.mod, h.name, i)
          /\ IF <<Top.mod, i>> \in impEvaluated
             THEN FillHole(h, AtPath(OnlyEntry(exports[Child(Top.mod, i)]), h.path))
             ELSE CallEvaluate(Frame(Top.mod, i), estack)
    BY <1>4 DEF ResolveImport
  <2>2. CASE <<Top.mod, i>> \in impEvaluated
    BY <2>1, <2>2, <1>2
  <2>3. CASE <<Top.mod, i>> \notin impEvaluated
    <3>0. ~IsParam(h)
      BY <1>4 DEF ResolveImport
    <3>1. CASE status' = "overflow" /\ estack' = estack
      BY <3>1, <1>0, EvalErrorInv
    <3>2. CASE status' = status /\ estack' = Append(estack, Frame(Top.mod, i))
      BY <3>0, <3>2, <2>1, <2>3, <1>0, <1>1, PushImportInv
    <3> QED BY <2>1, <2>3, <3>1, <3>2 DEF CallEvaluate
  <2> QED BY <2>2, <2>3
<1>5. CASE ResolveUnknown(h)
  BY <1>5, <1>0, EvalErrorInv DEF ResolveUnknown
<1> QED BY <1>1, <1>3, <1>4, <1>5

\* Calls return: what is left of the stack keeps its reasons and its type.
LEMMA Returning ==
  ASSUME Inv, estack # <<>>, EvaluatorFrame, estack' = Front(estack), params' = params,
         impEvaluated \subseteq impEvaluated'
  PROVE  /\ Len(estack) \in Nat \ {0}
         /\ estack' \in Seq({estack'[d] : d \in DOMAIN estack'})
         /\ DOMAIN estack' = 1..Len(estack) - 1 /\ Len(estack') = Len(estack) - 1
         /\ DOMAIN estack' \subseteq DOMAIN estack
         /\ Len(estack) \in DOMAIN estack /\ Top = estack[Len(estack)]
         /\ \A d \in DOMAIN estack : d = Len(estack) \/ d \in DOMAIN estack'
         /\ \A d \in DOMAIN estack' : estack'[d] = estack[d] /\ FrameOK(estack[d])'
         /\ Nested'
         /\ \A d \in Depths' : d + 1 \in Depths' => Pushed(estack[d], estack[d + 1])'
         /\ \A d \in Depths' : Filled(estack[d])'
<1> USE DEF EvaluatorFrame, parseVars
<1>u. UNCHANGED <<disk, mods>>
  OBVIOUS
<1>b. Len(estack) \in Nat \ {0} /\ DOMAIN estack = 1..Len(estack) /\ Top = estack[Len(estack)]
  BY Busy
<1>1. /\ \E S : estack' \in Seq(S)
      /\ Len(estack') = Len(estack) - 1
      /\ DOMAIN estack' = 1..Len(estack) - 1
      /\ \A d \in 1..Len(estack) - 1 : estack'[d] = estack[d]
  <2>1. PICK t : t = estack'
    OBVIOUS
  <2>2. /\ \E S : t \in Seq(S)
        /\ Len(t) = Len(estack) - 1
        /\ DOMAIN t = 1..Len(estack) - 1
        /\ \A d \in 1..Len(estack) - 1 : t[d] = estack[d]
    BY <2>1, CallRemoved
  <2> QED BY <2>1, <2>2
<1>2. estack' \in Seq({estack'[d] : d \in DOMAIN estack'})
  BY <1>1, SeqOfElements
<1>3. /\ DOMAIN estack' \subseteq DOMAIN estack /\ Len(estack) \in DOMAIN estack
      /\ \A d \in DOMAIN estack : d = Len(estack) \/ d \in DOMAIN estack'
      /\ \A d \in DOMAIN estack' : estack'[d] = estack[d]
  BY <1>1, <1>b
<1>4. \A d \in DOMAIN estack : FrameOK(estack[d]) /\ Filled(estack[d])
  BY DEF Inv, TypeOK, EvalInv, Depths
<1>5. \A d \in DOMAIN estack' : FrameOK(estack[d])'
  BY <1>3, <1>4 DEF FrameOK
<1>6. Nested'
  <2>1. Nested
    BY DEF Inv, EvalInv
  <2>2. \A d, e \in DOMAIN estack' : d < e =>
          /\ estack'[e].mod <= estack'[d].mod
          /\ estack'[e].imp = 0 => estack'[e].mod < estack'[d].mod
    BY <2>1, <1>3 DEF Nested, Depths
  <2>3. ASSUME estack' # <<>>
        PROVE  estack'[1].imp = 0 /\ \E r \in DOMAIN roots' : estack'[1].mod = roots'[r]
    <3>1. 1 \in DOMAIN estack'
      BY <2>3, <1>1, <1>b
    <3> QED BY <3>1, <2>1, <1>3 DEF Nested
  <2> QED BY <2>2, <2>3 DEF Nested, Depths
<1>7. ASSUME NEW d \in Depths', d + 1 \in Depths'
      PROVE  Pushed(estack[d], estack[d + 1])'
  <2>1. PICK x, y : x = estack'[d] /\ y = estack'[d + 1]
    OBVIOUS
  <2>2. Pushed(x, y) /\ FrameOK(x)
    BY <1>7, <2>1, <1>3, <1>4 DEF Inv, EvalInv, Depths
  <2>3. Pushed(x, y)'
    BY <2>2, <1>u, Waiting
  <2> QED BY <2>1, <2>3
<1>8. ASSUME NEW d \in Depths'
      PROVE  Filled(estack[d])'
  <2>1. PICK x : x = estack'[d]
    OBVIOUS
  <2>2. Filled(x)
    BY <1>8, <2>1, <1>3, <1>4 DEF Depths
  <2>3. Filled(x)'
    BY <2>2, <1>u, StillFilled
  <2> QED BY <2>1, <2>3
<1> QED BY <1>b, <1>1, <1>2, <1>3, <1>5, <1>6, <1>7, <1>8

\* EvaluateImport returns and marks the import as evaluated: its module has
\* been evaluated with the params the import keeps.
LEMMA ReturnFromImportInv == Inv /\ ReturnFromImport => Inv'
<1> SUFFICES ASSUME Inv, ReturnFromImport PROVE Inv'
  OBVIOUS
<1>0. /\ status = "eval" /\ status' = status /\ estack # <<>> /\ Top.imp # 0 /\ Top.applied
      /\ impEvaluated' = impEvaluated \cup {Slot(Top)}
      /\ estack' = Front(estack)
      /\ EvaluatorFrame /\ UNCHANGED <<params, exports, applied>>
  BY DEF ReturnFromImport, EvaluatorFrame, parseVars, Slot
<1>u. UNCHANGED <<disk, mods, roots, pstack, results, rootIx, fileIx>>
  BY <1>0 DEF EvaluatorFrame, parseVars
<1>b. /\ DOMAIN estack = 1..Len(estack) /\ FrameOK(Top) /\ Open(Top)
      /\ Top.mod \in Nat /\ mods[Top.mod].imports \in Seq(Import)
  BY <1>0, Busy
<1>1. /\ Len(estack) \in Nat \ {0}
      /\ estack' \in Seq({estack'[d] : d \in DOMAIN estack'})
      /\ DOMAIN estack' = 1..Len(estack) - 1 /\ Len(estack') = Len(estack) - 1
      /\ DOMAIN estack' \subseteq DOMAIN estack
      /\ Len(estack) \in DOMAIN estack /\ Top = estack[Len(estack)]
      /\ \A d \in DOMAIN estack : d = Len(estack) \/ d \in DOMAIN estack'
      /\ \A d \in DOMAIN estack' : estack'[d] = estack[d] /\ FrameOK(estack[d])'
      /\ Nested'
      /\ \A d \in Depths' : d + 1 \in Depths' => Pushed(estack[d], estack[d + 1])'
      /\ \A d \in Depths' : Filled(estack[d])'
  BY <1>0, Returning
<1>t. /\ Slot(Top) \in DOMAIN applied
      /\ Child(Top.mod, Top.imp) \in DOMAIN exports
      /\ params[Child(Top.mod, Top.imp)] = applied[Slot(Top)]
  <2>1. Child(Top.mod, Top.imp) \in DOMAIN exports
    BY <1>0 DEF Inv, EvalInv
  <2> QED BY <2>1, <1>0, <1>b DEF Open
<1>2. TypeOK'
  <2>1. TypeOK
    BY DEF Inv
  <2> QED BY <2>1, <1>0, <1>u, <1>1, <1>t DEF TypeOK, Child
<1>3. Isolated'
  <2>1. Isolated
    BY DEF Inv
  <2>2. Slot(Top)[1] = Top.mod /\ Slot(Top)[2] = Top.imp
    BY DEF Slot
  <2> QED BY <2>1, <2>2, <1>0, <1>t, <1>u, Parsed DEF Isolated
<1>4. ASSUME NEW d \in Depths'
      PROVE  Open(estack[d])'
  <2>1. PICK x : x = estack'[d]
    OBVIOUS
  <2>2. Open(x) /\ x = estack[d] /\ d \in DOMAIN estack /\ d < Len(estack)
    BY <1>4, <2>1, <1>1 DEF Inv, EvalInv, Depths
  <2>3. x.imp # 0 => Slot(x) # Slot(Top)
    <3>1. CASE x.applied
      <4>1. Top.mod < x.mod
        BY <3>1, <2>2, AppliedBelow
      <4> QED BY <4>1, <1>b DEF Slot
    <3>2. CASE ~x.applied
      BY <3>2, <2>2, <1>t DEF Open
    <3> QED BY <3>1, <3>2
  <2>4. x.imp # 0 => Slot(x) \notin impEvaluated'
    BY <2>2, <2>3, <1>0 DEF Open
  <2>5. Slot(x)' = Slot(x) /\ Source(x)' = Source(x) /\ Child(x.mod, x.imp)' = Child(x.mod, x.imp)
    BY <1>u, Parsed DEF Slot
  <2>6. Open(x)'
    BY <2>2, <2>4, <2>5, <1>0 DEF Open, MapHoles
  <2> QED BY <2>1, <2>6
<1>5. AppliedBy'
  <2>1. AppliedBy
    BY DEF Inv, EvalInv
  <2>2. \A s \in DOMAIN applied' : s \in impEvaluated' \/ \E d \in Depths' : estack'[d].applied /\ Slot(estack[d])' = s
    <3> SUFFICES ASSUME NEW s \in DOMAIN applied', s \notin impEvaluated'
                 PROVE  \E d \in Depths' : estack'[d].applied /\ Slot(estack[d])' = s
      OBVIOUS
    <3>1. PICK d \in DOMAIN estack : estack[d].applied /\ Slot(estack[d]) = s
      BY <2>1, <1>0 DEF AppliedBy, Depths
    <3>2. d \in DOMAIN estack'
      BY <3>1, <1>0, <1>1
    <3> QED BY <3>1, <3>2, <1>1 DEF Depths, Slot
  <2> QED BY <2>1, <2>2, <1>0, <1>u, Parsed DEF AppliedBy
<1>6. estack' # <<>> => ~Top'.applied
  <2> SUFFICES ASSUME estack' # <<>> PROVE ~Top'.applied
    OBVIOUS
  <2>1. Len(estack') \in DOMAIN estack' /\ Len(estack') + 1 = Len(estack)
    BY <1>1
  <2>2. Pushed(estack[Len(estack')], Top)
    BY <2>1, <1>1 DEF Inv, EvalInv, Depths
  <2>3. ~estack[Len(estack')].applied
    BY <2>2, <1>0 DEF Pushed
  <2> QED BY <2>1, <2>3, <1>1 DEF Top, Last
<1>7. EvalInv'
  BY <1>0, <1>1, <1>4, <1>5, <1>6 DEF Inv, EvalInv
<1> QED BY <1>0, <1>2, <1>3, <1>7, EvaluatorKeeps DEF Inv

\* EvaluateExport writes the export of a module that had none.
LEMMA EvaluateExportInv == Inv /\ EvaluateExport => Inv' /\ Top.mod \notin DOMAIN exports
<1> SUFFICES ASSUME Inv, EvaluateExport PROVE Inv' /\ Top.mod \notin DOMAIN exports
  OBVIOUS
<1>p. PICK v : exports' = Put(exports, Top.mod, v)
  BY DEF EvaluateExport
<1>0. /\ status = "eval" /\ status' = status /\ estack # <<>> /\ Top.imp = 0
      /\ estack' = Front(estack)
      /\ EvaluatorFrame /\ UNCHANGED <<params, applied, impEvaluated>>
  BY DEF EvaluateExport, EvaluatorFrame, parseVars
<1>e. /\ DOMAIN exports' = DOMAIN exports \cup {Top.mod}
      /\ \A m \in DOMAIN exports : m \in DOMAIN exports'
  BY <1>p DEF Put
<1>u. UNCHANGED <<disk, mods, roots, pstack, results, rootIx, fileIx>>
  BY <1>0 DEF EvaluatorFrame, parseVars
<1>b. /\ DOMAIN estack = 1..Len(estack) /\ FrameOK(Top) /\ Open(Top)
      /\ Top.mod \in Nat /\ mods[Top.mod].imports \in Seq(Import)
  BY <1>0, Busy
<1>1. /\ Len(estack) \in Nat \ {0}
      /\ estack' \in Seq({estack'[d] : d \in DOMAIN estack'})
      /\ DOMAIN estack' = 1..Len(estack) - 1 /\ Len(estack') = Len(estack) - 1
      /\ DOMAIN estack' \subseteq DOMAIN estack
      /\ Len(estack) \in DOMAIN estack /\ Top = estack[Len(estack)]
      /\ \A d \in DOMAIN estack : d = Len(estack) \/ d \in DOMAIN estack'
      /\ \A d \in DOMAIN estack' : estack'[d] = estack[d] /\ FrameOK(estack[d])'
      /\ Nested'
      /\ \A d \in Depths' : d + 1 \in Depths' => Pushed(estack[d], estack[d + 1])'
      /\ \A d \in Depths' : Filled(estack[d])'
  BY <1>0, Returning
<1>t. ~Top.applied /\ Top.mod \notin DOMAIN exports /\ Top.mod \in DOMAIN mods /\ Top.mod \in DOMAIN params
  BY <1>0, <1>b DEF Open, FrameOK
<1>c. estack' # <<>> =>
        /\ Len(estack') \in DOMAIN estack'
        /\ Top' = estack[Len(estack')]
        /\ Top'.applied /\ Top'.imp # 0
        /\ Top.mod = Child(Top'.mod, Top'.imp)
        /\ <<Top'.mod, Top'.imp>> \in DOMAIN applied
        /\ Top'.mod \in DOMAIN mods /\ Top'.imp \in DOMAIN mods[Top'.mod].imports
  <2> SUFFICES ASSUME estack' # <<>>
               PROVE  /\ Len(estack') \in DOMAIN estack'
                      /\ Top' = estack[Len(estack')]
                      /\ Top'.applied /\ Top'.imp # 0
                      /\ Top.mod = Child(Top'.mod, Top'.imp)
                      /\ <<Top'.mod, Top'.imp>> \in DOMAIN applied
                      /\ Top'.mod \in DOMAIN mods /\ Top'.imp \in DOMAIN mods[Top'.mod].imports
    OBVIOUS
  <2>1. Len(estack') \in DOMAIN estack' /\ Len(estack') + 1 = Len(estack)
    BY <1>1
  <2>2. PICK x : x = estack[Len(estack')]
    OBVIOUS
  <2>3. Top' = x
    BY <2>1, <2>2, <1>1 DEF Top, Last
  <2>4. Pushed(x, Top)
    BY <2>1, <2>2, <1>1 DEF Inv, EvalInv, Depths
  <2>5. x.applied /\ x.imp # 0 /\ Top.mod = Child(x.mod, x.imp)
    BY <2>4, <1>0 DEF Pushed
  <2>6. Open(x) /\ FrameOK(x)
    BY <2>1, <2>2, <1>1 DEF Inv, EvalInv, TypeOK, Depths
  <2>7. <<x.mod, x.imp>> \in DOMAIN applied
    BY <2>5, <2>6 DEF Open, Slot
  <2>8. x.mod \in DOMAIN mods /\ x.imp \in DOMAIN mods[x.mod].imports
    <3>1. x.mod \in DOMAIN mods /\ mods \in Seq(Module) /\ x.imp \in 0..Len(mods[x.mod].imports)
      BY <2>6 DEF Inv, TypeOK, FrameOK
    <3>2. mods[x.mod] \in Module
      BY <3>1
    <3>3. mods[x.mod].imports \in Seq(Import)
      BY <3>2 DEF Module
    <3> QED BY <3>1, <3>3, <2>5
  <2> QED BY <2>1, <2>2, <2>3, <2>5, <2>7, <2>8
<1>2. TypeOK'
  <2>1. TypeOK
    BY DEF Inv
  <2> QED BY <2>1, <1>0, <1>u, <1>1, <1>t, <1>e DEF TypeOK, Child
<1>3. Isolated'
  <2>1. Isolated
    BY DEF Inv
  <2> QED BY <2>1, <1>0, <1>e, <1>u, Parsed DEF Isolated
<1>4. ASSUME NEW d \in Depths'
      PROVE  Open(estack[d])'
  <2>1. PICK x : x = estack'[d]
    OBVIOUS
  <2>2. Open(x) /\ x = estack[d] /\ d \in DOMAIN estack /\ d < Len(estack)
    BY <1>4, <2>1, <1>1 DEF Inv, EvalInv, Depths
  <2>3. Top.mod < x.mod
    BY <2>2, <1>0, <1>1 DEF Inv, EvalInv, Nested, Depths
  <2>4. x.imp = 0 => x.mod \notin DOMAIN exports'
    BY <2>2, <2>3, <1>e, <1>b DEF Open
  <2>5. Slot(x)' = Slot(x) /\ Source(x)' = Source(x) /\ Child(x.mod, x.imp)' = Child(x.mod, x.imp)
    BY <1>u, Parsed DEF Slot
  <2>6. Open(x)'
    BY <2>2, <2>4, <2>5, <1>0 DEF Open, MapHoles
  <2> QED BY <2>1, <2>6
<1>5. AppliedBy'
  <2>1. AppliedBy
    BY DEF Inv, EvalInv
  <2>2. \A s \in DOMAIN applied' : s \in impEvaluated' \/ \E d \in Depths' : estack'[d].applied /\ Slot(estack[d])' = s
    <3> SUFFICES ASSUME NEW s \in DOMAIN applied', s \notin impEvaluated'
                 PROVE  \E d \in Depths' : estack'[d].applied /\ Slot(estack[d])' = s
      OBVIOUS
    <3>1. PICK d \in DOMAIN estack : estack[d].applied /\ Slot(estack[d]) = s
      BY <2>1, <1>0 DEF AppliedBy, Depths
    <3>2. d \in DOMAIN estack'
      BY <3>1, <1>t, <1>1
    <3> QED BY <3>1, <3>2, <1>1 DEF Depths, Slot
  <2>3. ASSUME NEW m \in DOMAIN mods, NEW i \in DOMAIN mods[m].imports, Child(m, i) \in DOMAIN exports'
        PROVE  <<m, i>> \in DOMAIN applied
    <3>1. CASE Child(m, i) \in DOMAIN exports
      BY <3>1, <2>1, <2>3 DEF AppliedBy
    <3>2. CASE Child(m, i) = Top.mod
      <4>1. CASE estack' # <<>>
        <5>1. Child(m, i) = Child(Top'.mod, Top'.imp)
          BY <4>1, <3>2, <1>c
        <5>2. PICK n, j : n = Top'.mod /\ j = Top'.imp
          OBVIOUS
        <5>3. m = n /\ i = j
          BY <5>1, <5>2, <4>1, <1>c, <2>3 DEF Inv, OwnedOnce
        <5> QED BY <5>2, <5>3, <4>1, <1>c
      <4>2. CASE estack' = <<>>
        <5>1. Len(estack) = 1
          BY <4>2, <1>1
        <5>2. \E r \in DOMAIN roots : Top.mod = roots[r]
          BY <5>1, <1>0, <1>1 DEF Inv, EvalInv, Nested
        <5> QED BY <5>2, <3>2, <2>3 DEF Inv, OwnedOnce
      <4> QED BY <4>1, <4>2
    <3> QED BY <3>1, <3>2, <2>3, <1>e
  <2> QED BY <2>1, <2>2, <2>3, <1>0, <1>u, Parsed DEF AppliedBy
<1>6. estack' # <<>> => Child(Top.mod, Top.imp)' \in DOMAIN exports'
  BY <1>c, <1>e, <1>u DEF Child
<1>7. EvalInv'
  <2>1. DOMAIN exports' \subseteq DOMAIN params'
    BY <1>0, <1>e, <1>t DEF Inv, EvalInv
  <2> QED BY <2>1, <1>0, <1>1, <1>4, <1>5, <1>6 DEF Inv, EvalInv
<1> QED BY <1>0, <1>t, <1>2, <1>3, <1>7, EvaluatorKeeps DEF Inv

\* Two calls are not about the same import: the inner one would have found
\* the import the outer one waits for evaluated.
LEMMA NoReentry ==
  ASSUME Inv, estack # <<>>, Top.imp # 0, ~Top.applied, ToFill(Top) = {},
         NEW d \in DOMAIN estack, d < Len(estack), estack[d].imp # 0
  PROVE  Slot(estack[d]) # Slot(Top)
<1>b. /\ Len(estack) \in Nat \ {0} /\ DOMAIN estack = 1..Len(estack) /\ Top = estack[Len(estack)]
      /\ FrameOK(Top) /\ Filled(Top) /\ Open(Top)
      /\ Top.mod \in Nat /\ mods[Top.mod].imports \in Seq(Import)
  BY Busy
<1>1. d + 1 \in DOMAIN estack
  BY <1>b
<1>2. PICK f, g : f = estack[d] /\ g = estack[d + 1]
  OBVIOUS
<1>3. Pushed(f, g) /\ Open(f) /\ Open(g)
  BY <1>1, <1>2 DEF Inv, EvalInv, Depths
<1>4. CASE f.applied
  <2>1. Top.mod < f.mod
    BY <1>2, <1>4, AppliedBelow
  <2> QED BY <2>1, <1>b, <1>2 DEF Slot
<1>5. CASE ~f.applied
  <2> SUFFICES ASSUME Slot(f) = Slot(Top) PROVE FALSE
    BY <1>2
  <2>1. f.mod = Top.mod /\ f.imp = Top.imp
    BY DEF Slot
  <2>2. Source(f) = Source(Top)
    BY <2>1 DEF Source
  <2>3. g.imp # 0 /\ g.mod = Top.mod
    BY <1>3, <1>5, <2>1 DEF Pushed
  <2>4. PICK h \in MapHoles(Source(f)) : h.name \notin DOMAIN params[f.mod] /\ FirstNamed(f.mod, h.name, g.imp)
    BY <1>3, <1>5, <2>3 DEF Pushed
  <2>5. h \in DOMAIN Top.env
    BY <2>2, <2>4, Unapplied
  <2>6. PICK i \in DOMAIN mods[Top.mod].imports :
          FirstNamed(Top.mod, h.name, i) /\ <<Top.mod, i>> \in impEvaluated
    BY <2>1, <2>4, <2>5, <1>b DEF Filled
  <2>7. i = g.imp
    <3>1. i \in Nat /\ g.imp \in DOMAIN mods[Top.mod].imports
      BY <2>1, <2>4, <2>6, <1>b DEF FirstNamed, Named
    <3>2. g.imp \in Nat
      BY <3>1, <1>b
    <3>3. i <= g.imp /\ g.imp <= i
      BY <2>1, <2>4, <2>6 DEF FirstNamed
    <3> QED BY <3>1, <3>2, <3>3
  <2>8. Slot(g) \in impEvaluated
    BY <2>3, <2>6, <2>7 DEF Slot
  <2> QED BY <2>3, <2>8, <1>3 DEF Open
<1> QED BY <1>4, <1>5

\* EvaluateImport stores the filled params of an import that had none, and
\* calls EvaluateModule.
LEMMA ApplyParamsInv == Inv /\ ApplyParams => Inv' /\ Slot(Top) \notin DOMAIN applied
<1> SUFFICES ASSUME Inv, ApplyParams PROVE Inv' /\ Slot(Top) \notin DOMAIN applied
  OBVIOUS
<1>m. PICK m : m = Child(Top.mod, Top.imp)
  OBVIOUS
<1>q. PICK D : D = Len(estack)
  OBVIOUS
<1>p. PICK f, g : f = [Top EXCEPT !.applied = TRUE] /\ g = Frame(m, 0)
  OBVIOUS
<1>a. status = "eval" /\ estack # <<>> /\ Top.imp # 0 /\ ~Top.applied /\ ToFill(Top) = {}
  BY DEF ApplyParams
<1>b. /\ D \in Nat \ {0} /\ DOMAIN estack = 1..D /\ Top = estack[D]
      /\ FrameOK(Top) /\ Filled(Top) /\ Open(Top)
      /\ Top.mod \in Nat /\ mods[Top.mod].imports \in Seq(Import)
  BY <1>a, <1>q, Busy
<1>c. /\ Top.mod \in DOMAIN mods /\ Top.imp \in DOMAIN mods[Top.mod].imports
      /\ m \in DOMAIN mods /\ m < Top.mod /\ m \in Nat
  <2>1. Top.mod \in DOMAIN mods /\ Top.imp \in DOMAIN mods[Top.mod].imports
    BY <1>a, <1>b DEF FrameOK
  <2>2. mods \in Seq(Module) /\ m \in DOMAIN mods /\ m < Top.mod
    BY <2>1, <1>m DEF Inv, TypeOK, OwnedOnce
  <2> QED BY <2>1, <2>2
<1>n. Slot(Top) \notin DOMAIN applied /\ m \notin DOMAIN exports
  <2>1. Slot(Top) \notin DOMAIN applied
    BY <1>a, <1>b DEF Open
  <2> QED BY <2>1, <1>c, <1>m DEF Inv, EvalInv, AppliedBy, Slot
<1>h. MapHoles(Source(Top)) \subseteq DOMAIN Top.env
  BY <1>a, Unapplied
<1>0. /\ EvaluatorFrame /\ UNCHANGED <<exports, impEvaluated>>
      /\ \E args : applied' = Put(applied, Slot(Top), args) /\ params' = Put(params, m, args)
      /\ CallEvaluate(g, WithTop(f))
  BY <1>m, <1>n, <1>p DEF ApplyParams, SaveParams, EvaluatorFrame, parseVars, Slot, WithTop
<1>u. UNCHANGED <<disk, mods, roots, pstack, results, rootIx, fileIx>>
  BY <1>0 DEF EvaluatorFrame, parseVars
<1>e. /\ DOMAIN applied' = DOMAIN applied \cup {Slot(Top)}
      /\ DOMAIN params' = DOMAIN params \cup {m}
      /\ applied'[Slot(Top)] = params'[m]
      /\ \A s \in DOMAIN applied : applied'[s] = applied[s]
      /\ \A x \in DOMAIN params : x # m => params'[x] = params[x]
  BY <1>0, <1>n DEF Put
<1>f. /\ DOMAIN f = {"mod", "imp", "applied", "env"}
      /\ f.mod = Top.mod /\ f.imp = Top.imp /\ f.applied = TRUE /\ f.env = Top.env
  BY <1>b, <1>p, FrameUpdate DEF FrameOK
<1>g. /\ DOMAIN g = {"mod", "imp", "applied", "env"}
      /\ g.mod = m /\ g.imp = 0 /\ g.applied = FALSE /\ DOMAIN g.env = {}
  BY <1>p DEF Frame
\* The stack: the top call with its params applied, and unless there is no
\* room for it the call of EvaluateExport.
<1>w. PICK w : w = WithTop(f)
  OBVIOUS
<1>v. /\ \E S : w \in Seq(S)
      /\ DOMAIN w = DOMAIN estack /\ Len(w) = D
      /\ \A d \in DOMAIN estack : d # D => w[d] = estack[d]
      /\ w[D] = f
  BY <1>a, <1>w, <1>q, TopReplaced
<1>1. /\ estack' \in Seq({estack'[d] : d \in DOMAIN estack'})
      /\ DOMAIN estack \subseteq DOMAIN estack'
      /\ \A d \in DOMAIN estack : d # D => estack'[d] = estack[d]
      /\ estack'[D] = f
      /\ \A d \in DOMAIN estack' : d \in DOMAIN estack \/ (d = D + 1 /\ estack'[d] = g)
      /\ status' = "overflow" \/ (status' = "eval" /\ Len(estack') = D + 1 /\ estack'[D + 1] = g)
  <2>1. CASE status' = "overflow" /\ estack' = w
    <3>1. estack' \in Seq({estack'[d] : d \in DOMAIN estack'})
      BY <2>1, <1>v, SeqOfElements
    <3> QED BY <2>1, <3>1, <1>v
  <2>2. CASE status' = "eval" /\ estack' = Append(w, g)
    <3>1. PICK S : w \in Seq(S)
      BY <1>v
    <3>2. /\ Append(w, g) \in Seq(S \cup {g})
          /\ Len(Append(w, g)) = Len(w) + 1
          /\ DOMAIN Append(w, g) = 1..Len(w) + 1
          /\ \A i \in 1..Len(w) : Append(w, g)[i] = w[i]
          /\ Append(w, g)[Len(w) + 1] = g
      BY <3>1, Pushing
    <3>3. /\ estack' \in Seq(S \cup {g})
          /\ Len(estack') = D + 1
          /\ DOMAIN estack' = 1..D + 1
          /\ \A i \in 1..D : estack'[i] = w[i]
          /\ estack'[D + 1] = g
      BY <2>2, <3>2, <1>v
    <3>4. estack' \in Seq({estack'[d] : d \in DOMAIN estack'})
      BY <3>3, SeqOfElements
    <3> QED BY <2>2, <3>3, <3>4, <1>v, <1>b
  <2> QED BY <2>1, <2>2, <1>0, <1>a, <1>w DEF CallEvaluate
<1>d. D \in DOMAIN estack /\ \A d \in DOMAIN estack : d <= D
  BY <1>b
<1>x. \A d \in DOMAIN estack' : d \in 1..D \/ d = D + 1
  BY <1>b, <1>1
<1>k. \A d \in DOMAIN estack : estack[d].mod \in Nat /\ Top.mod <= estack[d].mod /\ estack[d].mod # m
  <2> SUFFICES ASSUME NEW d \in DOMAIN estack
               PROVE  estack[d].mod \in Nat /\ Top.mod <= estack[d].mod /\ estack[d].mod # m
    OBVIOUS
  <2>1. estack[d].mod \in DOMAIN mods /\ mods \in Seq(Module)
    BY DEF Inv, TypeOK, FrameOK
  <2>2. estack[d].mod \in Nat
    BY <2>1
  <2>3. d < D => Top.mod <= estack[d].mod
    BY <1>b, <1>d DEF Inv, EvalInv, Nested, Depths
  <2> QED BY <2>2, <2>3, <1>b, <1>c, <1>d
<1>2. TypeOK'
  <2>t. TypeOK
    BY DEF Inv
  <2>1. \A d \in DOMAIN estack' : FrameOK(estack[d])'
    <3>1. \A d \in DOMAIN estack : FrameOK(estack[d])
      BY <2>t DEF TypeOK
    <3>2. \A d \in DOMAIN estack : d # D => FrameOK(estack[d])'
      BY <3>1, <1>1, <1>u, <1>e DEF FrameOK
    <3>3. FrameOK(estack[D])'
      BY <1>1, <1>b, <1>f, <1>u, <1>e DEF FrameOK
    <3>4. \A d \in DOMAIN estack' : estack'[d] = g => FrameOK(estack[d])'
      <4>1. mods \in Seq(Module) /\ mods[m] \in Module
        BY <2>t, <1>c DEF TypeOK
      <4>2. Len(mods[m].imports) \in Nat
        BY <4>1 DEF Module
      <4>3. g.imp \in 0..Len(mods'[g.mod].imports) /\ g.mod \in DOMAIN params' /\ g.mod \in DOMAIN mods'
        BY <4>2, <1>g, <1>c, <1>u, <1>e
      <4>4. g.applied \in BOOLEAN /\ DOMAIN g = {"mod", "imp", "applied", "env"}
        BY <1>g
      <4> QED BY <4>3, <4>4 DEF FrameOK
    <3> QED BY <3>2, <3>3, <3>4, <1>1
  <2> QED BY <2>t, <2>1, <1>1, <1>0, <1>u, <1>e, <1>c DEF TypeOK, Child, Running, Ended
<1>3. Isolated'
  <2>1. ASSUME NEW s \in impEvaluated
        PROVE  Child(s[1], s[2]) \in DOMAIN exports /\ params'[Child(s[1], s[2])] = applied'[s]
    <3>1. Child(s[1], s[2]) \in DOMAIN exports /\ params[Child(s[1], s[2])] = applied[s] /\ s \in DOMAIN applied
      BY <2>1 DEF Inv, Isolated, TypeOK
    <3>2. Child(s[1], s[2]) \in DOMAIN params /\ Child(s[1], s[2]) # m
      BY <3>1, <1>n DEF Inv, EvalInv
    <3> QED BY <3>1, <3>2, <1>e
  <2> QED BY <2>1, <1>0, <1>u, Parsed DEF Isolated
<1>4. ASSUME NEW d \in DOMAIN estack
      PROVE  params'[estack[d].mod] = params[estack[d].mod]
  <2>1. estack[d].mod \in DOMAIN params
    BY <1>4 DEF Inv, TypeOK, FrameOK
  <2> QED BY <2>1, <1>4, <1>k, <1>e
<1>5. ASSUME NEW d \in Depths', d + 1 \in Depths'
      PROVE  Pushed(estack[d], estack[d + 1])'
  <2>1. PICK x, y : x = estack'[d] /\ y = estack'[d + 1]
    OBVIOUS
  <2>2. d \in DOMAIN estack
    <3>1. (d \in 1..D \/ d = D + 1) /\ (d + 1 \in 1..D \/ d + 1 = D + 1)
      BY <1>5, <1>x DEF Depths
    <3> QED BY <3>1, <1>b
  <2>3. Pushed(x, y) /\ FrameOK(x) /\ x.mod = estack[d].mod
    <3>1. CASE d + 1 \in DOMAIN estack
      <4>0. d # D /\ FrameOK(estack[d]) /\ x = estack[d]
        <5>1. d # D
          BY <3>1, <1>b
        <5> QED BY <5>1, <2>1, <2>2, <1>1 DEF Inv, TypeOK
      <4>1. Pushed(x, estack[d + 1])
        BY <3>1, <2>2, <4>0 DEF Inv, EvalInv, Depths
      <4>2. y.mod = estack[d + 1].mod /\ y.imp = estack[d + 1].imp
        BY <3>1, <2>1, <1>1, <1>f, <1>b
      <4>3. Pushed(x, y)
        BY <4>1, <4>2 DEF Pushed
      <4> QED BY <4>0, <4>3
    <3>2. CASE d = D
      <4>1. x = f /\ y = g
        BY <3>2, <2>1, <1>5, <1>1, <1>b DEF Depths
      <4>2. Pushed(f, g)
        BY <1>f, <1>g, <1>a, <1>m DEF Pushed
      <4>3. FrameOK(f)
        BY <1>b, <1>f DEF FrameOK
      <4> QED BY <4>1, <4>2, <4>3, <3>2, <1>f, <1>b
    <3> QED BY <3>1, <3>2, <2>2, <1>b
  <2>4. params'[x.mod] = params[x.mod]
    BY <2>2, <2>3, <1>4
  <2>5. Pushed(x, y)'
    BY <2>3, <2>4, <1>u, Waiting
  <2> QED BY <2>1, <2>5
<1>6. ASSUME NEW d \in Depths'
      PROVE  Filled(estack[d])' /\ Open(estack[d])'
  <2>1. PICK x : x = estack'[d]
    OBVIOUS
  <2>5. Slot(x)' = Slot(x) /\ Source(x)' = Source(x) /\ Child(x.mod, x.imp)' = Child(x.mod, x.imp)
    BY <1>u, Parsed DEF Slot
  <2>2. CASE d \in DOMAIN estack /\ d # D
    <3>1. x = estack[d] /\ Filled(x) /\ Open(x) /\ d < Len(estack)
      BY <2>1, <2>2, <1>1, <1>d, <1>b, <1>q DEF Inv, EvalInv, Depths
    <3>2. params'[x.mod] = params[x.mod]
      BY <2>2, <3>1, <1>4
    <3>3. Filled(x)'
      BY <3>1, <3>2, <1>u, <1>0, StillFilled
    <3>4. x.imp # 0 => Slot(x) # Slot(Top)
      BY <2>2, <3>1, <1>a, NoReentry
    <3>5. x.applied => Child(x.mod, x.imp) # m
      <4> SUFFICES ASSUME x.applied, Child(x.mod, x.imp) = m PROVE FALSE
        OBVIOUS
      <4>1. x.imp # 0 /\ FrameOK(x)
        BY <3>1, <2>2 DEF Open, Inv, TypeOK
      <4>2. x.mod \in DOMAIN mods /\ x.imp \in DOMAIN mods[x.mod].imports
        <5>1. x.mod \in DOMAIN mods /\ mods \in Seq(Module) /\ x.imp \in 0..Len(mods[x.mod].imports)
          BY <4>1 DEF Inv, TypeOK, FrameOK
        <5>2. mods[x.mod] \in Module
          BY <5>1
        <5>3. mods[x.mod].imports \in Seq(Import)
          BY <5>2 DEF Module
        <5> QED BY <5>1, <5>3, <4>1
      <4>3. x.mod = Top.mod /\ x.imp = Top.imp
        BY <4>2, <1>c, <1>m DEF Inv, OwnedOnce
      <4> QED BY <4>1, <4>3, <3>4 DEF Slot
    <3>6. x.applied => /\ MapHoles(Source(x)) \subseteq DOMAIN x.env
                       /\ Slot(x) \in DOMAIN applied'
                       /\ Child(x.mod, x.imp) \in DOMAIN params'
                       /\ params'[Child(x.mod, x.imp)] = applied'[Slot(x)]
      BY <3>1, <3>5, <1>e DEF Open
    <3>7. /\ x.imp = 0 => ~x.applied /\ x.mod \notin DOMAIN exports'
          /\ x.imp # 0 => Slot(x) \notin impEvaluated'
          /\ x.imp # 0 /\ ~x.applied => Slot(x) \notin DOMAIN applied'
      BY <3>1, <3>4, <1>0, <1>e DEF Open
    <3>8. Open(x)'
      BY <3>6, <3>7, <2>5 DEF Open, MapHoles
    <3> QED BY <2>1, <3>3, <3>8
  <2>3. CASE d = D
    <3>1. x = f
      BY <2>1, <2>3, <1>1
    <3>2. params'[x.mod] = params[x.mod]
      BY <3>1, <1>4, <1>d, <1>f, <1>b
    <3>3. Filled(x)
      BY <3>1, <1>b, <1>f DEF Filled
    <3>4. Filled(x)'
      BY <3>2, <3>3, <1>u, <1>0, StillFilled
    <3>5. Slot(x) = Slot(Top) /\ Source(x) = Source(Top) /\ Child(x.mod, x.imp) = m
      BY <3>1, <1>f, <1>m DEF Slot, Source
    <3>6. Slot(x) \notin impEvaluated'
      BY <3>5, <1>0, <1>a, <1>b DEF Open
    <3>7. Open(x)'
      BY <3>1, <3>5, <3>6, <2>5, <1>a, <1>e, <1>f, <1>h DEF Open, MapHoles
    <3> QED BY <2>1, <3>4, <3>7
  <2>4. CASE d = D + 1 /\ estack'[d] = g
    <3>1. x = g
      BY <2>1, <2>4
    <3>2. Filled(x)'
      BY <3>1, <1>g DEF Filled
    <3>3. Open(x)'
      BY <3>1, <1>g, <1>n, <1>0 DEF Open
    <3> QED BY <2>1, <3>2, <3>3
  <2> QED BY <2>2, <2>3, <2>4, <1>6, <1>1 DEF Depths
<1>7. Nested'
  <2>1. Nested
    BY DEF Inv, EvalInv
  <2>2. \A d \in DOMAIN estack : estack'[d].mod = estack[d].mod /\ estack'[d].imp = estack[d].imp
    BY <1>1, <1>f, <1>b
  <2>3. 1 \in DOMAIN estack
    BY <1>b
  <2>4. estack'[1].imp = 0 /\ \E r \in DOMAIN roots' : estack'[1].mod = roots'[r]
    BY <2>1, <2>2, <2>3, <1>a, <1>u DEF Nested
  <2>5. ASSUME NEW d \in DOMAIN estack', NEW e \in DOMAIN estack', d < e
        PROVE  /\ estack'[e].mod <= estack'[d].mod
               /\ estack'[e].imp = 0 => estack'[e].mod < estack'[d].mod
    <3>1. d \in DOMAIN estack
      <4>1. (d \in 1..D \/ d = D + 1) /\ (e \in 1..D \/ e = D + 1)
        BY <2>5, <1>x
      <4> QED BY <4>1, <2>5, <1>b
    <3>2. CASE e \in DOMAIN estack
      BY <3>1, <3>2, <2>1, <2>2, <2>5 DEF Nested, Depths
    <3>3. CASE estack'[e] = g
      <4>1. Top.mod <= estack[d].mod /\ estack[d].mod \in Nat
        BY <3>1, <1>k
      <4> QED BY <3>1, <3>3, <4>1, <2>2, <1>g, <1>c, <1>b
    <3> QED BY <3>2, <3>3, <2>5, <1>1
  <2> QED BY <2>4, <2>5 DEF Depths, Nested
<1>8. AppliedBy'
  <2>1. AppliedBy
    BY DEF Inv, EvalInv
  <2>2. ASSUME NEW s \in DOMAIN applied', s \notin impEvaluated'
        PROVE  \E d \in Depths' : estack'[d].applied /\ Slot(estack[d])' = s
    <3>1. CASE s = Slot(Top)
      BY <3>1, <1>1, <1>d, <1>f DEF Depths, Slot
    <3>2. CASE s \in DOMAIN applied
      <4>1. PICK d \in DOMAIN estack : estack[d].applied /\ Slot(estack[d]) = s
        BY <3>2, <2>1, <2>2, <1>0 DEF AppliedBy, Depths
      <4>2. d # D
        BY <4>1, <1>a, <1>b
      <4> QED BY <4>1, <4>2, <1>1 DEF Depths, Slot
    <3> QED BY <3>1, <3>2, <2>2, <1>e
  <2>3. ASSUME NEW s \in DOMAIN applied'
        PROVE  s[1] \in DOMAIN mods' /\ s[2] \in DOMAIN mods'[s[1]].imports /\ s = <<s[1], s[2]>>
    <3>1. CASE s = Slot(Top)
      BY <3>1, <1>c, <1>u DEF Slot
    <3>2. CASE s \in DOMAIN applied
      BY <3>2, <2>1, <1>u DEF AppliedBy
    <3> QED BY <3>1, <3>2, <2>3, <1>e
  <2>4. \A n \in DOMAIN mods' : \A i \in DOMAIN mods'[n].imports :
          Child(n, i)' \in DOMAIN exports' => <<n, i>> \in DOMAIN applied'
    BY <2>1, <1>0, <1>u, <1>e, Parsed DEF AppliedBy
  <2> QED BY <2>2, <2>3, <2>4 DEF AppliedBy
<1>9. status' = "eval" => ~Top'.applied
  BY <1>1, <1>g DEF Top, Last
<1>10. EvalInv'
  <2>1. DOMAIN exports' \subseteq DOMAIN params'
    BY <1>0, <1>e DEF Inv, EvalInv
  <2>2. status' \notin {"load", "parse", "done"}
    BY <1>1
  <2> QED BY <2>1, <2>2, <1>5, <1>6, <1>7, <1>8, <1>9 DEF EvalInv
<1>11. OwnedOnce' /\ ParseInv'
  BY <1>0, <1>1, <1>a, EvaluatorKeeps
<1> QED BY <1>n, <1>2, <1>3, <1>10, <1>11 DEF Inv

\* loadKokiFiles calls EvaluateModule for a root, with its defaults.
LEMMA EvaluateRootInv == Inv /\ EvaluateRoot => Inv'
<1> SUFFICES ASSUME Inv, EvaluateRoot PROVE Inv'
  OBVIOUS
<1>r. PICK m : m = roots[rootIx]
  OBVIOUS
<1>p. PICK g : g = Frame(m, 0)
  OBVIOUS
<1>t. TypeOK /\ OwnedOnce /\ Isolated /\ ParseInv /\ EvalInv
  BY DEF Inv
<1>0. /\ status = "eval" /\ estack = <<>> /\ rootIx <= Len(roots) /\ m \notin DOMAIN exports
      /\ EvaluatorFrame /\ UNCHANGED <<exports, applied, impEvaluated>>
      /\ \E args : params' = Put(params, m, args)
      /\ CallEvaluate(g, estack)
  BY <1>r, <1>p DEF EvaluateRoot, EvaluatorFrame, parseVars
<1>u. UNCHANGED <<disk, mods, roots, pstack, results, rootIx, fileIx>>
  BY <1>0 DEF EvaluatorFrame, parseVars
<1>e. /\ DOMAIN params' = DOMAIN params \cup {m}
      /\ \A x \in DOMAIN params : x # m => params'[x] = params[x]
  BY <1>0 DEF Put
<1>g. /\ DOMAIN g = {"mod", "imp", "applied", "env"}
      /\ g.mod = m /\ g.imp = 0 /\ g.applied = FALSE /\ DOMAIN g.env = {}
  BY <1>p DEF Frame
<1>1. /\ status' = "eval" /\ estack' = <<g>> /\ DOMAIN estack' = {1}
      /\ estack'[1] = g /\ estack' # <<>> /\ Top' = g
      /\ estack' \in Seq({estack'[d] : d \in DOMAIN estack'})
  <2>1. Len(estack) = 0 /\ ~(Len(estack) >= MaxDepth)
    BY <1>0, DepthAssumption
  <2>2. status' = "eval" /\ estack' = <<g>>
    BY <2>1, <1>0 DEF CallEvaluate
  <2> QED BY <2>2 DEF Top, Last
<1>m. m \in DOMAIN mods /\ \E r \in DOMAIN roots : m = roots[r]
  <2>1. roots \in Seq(DOMAIN mods) /\ rootIx \in DOMAIN roots
    BY <1>t, <1>0 DEF TypeOK
  <2> QED BY <2>1, <1>r
<1>2. TypeOK'
  <2>1. FrameOK(g)'
    <3>1. mods \in Seq(Module) /\ mods[m] \in Module
      BY <1>t, <1>m DEF TypeOK
    <3>2. Len(mods[m].imports) \in Nat
      BY <3>1 DEF Module
    <3>3. g.imp \in 0..Len(mods'[g.mod].imports) /\ g.mod \in DOMAIN params' /\ g.mod \in DOMAIN mods'
      BY <3>2, <1>g, <1>m, <1>u, <1>e
    <3>4. g.applied \in BOOLEAN /\ DOMAIN g = {"mod", "imp", "applied", "env"}
      BY <1>g
    <3> QED BY <3>3, <3>4 DEF FrameOK
  <2>2. \A d \in DOMAIN estack' : FrameOK(estack[d])'
    BY <2>1, <1>1
  <2> QED BY <1>t, <2>2, <1>1, <1>0, <1>u, <1>e, <1>m DEF TypeOK, Child, Running
<1>3. Isolated'
  <2>1. ASSUME NEW s \in impEvaluated
        PROVE  Child(s[1], s[2]) \in DOMAIN exports /\ params'[Child(s[1], s[2])] = applied'[s]
    <3>1. Child(s[1], s[2]) \in DOMAIN exports /\ params[Child(s[1], s[2])] = applied[s]
      BY <2>1, <1>t DEF Isolated
    <3>2. Child(s[1], s[2]) \in DOMAIN params /\ Child(s[1], s[2]) # m
      BY <3>1, <1>0, <1>t DEF EvalInv
    <3> QED BY <3>1, <3>2, <1>0, <1>e
  <2> QED BY <2>1, <1>0, <1>u, Parsed DEF Isolated
<1>4. EvalInv'
  <2>1. Filled(g)' /\ Open(g)'
    BY <1>g, <1>0 DEF Filled, Open
  <2>2. \A d \in Depths' : Filled(estack[d])' /\ Open(estack[d])'
    BY <2>1, <1>1 DEF Depths
  <2>3. \A d \in Depths' : d + 1 \notin Depths'
    BY <1>1 DEF Depths
  <2>4. Nested'
    BY <1>1, <1>g, <1>m, <1>u DEF Nested, Depths
  <2>5. AppliedBy'
    <3>1. \A s \in DOMAIN applied : s \in impEvaluated
      BY <1>0, <1>t DEF EvalInv, AppliedBy, Depths
    <3> QED BY <3>1, <1>0, <1>t, <1>u, Parsed DEF EvalInv, AppliedBy
  <2>6. DOMAIN exports' \subseteq DOMAIN params'
    BY <1>0, <1>e, <1>t DEF EvalInv
  <2> QED BY <2>2, <2>3, <2>4, <2>5, <2>6, <1>1, <1>g DEF EvalInv
<1>5. OwnedOnce' /\ ParseInv'
  BY <1>0, <1>1, EvaluatorKeeps
<1> QED BY <1>2, <1>3, <1>4, <1>5 DEF Inv

\* loadKokiFiles collects an evaluated root, or refuses it.
LEMMA CollectRootInv == Inv /\ CollectRoot => Inv'
<1> SUFFICES ASSUME Inv, CollectRoot PROVE Inv'
  OBVIOUS
<1>t. TypeOK /\ OwnedOnce /\ Isolated /\ ParseInv /\ EvalInv
  BY DEF Inv
<1>0. /\ status = "eval" /\ estack = <<>> /\ rootIx <= Len(roots)
      /\ UNCHANGED <<disk, fileIx, pstack, mods, roots, estack, params, exports, applied, impEvaluated>>
      /\ \/ results' = Append(results, roots[rootIx]) /\ rootIx' = rootIx + 1 /\ status' = status
         \/ status' = "error" /\ results' = results /\ rootIx' = rootIx
  BY DEF CollectRoot, parseVars, evalVars
<1>1. TypeOK'
  <2>1. roots[rootIx] \in DOMAIN mods /\ rootIx + 1 \in 1..Len(roots) + 1
    BY <1>0, <1>t DEF TypeOK
  <2>2. results' \in Seq(DOMAIN mods)
    <3>1. results \in Seq(DOMAIN mods)
      BY <1>t DEF TypeOK
    <3>2. PICK m : m = roots[rootIx]
      OBVIOUS
    <3>3. Append(results, m) \in Seq(DOMAIN mods)
      BY <3>1, <3>2, <2>1
    <3> QED BY <3>1, <3>2, <3>3, <1>0
  <2>3. rootIx' \in 1..Len(roots) + 1
    BY <2>1, <1>0, <1>t DEF TypeOK
  <2>4. \A d \in DOMAIN estack' : FrameOK(estack[d])'
    BY <1>0
  <2> QED BY <2>2, <2>3, <2>4, <1>0, <1>t DEF TypeOK, Child, Running, Ended
<1>2. OwnedOnce' /\ Isolated'
  BY <1>0, <1>t DEF OwnedOnce, Isolated, Child
<1>3. ParseInv'
  <2>1. pstack = <<>>
    BY <1>0, <1>t DEF ParseInv
  <2> QED BY <2>1, <1>0, <1>t DEF ParseInv, HeldFree, HeldOrdered
<1>4. EvalInv'
  BY <1>0, Quiet
<1> QED BY <1>1, <1>2, <1>3, <1>4 DEF Inv

\* loadKokiFiles goes on to the next file, or ends.
LEMMA LoopInv == Inv /\ (NextFile \/ Finish) => Inv'
<1> SUFFICES ASSUME Inv, NextFile \/ Finish PROVE Inv'
  OBVIOUS
<1>t. TypeOK /\ OwnedOnce /\ Isolated /\ ParseInv /\ EvalInv
  BY DEF Inv
<1>0. /\ UNCHANGED <<disk, pstack, mods, roots, rootIx, estack, params, exports, applied, impEvaluated, results>>
      /\ estack = <<>> /\ pstack = <<>>
      /\ \/ status = "eval" /\ status' = "load" /\ fileIx' = fileIx + 1
         \/ status' = "done" /\ fileIx' = fileIx
  BY <1>t DEF NextFile, Finish, parseVars, evalVars, ParseInv, EvalInv
<1>1. TypeOK'
  <2>1. fileIx' \in 1..Len(Filenames) + 1
    BY <1>0, <1>t, FilenamesAssumption DEF TypeOK, ParseInv
  <2>2. \A d \in DOMAIN estack' : FrameOK(estack[d])'
    BY <1>0
  <2> QED BY <2>1, <2>2, <1>0, <1>t DEF TypeOK, Child, Running, Ended
<1>2. OwnedOnce' /\ Isolated'
  BY <1>0, <1>t DEF OwnedOnce, Isolated, Child
<1>3. ParseInv'
  BY <1>0 DEF ParseInv, HeldFree, HeldOrdered
<1>4. EvalInv'
  BY <1>0, Quiet
<1> QED BY <1>1, <1>2, <1>3, <1>4 DEF Inv

\* A stuttering step preserves the invariant.
LEMMA StutterInv == Inv /\ UNCHANGED vars => Inv'
<1> SUFFICES ASSUME Inv, UNCHANGED vars PROVE Inv'
  OBVIOUS
<1> USE DEF vars, parseVars, evalVars
<1>1. TypeOK' /\ OwnedOnce' /\ Isolated'
  BY DEF Inv, TypeOK, FrameOK, OwnedOnce, Isolated, Child
<1>2. ParseInv'
  BY DEF Inv, ParseInv, HeldFree, HeldOrdered, ReadFromPath, Pointed, Child
<1>3. EvalInv'
  <2>1. ASSUME NEW d \in Depths', d + 1 \in Depths'
        PROVE  Pushed(estack[d], estack[d + 1])'
    <3>1. PICK x, y : x = estack'[d] /\ y = estack'[d + 1]
      OBVIOUS
    <3>2. Pushed(x, y) /\ FrameOK(x)
      BY <2>1, <3>1 DEF Inv, EvalInv, TypeOK, Depths
    <3>3. Pushed(x, y)'
      BY <3>2, Waiting
    <3> QED BY <3>1, <3>3
  <2>2. ASSUME NEW d \in Depths'
        PROVE  Filled(estack[d])' /\ Open(estack[d])'
    <3>1. PICK x : x = estack'[d]
      OBVIOUS
    <3>2. Filled(x) /\ Open(x)
      BY <2>2, <3>1 DEF Inv, EvalInv, Depths
    <3>3. Filled(x)'
      BY <3>2, StillFilled
    <3>4. Open(x)'
      BY <3>2 DEF Open, Source, Raw, DeclaredParams, SectionOf, Child, Slot
    <3> QED BY <3>1, <3>3, <3>4
  <2>3. Nested' /\ AppliedBy'
    BY DEF Inv, EvalInv, Depths, Nested, AppliedBy, Slot, Child
  <2> QED BY <2>1, <2>2, <2>3 DEF Inv, EvalInv, Top, Child
<1> QED BY <1>1, <1>2, <1>3 DEF Inv

\* Every step preserves the invariant.
LEMMA NextInv == Inv /\ [Next]_vars => Inv'
<1> SUFFICES ASSUME Inv, [Next]_vars PROVE Inv'
  OBVIOUS
<1>1. CASE LoadFile
  BY <1>1, LoadFileInv
<1>2. CASE Parsing
  BY <1>2, ParseImportInv, ParseComponentInv, ReturnToImportInv, ReturnToLoadInv DEF Parsing
<1>3. CASE Evaluating
  BY <1>3, EvaluateRootInv, ResolveInv, ApplyParamsInv, EvaluateExportInv, ReturnFromImportInv,
     CollectRootInv DEF Evaluating
<1>4. CASE NextFile \/ Finish
  BY <1>4, LoopInv
<1>5. CASE UNCHANGED vars
  BY <1>5, StutterInv
<1> QED BY <1>1, <1>2, <1>3, <1>4, <1>5 DEF Next

\* Inv is an invariant of the module system.
THEOREM Invariance == Spec => []Inv
BY InitInv, NextInv, PTL DEF Spec

-----------------------------------------------------------------------------
\* Every pointer of the parser and of the evaluator leads to a module that
\* has been parsed, whatever the files contain and however they import each
\* other.
THEOREM TypeCorrect == Spec => []TypeOK
<1>1. Inv => TypeOK
  BY DEF Inv
<1> QED BY <1>1, Invariance, PTL

\* No Module is shared by two imports, or by an import and the command line.
THEOREM ModulesAreOwnedOnce == Spec => []OwnedOnce
<1>1. Inv => OwnedOnce
  BY DEF Inv
<1> QED BY <1>1, Invariance, PTL

\* An evaluated import refers to a module evaluated with its own params.
THEOREM ImportsAreIsolated == Spec => []Isolated
<1>1. Inv => Isolated
  BY DEF Inv
<1> QED BY <1>1, Invariance, PTL

\* Exports and applied params are written once.
THEOREM EvaluationIsFinal == Spec => EvaluatedIsFinal
<1> DEFINE Kept == /\ \A m \in DOMAIN exports : m \in DOMAIN exports' /\ exports'[m] = exports[m]
                   /\ \A s \in DOMAIN applied : s \in DOMAIN applied' /\ applied'[s] = applied[s]
<1>1. Inv /\ [Next]_vars => [Kept]_vars
  <2> SUFFICES ASSUME Inv, Next PROVE Kept
    OBVIOUS
  <2>1. CASE UNCHANGED <<exports, applied>>
    BY <2>1
  <2>2. CASE EvaluateExport
    BY <2>2, EvaluateExportInv DEF EvaluateExport, Put
  <2>3. CASE ApplyParams
    <3>1. Slot(Top) \notin DOMAIN applied
      BY <2>3, ApplyParamsInv
    <3>2. \E v : applied' = Put(applied, Slot(Top), v)
      BY <2>3 DEF ApplyParams, SaveParams, Slot
    <3>3. exports' = exports
      BY <2>3 DEF ApplyParams
    <3> QED BY <3>1, <3>2, <3>3 DEF Put
  <2>4. Parsing => UNCHANGED <<exports, applied>>
    BY DEF Parsing, ParseImport, ParseComponent, ReturnToImport, ReturnToLoad, evalVars
  <2>5. LoadFile \/ NextFile \/ Finish => UNCHANGED <<exports, applied>>
    BY DEF LoadFile, NextFile, Finish, evalVars
  <2>6. EvaluateRoot \/ Resolve \/ ReturnFromImport \/ CollectRoot => UNCHANGED <<exports, applied>>
    BY DEF EvaluateRoot, Resolve, ReturnFromImport, CollectRoot, evalVars
  <2> QED BY <2>1, <2>2, <2>3, <2>4, <2>5, <2>6 DEF Next, Evaluating
<1> HIDE DEF Kept
<1>2. Spec => [][Kept]_vars
  BY <1>1, Invariance, PTL DEF Spec
<1> QED BY <1>2 DEF EvaluatedIsFinal, Kept

-----------------------------------------------------------------------------
(***************************************************************************)
(* Running out of stack.  A call of the evaluator is known by the section  *)
(* of its module and the number of the import, or 0: two calls on a stack  *)
(* that is deeper than there are sections and imports in the files are     *)
(* alike, and what they have in common is a cycle.                         *)
(***************************************************************************)
CallSites(fs) ==
  {c \in Path \X Nat \X Nat :
     /\ fs[c[1]] # Unreadable
     /\ c[2] \in 1..Len(fs[c[1]])
     /\ c[3] \in 0..Len(fs[c[1]][c[2]].imports)}

\* The stack has room for more calls than the files have sections and
\* imports.
DeepStack ==
  /\ IsFiniteSet(Path) /\ Cardinality(Path) < MaxDepth
  /\ \A fs \in FileSystems : IsFiniteSet(CallSites(fs)) /\ Cardinality(CallSites(fs)) < MaxDepth

SiteOf(f) == <<mods[f.mod].path, mods[f.mod].sec, f.imp>>

\* A module is made of a section, with all of its imports.
MadeOfSections ==
  \A m \in DOMAIN mods :
    /\ disk[mods[m].path] # Unreadable
    /\ mods[m].sec \in 1..Len(disk[mods[m].path])
    /\ Len(mods[m].imports) = Len(disk[mods[m].path][mods[m].sec].imports)

StackFull == status = "overflow" => Len(pstack) >= MaxDepth \/ Len(estack) >= MaxDepth

DepthInv == MadeOfSections /\ StackFull

\* A step that makes no module and calls nothing.
LEMMA DepthKept ==
  ASSUME DepthInv, UNCHANGED <<disk, mods>>, status' # "overflow"
  PROVE  DepthInv'
BY DEF DepthInv, MadeOfSections, StackFull

\* A call of Parse overflows a full stack.
LEMMA CallParseDepth ==
  ASSUME DepthInv, UNCHANGED <<disk, mods>>, NEW p, NEW name, NEW stack, CallParse(p, name, stack)
  PROVE  DepthInv'
<1>1. CASE status' # "overflow"
  BY <1>1, DepthKept
<1>2. CASE status' = "overflow"
  <2>1. Len(pstack') >= MaxDepth
    BY <1>2 DEF CallParse
  <2> QED
    BY <2>1 DEF DepthInv, MadeOfSections, StackFull
<1> QED
  BY <1>1, <1>2

\* A call of the evaluator overflows a full stack.
LEMMA CallEvaluateDepth ==
  ASSUME DepthInv, status = "eval", UNCHANGED <<disk, mods>>, NEW f, NEW stack, CallEvaluate(f, stack)
  PROVE  DepthInv'
<1>1. CASE status' # "overflow"
  BY <1>1, DepthKept
<1>2. CASE status' = "overflow"
  <2>1. Len(estack') >= MaxDepth
    BY <1>2 DEF CallEvaluate
  <2> QED
    BY <2>1 DEF DepthInv, MadeOfSections, StackFull
<1> QED
  BY <1>1, <1>2

\* The module ParseComponent makes has all imports of its section.
LEMMA ParseComponentDepth == Inv /\ DepthInv /\ ParseComponent => DepthInv'
<1> SUFFICES ASSUME Inv, DepthInv, ParseComponent PROVE DepthInv'
  OBVIOUS
<1>0. status = "parse" /\ status' \in {"parse", "error"} /\ disk' = disk
  BY DEF ParseComponent
<1>1. CASE UNCHANGED mods
  BY <1>0, <1>1, DepthKept
<1>2. ASSUME NEW M, mods' = Append(mods, M), M.path = Caller.path, M.sec = Len(Caller.modules) + 1,
             M.imports = Caller.imports
      PROVE  DepthInv'
  <2>1. /\ Caller \in ParseFrame /\ Len(pstack) \in DOMAIN pstack /\ Caller = pstack[Len(pstack)]
        /\ Len(Sections) \in Nat
    BY <1>0, Reading
  <2>2. disk[Caller.path] # Unreadable /\ Len(Caller.modules) \in Nat
    BY <2>1 DEF Inv, ParseInv, ReadFromPath, ParseFrame
  <2>3. /\ M.sec \in 1..Len(disk[M.path]) /\ disk[M.path] # Unreadable
        /\ Len(M.imports) = Len(disk[M.path][M.sec].imports)
    BY <1>2, <2>1, <2>2 DEF ParseComponent, InSection, Current, Sections, ReadFromPath
  <2>4. /\ mods \in Seq(Module) /\ DOMAIN mods = 1..Len(mods) /\ Len(mods) \in Nat
    BY DEF Inv, TypeOK
  <2>5. /\ DOMAIN mods' = 1..Len(mods) + 1
        /\ \A m \in 1..Len(mods) : mods'[m] = mods[m]
        /\ mods'[Len(mods) + 1] = M
    BY <1>2, <2>4, Pushing
  <2>6. ASSUME NEW m \in DOMAIN mods'
        PROVE  /\ disk[mods'[m].path] # Unreadable
               /\ mods'[m].sec \in 1..Len(disk[mods'[m].path])
               /\ Len(mods'[m].imports) = Len(disk[mods'[m].path][mods'[m].sec].imports)
    <3>1. CASE m = Len(mods) + 1
      BY <3>1, <2>3, <2>5
    <3>2. CASE m \in DOMAIN mods
      BY <3>2, <2>4, <2>5 DEF DepthInv, MadeOfSections
    <3> QED
      BY <3>1, <3>2, <2>4, <2>5
  <2>7. MadeOfSections'
    BY <2>6, <1>0 DEF MadeOfSections
  <2> QED
    BY <2>7, <1>0 DEF DepthInv, StackFull
<1>3. ASSUME NEW names,
             mods' = Append(mods, [path |-> Caller.path, sec |-> Len(Caller.modules) + 1,
                                   imports |-> Caller.imports, names |-> names])
      PROVE  DepthInv'
  <2> DEFINE M == [path |-> Caller.path, sec |-> Len(Caller.modules) + 1,
                   imports |-> Caller.imports, names |-> names]
  <2>1. M.path = Caller.path /\ M.sec = Len(Caller.modules) + 1 /\ M.imports = Caller.imports
    OBVIOUS
  <2>2. mods' = Append(mods, M)
    BY <1>3
  <2> HIDE DEF M
  <2> QED
    BY <1>2, <2>1, <2>2
<1> QED
  BY <1>1, <1>3 DEF ParseComponent

\* Every step preserves DepthInv.
LEMMA NextDepth == Inv /\ DepthInv /\ [Next]_vars => DepthInv'
<1> SUFFICES ASSUME Inv, DepthInv, [Next]_vars PROVE DepthInv'
  OBVIOUS
<1> USE DEF parseVars, evalVars
<1>1. CASE LoadFile
  BY <1>1, CallParseDepth DEF LoadFile
<1>2. CASE ParseImport
  BY <1>2, CallParseDepth, DepthKept DEF ParseImport
<1>3. CASE ParseComponent
  BY <1>3, ParseComponentDepth
<1>4. CASE ReturnToImport \/ ReturnToLoad
  BY <1>4, DepthKept DEF ReturnToImport, ReturnToLoad
<1>5. CASE EvaluateRoot \/ ApplyParams
  BY <1>5, CallEvaluateDepth, DepthKept DEF EvaluateRoot, ApplyParams
<1>6. CASE Resolve
  <2>1. PICK h : ResolveParam(h) \/ ResolveImport(h) \/ ResolveUnknown(h)
    BY <1>6 DEF Resolve
  <2>0. status = "eval" /\ UNCHANGED <<disk, mods>>
    BY <1>6 DEF Resolve
  <2>2. ASSUME NEW x, FillHole(h, x)
        PROVE  status' # "overflow"
    BY <2>0, <2>2 DEF FillHole
  <2>3. ASSUME NEW x, CallEvaluate(x, estack)
        PROVE  DepthInv'
    BY <2>0, <2>3, CallEvaluateDepth
  <2>4. status' # "overflow" \/ DepthInv'
    BY <2>1, <2>2, <2>3 DEF ResolveParam, ResolveImport, ResolveUnknown
  <2> QED
    BY <2>0, <2>4, DepthKept
<1>7. CASE EvaluateExport \/ ReturnFromImport \/ CollectRoot
  BY <1>7, DepthKept DEF EvaluateExport, ReturnFromImport, CollectRoot
<1>8. CASE NextFile \/ Finish
  BY <1>8, DepthKept DEF NextFile, Finish
<1>9. CASE UNCHANGED vars
  BY <1>9 DEF vars, DepthInv, MadeOfSections, StackFull
<1> QED
  BY <1>1, <1>2, <1>3, <1>4, <1>5, <1>6, <1>7, <1>8, <1>9 DEF Next, Parsing, Evaluating

\* DepthInv is an invariant of the module system.
THEOREM DepthInvariance == Spec => []DepthInv
<1>1. Init => DepthInv
  BY DEF Init, DepthInv, MadeOfSections, StackFull
<1> QED
  BY <1>1, Invariance, NextDepth, PTL DEF Spec

\* More calls than there are places to call from: two of them are alike.
LEMMA TwoAlike ==
  ASSUME NEW n \in Nat, NEW T, IsFiniteSet(T), Cardinality(T) < n, NEW f \in [1..n -> T]
  PROVE  \E d, e \in 1..n : d < e /\ f[d] = f[e]
<1>1. IsFiniteSet(1..n) /\ Cardinality(1..n) = IF 1 > n THEN 0 ELSE n - 1 + 1
  BY FS_Interval
<1>2. Cardinality(T) \in Nat
  BY FS_CardinalityType
<1>3. Cardinality(T) < Cardinality(1..n)
  BY <1>1, <1>2
<1>4. PICK x, y \in 1..n : x # y /\ f[x] = f[y]
  BY <1>1, <1>3, FS_PigeonHole
<1>5. x < y \/ y < x
  BY <1>4
<1> QED
  BY <1>4, <1>5

\* A full stack of calls of Parse has a file in it twice.
LEMMA ParseOverflow ==
  ASSUME Inv, DeepStack, Len(pstack) >= MaxDepth
  PROVE  ImportCycle
<1>1. pstack \in Seq(ParseFrame) /\ Len(pstack) \in Nat /\ DOMAIN pstack = 1..Len(pstack)
  BY DEF Inv, TypeOK
<1>2. IsFiniteSet(Path) /\ Cardinality(Path) \in Nat /\ Cardinality(Path) < MaxDepth
  BY FS_CardinalityType DEF DeepStack
<1>3. Cardinality(Path) < Len(pstack)
  BY <1>1, <1>2, DepthAssumption
<1> DEFINE f == [d \in 1..Len(pstack) |-> pstack[d].path]
<1>4. f \in [1..Len(pstack) -> Path]
  <2>1. ASSUME NEW d \in 1..Len(pstack)
        PROVE  pstack[d].path \in Path
    <3>1. pstack[d] \in ParseFrame
      BY <1>1
    <3> QED
      BY <3>1 DEF ParseFrame
  <2> QED
    BY <2>1
<1>5. PICK d, e \in 1..Len(pstack) : d < e /\ f[d] = f[e]
  <2> HIDE DEF f
  <2> QED
    BY <1>1, <1>2, <1>3, <1>4, TwoAlike
<1> QED
  BY <1>1, <1>5 DEF ImportCycle

\* Every call of the evaluator is made from a section or an import.
LEMMA SiteIsCallSite ==
  ASSUME Inv, DepthInv, NEW d \in DOMAIN estack
  PROVE  SiteOf(estack[d]) \in CallSites(disk)
<1>1. PICK f : f = estack[d]
  OBVIOUS
<1>2. FrameOK(f) /\ mods \in Seq(Module)
  BY <1>1 DEF Inv, TypeOK
<1>3. PICK m : m = mods[f.mod]
  OBVIOUS
<1>4. m \in Module
  BY <1>2, <1>3 DEF FrameOK
<1>5. m.path \in Path /\ m.sec \in Nat /\ Len(m.imports) \in Nat
  BY <1>4 DEF Module
<1>6. /\ disk[m.path] # Unreadable
      /\ m.sec \in 1..Len(disk[m.path])
      /\ Len(m.imports) = Len(disk[m.path][m.sec].imports)
      /\ f.imp \in 0..Len(m.imports)
  BY <1>2, <1>3 DEF FrameOK, DepthInv, MadeOfSections
<1>7. f.imp \in Nat
  BY <1>5, <1>6
<1>8. <<m.path, m.sec, f.imp>> \in CallSites(disk)
  BY <1>5, <1>6, <1>7 DEF CallSites
<1> QED
  BY <1>1, <1>3, <1>8 DEF SiteOf

\* The same import of the same module twice on the stack: the imports
\* between the two calls need each other.
LEMMA SameImportTwice ==
  ASSUME Inv, NEW d \in DOMAIN estack, NEW e \in DOMAIN estack, d < e,
         estack[d].mod = estack[e].mod, estack[d].imp = estack[e].imp
  PROVE  ParamCycle
<1>1. Len(estack) \in Nat /\ DOMAIN estack = 1..Len(estack) /\ d \in Nat /\ e \in Nat
  <2>1. PICK S : estack \in Seq(S)
    BY DEF Inv, TypeOK
  <2> QED
    BY <2>1
<1>2. PICK m : m = estack[d].mod
  OBVIOUS
<1>3. \A f \in DOMAIN estack : estack[f].mod \in Nat /\ FrameOK(estack[f])
  <2>1. mods \in Seq(Module) /\ \A f \in DOMAIN estack : FrameOK(estack[f])
    BY DEF Inv, TypeOK
  <2> QED
    BY <2>1 DEF FrameOK
<1>4. ASSUME NEW f \in d..e
      PROVE  f \in DOMAIN estack /\ estack[f].mod = m
  <2>1. f \in DOMAIN estack /\ f \in Nat
    BY <1>1
  <2>2. CASE f = d \/ f = e
    BY <1>2, <2>1, <2>2
  <2>3. CASE d < f /\ f < e
    <3>1. estack[f].mod <= estack[d].mod /\ estack[e].mod <= estack[f].mod
      BY <2>1, <2>3 DEF Inv, EvalInv, Nested, Depths
    <3> QED
      BY <1>2, <1>3, <2>1, <3>1
  <2> QED
    BY <1>1, <2>1, <2>2, <2>3
<1>5. ASSUME NEW f \in d..e
      PROVE  estack[f].imp # 0
  <2>1. ASSUME NEW g \in DOMAIN estack, d < g, estack[g].mod = m
        PROVE  estack[g].imp # 0
    <3>1. estack[g].imp = 0 => estack[g].mod < estack[d].mod
      BY <2>1 DEF Inv, EvalInv, Nested, Depths
    <3> QED
      BY <1>2, <1>3, <2>1, <3>1
  <2>2. CASE f = d
    <3>1. e \in d..e
      BY <1>1
    <3> QED
      BY <1>4, <2>1, <2>2, <3>1
  <2>3. CASE d < f
    BY <1>4, <2>1, <2>3
  <2> QED
    BY <1>1, <2>2, <2>3
<1> DEFINE C == {estack[f].imp : f \in d..e}
<1>6. C \subseteq DOMAIN mods[m].imports
  <2>1. ASSUME NEW f \in d..e
        PROVE  estack[f].imp \in DOMAIN mods[m].imports
    <3>1. mods \in Seq(Module) /\ m \in DOMAIN mods /\ estack[f].imp \in 0..Len(mods[m].imports)
      BY <1>3, <1>4 DEF FrameOK, Inv, TypeOK
    <3>2. mods[m] \in Module
      BY <3>1
    <3>3. mods[m].imports \in Seq(Import)
      BY <3>2 DEF Module
    <3> QED
      BY <3>1, <3>3, <1>5
  <2> QED
    BY <2>1
<1>7. ASSUME NEW f \in d..e, f < e
      PROVE  f + 1 \in d..e /\ Needs(m, estack[f].imp, estack[f + 1].imp)
  <2>1. f + 1 \in d..e
    BY <1>1, <1>7
  <2>2. PICK a, b : a = estack[f] /\ b = estack[f + 1]
    OBVIOUS
  <2>3. /\ f \in Depths /\ f + 1 \in Depths
        /\ a.mod = m /\ a.imp # 0 /\ b.imp # 0
    BY <1>4, <1>5, <2>1, <2>2 DEF Depths
  <2>4. Pushed(a, b)
    BY <2>2, <2>3 DEF Inv, EvalInv
  <2>5. Needs(m, a.imp, b.imp)
    BY <2>3, <2>4 DEF Pushed, Source, Needs
  <2> QED
    BY <2>1, <2>2, <2>5
<1>8. ASSUME NEW i \in C
      PROVE  \E j \in C : Needs(m, i, j)
  <2>1. PICK f \in d..e : i = estack[f].imp
    OBVIOUS
  <2>2. PICK g \in d..e : g < e /\ i = estack[g].imp
    <3>1. d \in d..e
      BY <1>1
    <3>2. f < e \/ f = e
      BY <1>1
    <3> QED
      BY <2>1, <3>1, <3>2
  <2>3. g + 1 \in d..e /\ Needs(m, i, estack[g + 1].imp)
    BY <1>7, <2>2
  <2> QED
    BY <2>3
<1>9. estack[d].imp \in C
  BY <1>1
<1> HIDE DEF C
<1> QED
  BY <1>2, <1>6, <1>8, <1>9 DEF ParamCycle

\* A full stack of calls of the evaluator has a module of a file inside
\* another one, or the same import twice.
LEMMA EvalOverflow ==
  ASSUME Inv, DepthInv, DeepStack, Len(estack) >= MaxDepth
  PROVE  ImportCycle \/ ParamCycle
<1>1. Len(estack) \in Nat /\ DOMAIN estack = 1..Len(estack)
  <2>1. PICK S : estack \in Seq(S)
    BY DEF Inv, TypeOK
  <2> QED
    BY <2>1
<1>2. disk \in FileSystems
  BY DEF Inv, TypeOK
<1>3. PICK T : T = CallSites(disk)
  OBVIOUS
<1>4. IsFiniteSet(T) /\ Cardinality(T) \in Nat /\ Cardinality(T) < MaxDepth
  BY <1>2, <1>3, FS_CardinalityType DEF DeepStack
<1>5. Cardinality(T) < Len(estack)
  BY <1>1, <1>4, DepthAssumption
<1> DEFINE f == [d \in 1..Len(estack) |-> SiteOf(estack[d])]
<1>6. f \in [1..Len(estack) -> T]
  BY <1>1, <1>3, SiteIsCallSite
<1>7. PICK d, e \in 1..Len(estack) : d < e /\ f[d] = f[e]
  <2> HIDE DEF f
  <2> QED
    BY <1>1, <1>4, <1>5, <1>6, TwoAlike
<1>8. SiteOf(estack[d]) = SiteOf(estack[e])
  BY <1>7
<1>9. mods[estack[d].mod].path = mods[estack[e].mod].path /\ estack[d].imp = estack[e].imp
  BY <1>8 DEF SiteOf
<1>10. CASE estack[d].mod = estack[e].mod
  BY <1>1, <1>7, <1>9, <1>10, SameImportTwice
<1>11. CASE estack[d].mod # estack[e].mod
  BY <1>1, <1>9, <1>11 DEF ImportCycle
<1> QED
  BY <1>10, <1>11

\* Only a cycle exhausts a stack that has room for as many calls as the
\* files have sections and imports: Parse, EvaluateImport and EvaluateModule
\* need no test for cycles to return on files that have none.
THEOREM OverflowNeedsACycle == DeepStack => (Spec => []OverflowOnlyOnCycle)
<1> SUFFICES ASSUME DeepStack PROVE Spec => []OverflowOnlyOnCycle
  OBVIOUS
<1>1. Inv /\ DepthInv => OverflowOnlyOnCycle
  BY ParseOverflow, EvalOverflow DEF OverflowOnlyOnCycle, DepthInv, StackFull
<1> QED
  BY <1>1, Invariance, DepthInvariance, PTL
-----------------------------------------------------------------------------
(***************************************************************************)
(* The module system implements the loader that the rest of short sees     *)
(* (module Loader): the sections of the command line's files, in order,    *)
(* each once, and none that is only imported.                              *)
(***************************************************************************)
\* The first n sections of file p, those of a file that can be read, and
\* those of the files on the command line, one sequence for each.
FirstSections(p, n) == [s \in 1..n |-> <<p, s>>]
FileSections(dk, p) == IF dk[p] = Unreadable THEN <<>> ELSE FirstSections(p, Len(dk[p]))
CommandLine(dk) == [f \in DOMAIN Filenames |-> FileSections(dk, Filenames[f])]

\* The sections of the first n files, and the sections of modules ms.
UpToFile(dk, n) == FlattenSeq(SubSeq(CommandLine(dk), 1, n))
SectionsOfModules(ms, md) == [r \in DOMAIN ms |-> <<md[ms[r]].path, md[ms[r]].sec>>]

\* ms are the modules of the first sections of file p.
MadeOf(ms, md, p) == \A k \in DOMAIN ms : md[ms[k]].path = p /\ md[ms[k]].sec = k

\* A call of Parse holds the modules of the first sections of its file, and
\* the call at the bottom reads the file of the command line.
FramesInOrder ==
  /\ \A d \in DOMAIN pstack :
       /\ MadeOf(pstack[d].modules, mods, pstack[d].path)
       /\ Len(pstack[d].modules) <= Len(disk[pstack[d].path])
  /\ pstack # <<>> => pstack[1].path = Filenames[fileIx]

\* While they are evaluated, the roots are the modules of the whole file.
RootsInOrder ==
  status = "eval" =>
    /\ disk[Filenames[fileIx]] # Unreadable
    /\ Len(roots) = Len(disk[Filenames[fileIx]])
    /\ MadeOf(roots, mods, Filenames[fileIx])

\* What has been collected: the files before this one, and the sections of
\* this one that the loop has passed.
ResultsInOrder ==
  /\ \A f \in 1..fileIx - 1 : disk[Filenames[f]] # Unreadable
  /\ status \in {"load", "parse"} =>
       SectionsOfModules(results, mods) = UpToFile(disk, fileIx - 1)
  /\ status = "eval" =>
       SectionsOfModules(results, mods) =
         UpToFile(disk, fileIx - 1) \o FirstSections(Filenames[fileIx], rootIx - 1)

OrderInv == FramesInOrder /\ RootsInOrder /\ ResultsInOrder

-----------------------------------------------------------------------------
(***************************************************************************)
(* The command line as a sequence of sections.                             *)
(***************************************************************************)
\* The sections of a file are as many as the file has, and those of an
\* unreadable file none.
LEMMA FileSectionsType ==
  ASSUME NEW dk \in FileSystems, NEW p \in Path
  PROVE  /\ FileSections(dk, p) \in Seq(Path \X Nat)
         /\ dk[p] # Unreadable => Len(dk[p]) \in Nat /\ FileSections(dk, p) = FirstSections(p, Len(dk[p]))
<1>1. ASSUME NEW n \in Nat
      PROVE  FirstSections(p, n) \in Seq(Path \X Nat)
  BY DEF FirstSections
<1>2. dk[p] # Unreadable => Len(dk[p]) \in Nat
  BY FilesAssumption
<1>3. <<>> \in Seq(Path \X Nat)
  OBVIOUS
<1> QED
  BY <1>1, <1>2, <1>3, Zenon DEF FileSections

\* Each file of the command line has its sections.
LEMMA CommandLineType ==
  ASSUME NEW dk \in FileSystems
  PROVE  /\ CommandLine(dk) \in Seq(Seq(Path \X Nat))
         /\ Len(CommandLine(dk)) = Len(Filenames) /\ Len(Filenames) \in Nat
         /\ \A f \in 1..Len(Filenames) : Filenames[f] \in Path /\ CommandLine(dk)[f] = FileSections(dk, Filenames[f])
<1>1. /\ Len(Filenames) \in Nat /\ DOMAIN Filenames = 1..Len(Filenames)
      /\ \A f \in 1..Len(Filenames) : Filenames[f] \in Path
  BY FilenamesAssumption
<1>2. \A f \in 1..Len(Filenames) : FileSections(dk, Filenames[f]) \in Seq(Path \X Nat)
  BY <1>1, FileSectionsType
<1> QED
  BY <1>1, <1>2 DEF CommandLine

\* One more file appends its sections.
LEMMA UpToNextFile ==
  ASSUME NEW dk \in FileSystems, NEW n \in 0..Len(Filenames) - 1
  PROVE  UpToFile(dk, n + 1) = UpToFile(dk, n) \o FileSections(dk, Filenames[n + 1])
<1>1. PICK c \in Seq(Seq(Path \X Nat)) : c = CommandLine(dk)
  BY CommandLineType
<1>2. n \in 0..Len(c) - 1 /\ c[n + 1] = FileSections(dk, Filenames[n + 1])
  BY <1>1, CommandLineType
<1>3. FlattenSeq(SubSeq(c, 1, n + 1)) = FlattenSeq(SubSeq(c, 1, n)) \o c[n + 1]
  BY <1>2, FlattenSeqPrefix
<1> QED
  BY <1>1, <1>2, <1>3 DEF UpToFile

\* From no file to all of them; what precedes a file begins the whole.
LEMMA UpToFileBegins ==
  ASSUME NEW dk \in FileSystems
  PROVE  /\ UpToFile(dk, 0) = <<>>
         /\ UpToFile(dk, Len(Filenames)) = FlattenSeq(CommandLine(dk))
         /\ FlattenSeq(CommandLine(dk)) \in Seq(Path \X Nat)
         /\ \A n \in 0..Len(Filenames) :
              /\ UpToFile(dk, n) \in Seq(Path \X Nat)
              /\ Len(UpToFile(dk, n)) <= Len(FlattenSeq(CommandLine(dk)))
              /\ \A i \in 1..Len(UpToFile(dk, n)) : FlattenSeq(CommandLine(dk))[i] = UpToFile(dk, n)[i]
<1>1. PICK c \in Seq(Seq(Path \X Nat)) : c = CommandLine(dk)
  BY CommandLineType
<1>2. SubSeq(c, 1, 0) = <<>> /\ SubSeq(c, 1, Len(c)) = c /\ Len(c) = Len(Filenames)
  BY <1>1, CommandLineType
<1>3. ASSUME NEW n \in 0..Len(c)
      PROVE  /\ FlattenSeq(SubSeq(c, 1, n)) \in Seq(Path \X Nat)
             /\ Len(FlattenSeq(SubSeq(c, 1, n))) <= Len(FlattenSeq(c))
             /\ \A i \in 1..Len(FlattenSeq(SubSeq(c, 1, n))) : FlattenSeq(c)[i] = FlattenSeq(SubSeq(c, 1, n))[i]
  <2>1. SubSeq(c, 1, n) \in Seq(Seq(Path \X Nat))
    OBVIOUS
  <2>2. FlattenSeq(SubSeq(c, 1, n)) \in Seq(Path \X Nat)
    BY <2>1, FlattenSeqType
  <2>3. /\ Len(FlattenSeq(SubSeq(c, 1, n))) <= Len(FlattenSeq(c))
        /\ \A i \in 1..Len(FlattenSeq(SubSeq(c, 1, n))) : FlattenSeq(c)[i] = FlattenSeq(SubSeq(c, 1, n))[i]
    BY FlattenSeqBegins
  <2> QED
    BY <2>2, <2>3
<1>4. FlattenSeq(c) \in Seq(Path \X Nat)
  BY FlattenSeqType
<1> QED
  BY <1>1, <1>2, <1>3, <1>4, FlattenSeqEmpty, Zenon DEF UpToFile

-----------------------------------------------------------------------------
(***************************************************************************)
(* OrderInv is inductive, given Inv.                                       *)
(***************************************************************************)
\* Nothing is parsed and nothing is collected at the start.
LEMMA InitOrder == Init => OrderInv
<1> SUFFICES ASSUME Init PROVE OrderInv
  OBVIOUS
<1>0. disk \in FileSystems /\ status = "load" /\ fileIx = 1 /\ pstack = <<>> /\ results = <<>>
  BY DEF Init
<1>1. SectionsOfModules(results, mods) = <<>>
  BY <1>0 DEF SectionsOfModules
<1>2. fileIx - 1 = 0 /\ UpToFile(disk, 0) = <<>>
  BY <1>0, UpToFileBegins
<1> QED
  BY <1>0, <1>1, <1>2 DEF OrderInv, FramesInOrder, RootsInOrder, ResultsInOrder

\* Modules already made stay as they are when one is added.
LEMMA MadeOfKept ==
  ASSUME NEW S, NEW md \in Seq(S), NEW x, NEW ms \in Seq(DOMAIN md), NEW p
  PROVE  /\ MadeOf(ms, md, p) => MadeOf(ms, Append(md, x), p)
         /\ SectionsOfModules(ms, Append(md, x)) = SectionsOfModules(ms, md)
<1>1. /\ DOMAIN md = 1..Len(md) /\ Len(md) \in Nat
      /\ \A i \in 1..Len(md) : Append(md, x)[i] = md[i]
  BY Pushing
<1>2. \A k \in DOMAIN ms : ms[k] \in DOMAIN md
  OBVIOUS
<1>3. \A k \in DOMAIN ms : Append(md, x)[ms[k]] = md[ms[k]]
  BY <1>1, <1>2
<1> HIDE DEF MadeOf
<1>4. MadeOf(ms, md, p) => MadeOf(ms, Append(md, x), p)
  BY <1>3 DEF MadeOf
<1>5. SectionsOfModules(ms, Append(md, x)) = SectionsOfModules(ms, md)
  BY <1>3 DEF SectionsOfModules
<1> QED
  BY <1>4, <1>5

\* A step of the evaluator, or one that ends the program.
LEMMA OrderKept ==
  ASSUME OrderInv, UNCHANGED <<disk, fileIx, pstack, mods, roots, rootIx, results>>,
         status' = status \/ status' \in Ended
  PROVE  OrderInv'
<1>1. FramesInOrder'
  BY DEF OrderInv, FramesInOrder
<1>2. RootsInOrder'
  BY DEF OrderInv, RootsInOrder, Ended
<1>3. ResultsInOrder'
  BY DEF OrderInv, ResultsInOrder, Ended
<1> QED
  BY <1>1, <1>2, <1>3 DEF OrderInv

\* Parse is called: it has made no module of its file yet.
LEMMA CallParseOrder ==
  ASSUME Inv, OrderInv, ReaderFrame, status \in {"load", "parse"}, NEW p \in Path, NEW name \in Name,
         CallParse(p, name, pstack), pstack = <<>> => p = Filenames[fileIx]
  PROVE  OrderInv'
<1> USE DEF ReaderFrame
<1>1. CASE status' \in {"error", "overflow"} /\ pstack' = pstack
  BY <1>1, OrderKept DEF Ended
<1> DEFINE N == [path |-> p, modules |-> <<>>, imports |-> <<>>, as |-> name]
<1>2. CASE disk[p] # Unreadable /\ status' = "parse" /\ pstack' = Append(pstack, N)
  <2>1. pstack \in Seq(ParseFrame) /\ disk \in FileSystems
    BY DEF Inv, TypeOK
  <2>2. N.path = p /\ N.modules = <<>> /\ Len(disk[p]) \in Nat
    BY <1>2, <2>1, FilesAssumption
  <2> HIDE DEF N
  <2>3. /\ DOMAIN pstack = 1..Len(pstack) /\ Len(pstack) \in Nat
        /\ DOMAIN pstack' = 1..Len(pstack) + 1
        /\ \A d \in 1..Len(pstack) : pstack'[d] = pstack[d]
        /\ pstack'[Len(pstack) + 1] = N
    BY <1>2, <2>1, Pushing
  <2>4. ASSUME NEW d \in DOMAIN pstack'
        PROVE  /\ MadeOf(pstack'[d].modules, mods, pstack'[d].path)
               /\ Len(pstack'[d].modules) <= Len(disk[pstack'[d].path])
    <3>1. CASE d \in DOMAIN pstack
      BY <3>1, <2>3 DEF OrderInv, FramesInOrder
    <3>2. CASE d = Len(pstack) + 1
      BY <3>2, <2>2, <2>3 DEF MadeOf
    <3> QED
      BY <3>1, <3>2, <2>3
  <2>5. pstack'[1].path = Filenames[fileIx]
    <3>1. CASE pstack = <<>>
      BY <3>1, <2>2, <2>3
    <3>2. CASE pstack # <<>>
      BY <3>2, <2>1, <2>3 DEF OrderInv, FramesInOrder
    <3> QED
      BY <3>1, <3>2
  <2>6. FramesInOrder'
    BY <2>4, <2>5 DEF FramesInOrder
  <2>7. RootsInOrder' /\ ResultsInOrder'
    BY <1>2 DEF OrderInv, RootsInOrder, ResultsInOrder
  <2> QED
    BY <2>6, <2>7 DEF OrderInv
<1> QED
  BY <1>1, <1>2 DEF CallParse, ReadFromPath

\* loadKokiFiles opens a file of the command line.
LEMMA LoadFileOrder == Inv /\ OrderInv /\ LoadFile => OrderInv'
<1> SUFFICES ASSUME Inv, OrderInv, LoadFile PROVE OrderInv'
  OBVIOUS
<1>1. pstack = <<>> /\ status = "load" /\ fileIx <= Len(Filenames)
  BY DEF LoadFile, Inv, ParseInv
<1>2. Filenames[fileIx] \in Path /\ NoName \in Name
  BY <1>1, FilenamesAssumption, NameAssumption DEF Inv, TypeOK
<1>3. CallParse(Filenames[fileIx], NoName, pstack) /\ ReaderFrame
  BY <1>1 DEF LoadFile, ReaderFrame
<1> QED
  BY <1>1, <1>2, <1>3, CallParseOrder

\* An import declaration is refused, or its file is opened.
LEMMA ParseImportOrder == Inv /\ OrderInv /\ ParseImport => OrderInv'
<1> SUFFICES ASSUME Inv, OrderInv, ParseImport PROVE OrderInv'
  OBVIOUS
<1>1. status = "parse" /\ ReaderFrame /\ pstack # <<>>
  BY DEF ParseImport, ReaderFrame, Inv, ParseInv
<1>2. CASE status' = "error" /\ UNCHANGED pstack
  BY <1>1, <1>2, OrderKept DEF ReaderFrame, Ended
<1>3. ASSUME NEW t \in NextDecl.targets,
             CallParse(ResolveImportPath(Caller.path, t.path), t.name, pstack)
      PROVE  OrderInv'
  <2>1. ResolveImportPath(Caller.path, t.path) \in Path /\ t.name \in Name
    BY ImportTarget
  <2> QED
    BY <1>1, <1>3, <2>1, CallParseOrder
<1> QED
  BY <1>2, <1>3 DEF ParseImport

\* ParseComponent makes the module of the next section of the file.
LEMMA ParseComponentOrder == Inv /\ OrderInv /\ ParseComponent => OrderInv'
<1> SUFFICES ASSUME Inv, OrderInv, ParseComponent PROVE OrderInv'
  OBVIOUS
<1>0. /\ status = "parse" /\ Len(Caller.modules) < Len(Sections)
      /\ UNCHANGED <<disk, fileIx, roots, rootIx, evalVars, results>>
  BY DEF ParseComponent, InSection
<1>1. CASE status' = "error" /\ UNCHANGED <<pstack, mods>>
  BY <1>0, <1>1, OrderKept DEF Ended
<1>2. ASSUME NEW M, M.path = Caller.path, M.sec = Len(Caller.modules) + 1, mods' = Append(mods, M),
             pstack' = Append(Front(pstack),
                          [Caller EXCEPT !.modules = Append(@, Len(mods) + 1), !.imports = <<>>]),
             UNCHANGED status
      PROVE  OrderInv'
  <2>t. /\ mods \in Seq(Module) /\ results \in Seq(DOMAIN mods) /\ roots \in Seq(DOMAIN mods)
        /\ DOMAIN mods = 1..Len(mods) /\ Len(mods) \in Nat
    BY DEF Inv, TypeOK
  <2>r. /\ pstack \in Seq(ParseFrame) /\ pstack # <<>> /\ Len(pstack) \in DOMAIN pstack
        /\ Caller = pstack[Len(pstack)] /\ Caller \in ParseFrame /\ Len(Sections) \in Nat
    BY <1>0, Reading
  <2>K. PICK K : K = Len(mods) + 1
    OBVIOUS
  <2>N. PICK N : N = [Caller EXCEPT !.modules = Append(@, K), !.imports = <<>>]
    OBVIOUS
  <2>n. N.path = Caller.path /\ N.modules = Append(Caller.modules, K) /\ Caller.modules \in Seq(Nat)
    BY <2>r, <2>N DEF ParseFrame
  <2>1. /\ DOMAIN pstack = 1..Len(pstack) /\ DOMAIN pstack' = 1..Len(pstack) /\ Len(pstack) \in Nat
        /\ \A d \in 1..Len(pstack) : d < Len(pstack) => pstack'[d] = pstack[d]
        /\ pstack'[Len(pstack)] = N
    <3>1. /\ Front(pstack) \in Seq(ParseFrame) /\ Len(Front(pstack)) = Len(pstack) - 1
          /\ \A d \in 1..Len(pstack) - 1 : Front(pstack)[d] = pstack[d]
          /\ Len(pstack) \in Nat \ {0} /\ DOMAIN pstack = 1..Len(pstack)
      BY <2>r, Popping
    <3>2. pstack' = Append(Front(pstack), N)
      BY <1>2, <2>K, <2>N
    <3>3. /\ DOMAIN pstack' = 1..Len(Front(pstack)) + 1
          /\ \A d \in 1..Len(Front(pstack)) : pstack'[d] = Front(pstack)[d]
          /\ pstack'[Len(Front(pstack)) + 1] = N
      BY <3>1, <3>2, Pushing
    <3> QED
      BY <3>1, <3>3
  <2>2. /\ \A i \in 1..Len(mods) : mods'[i] = mods[i]
        /\ mods'[K] = M
    BY <1>2, <2>t, <2>K, Pushing
  <2>h. \A d \in DOMAIN pstack : \A k \in DOMAIN pstack[d].modules : pstack[d].modules[k] \in DOMAIN mods
    BY DEF Inv, ParseInv, HeldFree, Held
  <2>3. ASSUME NEW d \in DOMAIN pstack'
        PROVE  /\ MadeOf(pstack'[d].modules, mods', pstack'[d].path)
               /\ Len(pstack'[d].modules) <= Len(disk[pstack'[d].path])
    <3>0. /\ d \in DOMAIN pstack
          /\ MadeOf(pstack[d].modules, mods, pstack[d].path)
          /\ Len(pstack[d].modules) <= Len(disk[pstack[d].path])
      BY <2>1 DEF OrderInv, FramesInOrder
    <3>1. CASE d < Len(pstack)
      BY <3>0, <3>1, <2>1, <2>2, <2>h, <2>t DEF MadeOf
    <3>2. CASE d = Len(pstack)
      <4>1. /\ Len(N.modules) = Len(Caller.modules) + 1 /\ Len(Caller.modules) \in Nat
            /\ DOMAIN N.modules = 1..Len(Caller.modules) + 1
            /\ \A k \in 1..Len(Caller.modules) : N.modules[k] = Caller.modules[k]
            /\ N.modules[Len(Caller.modules) + 1] = K
            /\ DOMAIN Caller.modules = 1..Len(Caller.modules)
        BY <2>n, Pushing
      <4>2. MadeOf(N.modules, mods', N.path)
        <5>1. ASSUME NEW k \in 1..Len(Caller.modules)
              PROVE  mods'[N.modules[k]].path = N.path /\ mods'[N.modules[k]].sec = k
          <6>1. Caller.modules[k] \in 1..Len(mods)
            BY <4>1, <2>h, <2>r, <2>t
          <6>2. mods[Caller.modules[k]].path = Caller.path /\ mods[Caller.modules[k]].sec = k
            BY <4>1, <3>0, <3>2, <2>r DEF MadeOf
          <6>3. mods'[N.modules[k]] = mods[Caller.modules[k]]
            BY <4>1, <6>1, <2>2
          <6> QED
            BY <6>2, <6>3, <2>n
        <5>2. /\ mods'[N.modules[Len(Caller.modules) + 1]].path = N.path
              /\ mods'[N.modules[Len(Caller.modules) + 1]].sec = Len(Caller.modules) + 1
          BY <4>1, <2>2, <2>n, <1>2
        <5> QED
          BY <5>1, <5>2, <4>1 DEF MadeOf
      <4>3. Len(N.modules) <= Len(disk[N.path])
        BY <4>1, <1>0, <2>n, <2>r DEF Sections, ReadFromPath
      <4> QED
        BY <4>2, <4>3, <3>2, <2>1
    <3> QED
      BY <3>1, <3>2, <2>1
  <2>4. pstack'[1].path = Filenames[fileIx]
    BY <2>1, <2>r, <2>n DEF OrderInv, FramesInOrder
  <2>5. FramesInOrder'
    BY <2>3, <2>4, <1>0 DEF FramesInOrder
  <2>6. RootsInOrder'
    BY <1>0, <1>2 DEF RootsInOrder
  <2>7. SectionsOfModules(results, mods') = SectionsOfModules(results, mods)
    BY <1>2, <2>t, MadeOfKept
  <2>8. ResultsInOrder'
    BY <1>0, <1>2, <2>7 DEF OrderInv, ResultsInOrder
  <2> QED
    BY <2>5, <2>6, <2>8 DEF OrderInv
<1>3. ASSUME NEW names,
             mods' = Append(mods, [path |-> Caller.path, sec |-> Len(Caller.modules) + 1,
                                   imports |-> Caller.imports, names |-> names]),
             pstack' = Append(Front(pstack),
                          [Caller EXCEPT !.modules = Append(@, Len(mods) + 1), !.imports = <<>>]),
             UNCHANGED status
      PROVE  OrderInv'
  <2> DEFINE M == [path |-> Caller.path, sec |-> Len(Caller.modules) + 1,
                   imports |-> Caller.imports, names |-> names]
  <2>1. M.path = Caller.path /\ M.sec = Len(Caller.modules) + 1
    OBVIOUS
  <2>2. mods' = Append(mods, M)
    BY <1>3
  <2> HIDE DEF M
  <2> QED
    BY <1>2, <1>3, <2>1, <2>2
<1> QED
  BY <1>1, <1>3 DEF ParseComponent

\* Parse returns to parseImport: the calls below hold what they held.
LEMMA ReturnToImportOrder == Inv /\ OrderInv /\ ReturnToImport => OrderInv'
<1> SUFFICES ASSUME Inv, OrderInv, ReturnToImport PROVE OrderInv'
  OBVIOUS
<1>0. /\ status = "parse" /\ Len(pstack) > 1
      /\ UNCHANGED <<disk, fileIx, mods, roots, rootIx, evalVars, results>>
  BY DEF ReturnToImport
<1>1. CASE status' = "panic" /\ UNCHANGED pstack
  BY <1>0, <1>1, OrderKept DEF Ended
<1>2. CASE pstack' = Append(Front(Front(pstack)),
                            [Last(Front(pstack)) EXCEPT !.imports = Append(@, Imported)])
           /\ UNCHANGED status
  <2>1. pstack \in Seq(ParseFrame) /\ pstack # <<>>
    BY <1>0, Reading
  <2>D. PICK D \in Nat : D = Len(pstack)
    BY <2>1
  <2>2. /\ Front(pstack) \in Seq(ParseFrame) /\ Len(Front(pstack)) = D - 1 /\ D > 1
        /\ \A d \in 1..D - 1 : Front(pstack)[d] = pstack[d]
        /\ DOMAIN pstack = 1..D
    BY <1>0, <2>1, <2>D, Popping
  <2>3. Front(pstack) # <<>>
    BY <2>2
  <2>4. /\ Front(Front(pstack)) \in Seq(ParseFrame) /\ Len(Front(Front(pstack))) = D - 2
        /\ \A d \in 1..D - 2 : Front(Front(pstack))[d] = Front(pstack)[d]
        /\ Last(Front(pstack)) = pstack[D - 1] /\ Last(Front(pstack)) \in ParseFrame
    BY <2>2, <2>3, Popping
  <2>N. PICK N : N = [Last(Front(pstack)) EXCEPT !.imports = Append(@, Imported)]
    OBVIOUS
  <2>5. N.path = pstack[D - 1].path /\ N.modules = pstack[D - 1].modules
    BY <2>4, <2>N DEF ParseFrame
  <2>6. /\ DOMAIN pstack' = 1..D - 1
        /\ \A d \in 1..D - 2 : pstack'[d] = pstack[d]
        /\ pstack'[D - 1] = N
    <3>1. pstack' = Append(Front(Front(pstack)), N)
      BY <1>2, <2>N
    <3>2. /\ DOMAIN pstack' = 1..Len(Front(Front(pstack))) + 1
          /\ \A d \in 1..Len(Front(Front(pstack))) : pstack'[d] = Front(Front(pstack))[d]
          /\ pstack'[Len(Front(Front(pstack))) + 1] = N
      BY <3>1, <2>4, Pushing
    <3> QED
      BY <3>2, <2>2, <2>4
  <2>7. \A d \in DOMAIN pstack' :
          d \in DOMAIN pstack /\ pstack'[d].path = pstack[d].path /\ pstack'[d].modules = pstack[d].modules
    BY <2>2, <2>5, <2>6
  <2>8. FramesInOrder'
    <3>1. \A d \in DOMAIN pstack' :
            /\ MadeOf(pstack'[d].modules, mods, pstack'[d].path)
            /\ Len(pstack'[d].modules) <= Len(disk[pstack'[d].path])
      BY <2>7 DEF OrderInv, FramesInOrder
    <3>2. pstack'[1].path = Filenames[fileIx]
      BY <2>1, <2>2, <2>6, <2>7 DEF OrderInv, FramesInOrder
    <3> QED
      BY <3>1, <3>2, <1>0 DEF FramesInOrder
  <2>9. RootsInOrder' /\ ResultsInOrder'
    BY <1>0, <1>2 DEF OrderInv, RootsInOrder, ResultsInOrder
  <2> QED
    BY <2>8, <2>9 DEF OrderInv
<1> QED
  BY <1>1, <1>2 DEF ReturnToImport

\* Parse returns to loadKokiFiles with a module for each section.
LEMMA ReturnToLoadOrder == Inv /\ OrderInv /\ ReturnToLoad => OrderInv'
<1> SUFFICES ASSUME Inv, OrderInv, ReturnToLoad PROVE OrderInv'
  OBVIOUS
<1>0. /\ status = "parse" /\ status' = "eval" /\ roots' = Caller.modules /\ rootIx' = 1 /\ pstack' = <<>>
      /\ Len(pstack) = 1 /\ ~(Len(Caller.modules) < Len(Sections))
      /\ UNCHANGED <<disk, fileIx, mods, results>>
  BY DEF ReturnToLoad, InSection
<1>1. /\ pstack # <<>> /\ Len(pstack) \in DOMAIN pstack /\ Caller = pstack[1] /\ Caller \in ParseFrame
      /\ Len(Sections) \in Nat
  BY <1>0, Reading
<1>2. /\ Caller.path = Filenames[fileIx] /\ MadeOf(Caller.modules, mods, Caller.path)
      /\ Len(Caller.modules) <= Len(Sections) /\ disk[Caller.path] # Unreadable
  BY <1>0, <1>1 DEF OrderInv, FramesInOrder, Sections, ReadFromPath, Inv, ParseInv
<1>3. Len(Caller.modules) = Len(Sections)
  <2>1. Len(Caller.modules) \in Nat
    BY <1>1 DEF ParseFrame
  <2> QED
    BY <2>1, <1>0, <1>1, <1>2
<1>4. RootsInOrder'
  BY <1>0, <1>2, <1>3 DEF RootsInOrder, Sections, ReadFromPath
<1>5. FramesInOrder'
  BY <1>0 DEF FramesInOrder
<1>6. ResultsInOrder'
  <2>1. fileIx - 1 \in 0..Len(Filenames) /\ disk \in FileSystems
    BY FilenamesAssumption DEF Inv, TypeOK
  <2>2. UpToFile(disk, fileIx - 1) \in Seq(Path \X Nat)
    BY <2>1, UpToFileBegins
  <2>3. FirstSections(Filenames[fileIx], 1 - 1) = <<>>
    BY DEF FirstSections
  <2>4. UpToFile(disk, fileIx - 1) \o <<>> = UpToFile(disk, fileIx - 1)
    BY <2>2
  <2> QED
    BY <1>0, <2>3, <2>4 DEF OrderInv, ResultsInOrder
<1> QED
  BY <1>4, <1>5, <1>6 DEF OrderInv

\* The next section of the file is one more of its first sections.
LEMMA FirstSectionsGrow ==
  ASSUME NEW p, NEW n \in Nat \ {0}
  PROVE  FirstSections(p, n) = Append(FirstSections(p, n - 1), <<p, n>>)
BY DEF FirstSections

\* What is appended to two sequences is appended to the second.
LEMMA AppendToConcat ==
  ASSUME NEW T, NEW a \in Seq(T), NEW b \in Seq(T), NEW x \in T,
         NEW c, c = Append(b, x), NEW d, d = a \o b, NEW e, e = a \o c, NEW f, f = Append(d, x)
  PROVE  e = f
<1>1. /\ c \in Seq(T) /\ Len(c) = Len(b) + 1 /\ Len(b) \in Nat /\ Len(a) \in Nat
      /\ \A i \in 1..Len(b) : c[i] = b[i]
      /\ c[Len(b) + 1] = x
  OBVIOUS
<1>2. /\ d \in Seq(T) /\ Len(d) = Len(a) + Len(b)
      /\ \A i \in 1..Len(a) + Len(b) : d[i] = IF i <= Len(a) THEN a[i] ELSE b[i - Len(a)]
  BY ConcatProperties
<1>3. /\ e \in Seq(T) /\ Len(e) = Len(a) + Len(c)
      /\ \A i \in 1..Len(a) + Len(c) : e[i] = IF i <= Len(a) THEN a[i] ELSE c[i - Len(a)]
  BY <1>1, ConcatProperties
<1>4. /\ f \in Seq(T) /\ Len(f) = Len(d) + 1
      /\ \A i \in 1..Len(d) : f[i] = d[i]
      /\ f[Len(d) + 1] = x
  BY <1>2
<1>5. Len(e) = Len(f) /\ \A i \in 1..Len(e) : e[i] = f[i]
  BY <1>1, <1>2, <1>3, <1>4
<1> QED
  BY <1>3, <1>4, <1>5, SeqEqual

\* One more module is one more section.
LEMMA OneMoreModule ==
  ASSUME NEW md, NEW rs \in Seq(DOMAIN md), NEW r, NEW x, <<md[r].path, md[r].sec>> = x
  PROVE  SectionsOfModules(Append(rs, r), md) = Append(SectionsOfModules(rs, md), x)
<1>1. /\ DOMAIN rs = 1..Len(rs) /\ Len(rs) \in Nat
      /\ DOMAIN Append(rs, r) = 1..Len(rs) + 1
      /\ \A i \in 1..Len(rs) : Append(rs, r)[i] = rs[i]
      /\ Append(rs, r)[Len(rs) + 1] = r
  BY Pushing
<1> DEFINE g(i) == <<md[rs[i]].path, md[rs[i]].sec>>
           h(i) == <<md[Append(rs, r)[i]].path, md[Append(rs, r)[i]].sec>>
<1>2. (\A i \in 1..Len(rs) : h(i) = g(i)) /\ h(Len(rs) + 1) = x
  BY <1>1
<1>3. /\ SectionsOfModules(rs, md) = [i \in 1..Len(rs) |-> g(i)]
      /\ SectionsOfModules(Append(rs, r), md) = [i \in 1..Len(rs) + 1 |-> h(i)]
  BY <1>1 DEF SectionsOfModules
<1> HIDE DEF g, h
<1> QED
  BY <1>1, <1>2, <1>3

\* loadKokiFiles keeps the module of the section that is next in the order
\* of the command line.
LEMMA CollectRootOrder ==
  ASSUME Inv, OrderInv, CollectRoot, results' = Append(results, roots[rootIx])
  PROVE  /\ OrderInv'
         /\ SectionsOfModules(results', mods') =
              Append(SectionsOfModules(results, mods), <<Filenames[fileIx], rootIx>>)
         /\ SectionsOfModules(results', mods') =
              UpToFile(disk, fileIx - 1) \o FirstSections(Filenames[fileIx], rootIx)
<1>t. /\ results \in Seq(DOMAIN mods) /\ rootIx \in Nat \ {0} /\ fileIx \in Nat \ {0} /\ fileIx <= Len(Filenames)
      /\ fileIx - 1 \in 0..Len(Filenames) /\ disk \in FileSystems /\ rootIx \in DOMAIN roots
      /\ roots[rootIx] \in DOMAIN mods
  BY FilenamesAssumption DEF CollectRoot, Inv, TypeOK, ParseInv
<1>0. /\ status = "eval" /\ UNCHANGED <<disk, fileIx, pstack, mods, roots>>
      /\ rootIx' = rootIx + 1 /\ status' = status
  <2>1. results # results'
    BY <1>t
  <2> QED
    BY <2>1 DEF CollectRoot, parseVars
<1>1. mods[roots[rootIx]].path = Filenames[fileIx] /\ mods[roots[rootIx]].sec = rootIx
  BY <1>0, <1>t DEF OrderInv, RootsInOrder, MadeOf
<1>2. SectionsOfModules(results', mods) = Append(SectionsOfModules(results, mods), <<Filenames[fileIx], rootIx>>)
  <2>1. PICK r : r = roots[rootIx]
    OBVIOUS
  <2>2. PICK x : x = <<Filenames[fileIx], rootIx>>
    OBVIOUS
  <2>3. <<mods[r].path, mods[r].sec>> = x /\ results' = Append(results, r) /\ results \in Seq(DOMAIN mods)
    BY <1>1, <1>t, <2>1, <2>2
  <2>4. SectionsOfModules(Append(results, r), mods) = Append(SectionsOfModules(results, mods), x)
    BY <2>3, OneMoreModule, Zenon
  <2> QED
    BY <2>2, <2>3, <2>4
<1>3. SectionsOfModules(results', mods) = UpToFile(disk, fileIx - 1) \o FirstSections(Filenames[fileIx], rootIx)
  <2>1. UpToFile(disk, fileIx - 1) \in Seq(Path \X Nat)
    BY <1>t, UpToFileBegins
  <2>2. /\ FirstSections(Filenames[fileIx], rootIx - 1) \in Seq(Path \X Nat)
        /\ <<Filenames[fileIx], rootIx>> \in Path \X Nat
    BY <1>t, FilenamesAssumption DEF FirstSections
  <2>3. SectionsOfModules(results, mods) =
          UpToFile(disk, fileIx - 1) \o FirstSections(Filenames[fileIx], rootIx - 1)
    BY <1>0 DEF OrderInv, ResultsInOrder
  <2>4. FirstSections(Filenames[fileIx], rootIx) =
          Append(FirstSections(Filenames[fileIx], rootIx - 1), <<Filenames[fileIx], rootIx>>)
    BY <1>t, FirstSectionsGrow
  <2>5. PICK a, b, x : /\ a = UpToFile(disk, fileIx - 1)
                       /\ b = FirstSections(Filenames[fileIx], rootIx - 1)
                       /\ x = <<Filenames[fileIx], rootIx>>
    OBVIOUS
  <2>6. PICK T : a \in Seq(T) /\ b \in Seq(T) /\ x \in T
    BY <2>1, <2>2, <2>5, Zenon
  <2>7. PICK c, d, e, f : c = Append(b, x) /\ d = a \o b /\ e = a \o c /\ f = Append(d, x)
    OBVIOUS
  <2>8. e = f
    BY <2>6, <2>7, AppendToConcat
  <2>9. SectionsOfModules(results', mods) = f
    BY <1>2, <2>3, <2>5, <2>7
  <2>10. FirstSections(Filenames[fileIx], rootIx) = c
    BY <2>4, <2>5, <2>7
  <2> QED
    BY <2>5, <2>7, <2>8, <2>9, <2>10
<1>4. ResultsInOrder'
  <2>1. rootIx' - 1 = rootIx
    BY <1>0, <1>t
  <2> QED
    BY <1>0, <1>3, <2>1 DEF OrderInv, ResultsInOrder
<1>5. FramesInOrder' /\ RootsInOrder'
  BY <1>0 DEF OrderInv, FramesInOrder, RootsInOrder
<1> QED
  BY <1>0, <1>2, <1>3, <1>4, <1>5 DEF OrderInv

\* All sections of a file are collected when the loop goes on to the next.
LEMMA NextFileOrder == Inv /\ OrderInv /\ NextFile => OrderInv'
<1> SUFFICES ASSUME Inv, OrderInv, NextFile PROVE OrderInv'
  OBVIOUS
<1>0. /\ status = "eval" /\ status' = "load" /\ rootIx > Len(roots) /\ fileIx' = fileIx + 1
      /\ UNCHANGED <<disk, pstack, mods, roots, rootIx, results>>
  BY DEF NextFile, parseVars
<1>t. /\ pstack = <<>> /\ disk \in FileSystems /\ fileIx \in Nat \ {0} /\ fileIx <= Len(Filenames)
      /\ fileIx - 1 \in 0..Len(Filenames) - 1 /\ Filenames[fileIx] \in Path
      /\ rootIx \in 1..Len(roots) + 1 /\ Len(roots) \in Nat
  BY <1>0, FilenamesAssumption DEF Inv, ParseInv, TypeOK
<1>1. disk[Filenames[fileIx]] # Unreadable /\ rootIx - 1 = Len(disk[Filenames[fileIx]])
  BY <1>0, <1>t DEF OrderInv, RootsInOrder
<1>2. FirstSections(Filenames[fileIx], rootIx - 1) = FileSections(disk, Filenames[fileIx])
  BY <1>1, <1>t, FileSectionsType
<1>3. UpToFile(disk, (fileIx - 1) + 1) = UpToFile(disk, fileIx - 1) \o FileSections(disk, Filenames[(fileIx - 1) + 1])
  BY <1>t, UpToNextFile
<1>4. SectionsOfModules(results, mods) = UpToFile(disk, fileIx' - 1)
  <2>1. (fileIx - 1) + 1 = fileIx /\ fileIx' - 1 = fileIx
    BY <1>0, <1>t
  <2>2. SectionsOfModules(results, mods) =
          UpToFile(disk, fileIx - 1) \o FirstSections(Filenames[fileIx], rootIx - 1)
    BY <1>0 DEF OrderInv, ResultsInOrder
  <2> QED
    BY <2>1, <2>2, <1>2, <1>3
<1>5. \A f \in 1..fileIx' - 1 : disk[Filenames[f]] # Unreadable
  <2>1. \A f \in 1..fileIx' - 1 : f \in 1..fileIx - 1 \/ f = fileIx
    BY <1>0, <1>t
  <2> QED
    BY <2>1, <1>1 DEF OrderInv, ResultsInOrder
<1>6. ResultsInOrder'
  BY <1>0, <1>4, <1>5 DEF ResultsInOrder
<1>7. FramesInOrder' /\ RootsInOrder'
  BY <1>0, <1>t DEF FramesInOrder, RootsInOrder
<1> QED
  BY <1>6, <1>7 DEF OrderInv

\* The program gives up.
Failure == {"error", "panic", "overflow"}

\* What a step that neither reads files nor collects modules leaves alone.
LoopFrame == UNCHANGED <<disk, fileIx, pstack, mods, roots, rootIx, results>>

\* The steps of the evaluator leave the loops of loadKokiFiles alone, or
\* end them; and CollectRoot, too, if it does not collect the module.
LEMMA EvaluatorSteps ==
  /\ EvaluateRoot \/ Resolve \/ ApplyParams \/ EvaluateExport \/ ReturnFromImport
       => LoopFrame /\ status = "eval" /\ status' \in {"eval"} \cup Failure
  /\ CollectRoot => \/ results' = Append(results, roots[rootIx])
                    \/ LoopFrame /\ status = "eval" /\ status' \in Failure
  /\ Finish => LoopFrame /\ status = "load" /\ status' = "done" /\ fileIx > Len(Filenames)
<1> USE DEF parseVars, Failure, LoopFrame
<1>1. EvaluateRoot \/ ApplyParams => LoopFrame /\ status = "eval" /\ status' \in {"eval"} \cup Failure
  BY DEF EvaluateRoot, ApplyParams, CallEvaluate
<1>2. Resolve => LoopFrame /\ status = "eval" /\ status' \in {"eval"} \cup Failure
  <2> SUFFICES ASSUME Resolve
               PROVE  LoopFrame /\ status = "eval" /\ status' \in {"eval"} \cup Failure
    OBVIOUS
  <2>1. PICK h : ResolveParam(h) \/ ResolveImport(h) \/ ResolveUnknown(h)
    BY DEF Resolve
  <2>2. ASSUME NEW x, FillHole(h, x)
        PROVE  status' = status \/ status' \in Failure
    BY <2>2 DEF FillHole
  <2>3. ASSUME NEW x, CallEvaluate(x, estack)
        PROVE  status' = status \/ status' \in Failure
    BY <2>3 DEF CallEvaluate
  <2>4. status' = status \/ status' \in Failure
    BY <2>1, <2>2, <2>3 DEF ResolveParam, ResolveImport, ResolveUnknown
  <2> QED
    BY <2>4 DEF Resolve
<1>3. EvaluateExport \/ ReturnFromImport => LoopFrame /\ status = "eval" /\ status' \in {"eval"} \cup Failure
  BY DEF EvaluateExport, ReturnFromImport
<1>4. CollectRoot => \/ results' = Append(results, roots[rootIx])
                     \/ LoopFrame /\ status = "eval" /\ status' \in Failure
  BY DEF CollectRoot
<1>5. Finish => LoopFrame /\ status = "load" /\ status' = "done" /\ fileIx > Len(Filenames)
  BY DEF Finish
<1> QED
  BY <1>1, <1>2, <1>3, <1>4, <1>5

\* Every step preserves OrderInv.
LEMMA NextOrder == Inv /\ OrderInv /\ [Next]_vars => OrderInv'
<1> SUFFICES ASSUME Inv, OrderInv, [Next]_vars PROVE OrderInv'
  OBVIOUS
<1>1. CASE LoadFile
  BY <1>1, LoadFileOrder
<1>2. CASE Parsing
  BY <1>2, ParseImportOrder, ParseComponentOrder, ReturnToImportOrder, ReturnToLoadOrder DEF Parsing
<1>3. CASE Evaluating
  BY <1>3, EvaluatorSteps, OrderKept, CollectRootOrder DEF Evaluating, LoopFrame, Failure, Ended
<1>4. CASE NextFile \/ Finish
  BY <1>4, EvaluatorSteps, OrderKept, NextFileOrder DEF LoopFrame, Ended
<1>5. CASE UNCHANGED vars
  BY <1>5, OrderKept DEF vars, parseVars
<1> QED
  BY <1>1, <1>2, <1>3, <1>4, <1>5 DEF Next

\* OrderInv is an invariant of the module system.
THEOREM OrderInvariance == Spec => []OrderInv
BY Invariance, InitOrder, NextOrder, PTL DEF Spec

-----------------------------------------------------------------------------
(***************************************************************************)
(* The refinement: every step of Imports is one of Loader, or a stutter.   *)
(***************************************************************************)
\* The refinement mapping, in the terms of the invariant.
Wanted == FlattenSeq(CommandLine(disk))
Readable == \A f \in DOMAIN Filenames : disk[Filenames[f]] # Unreadable
Loaded == SectionsOfModules(results, mods)
Outcome == IF status \in Running THEN "running" ELSE IF status = "done" THEN "done" ELSE "failed"

\* The actions of Loader under the mapping.
LEMMA Mapping ==
  /\ Loaded = <<>> /\ Outcome = "running" => Loading!Init
  /\ UNCHANGED <<Wanted, Readable, Loaded, Outcome>> => UNCHANGED Loading!loaderVars
  /\ /\ Outcome = "running" /\ Len(Loaded) < Len(Wanted)
     /\ Loaded' = Append(Loaded, Wanted[Len(Loaded) + 1])
     /\ UNCHANGED <<Wanted, Readable, Outcome>>
     => Loading!LoadNext
  /\ /\ Outcome = "running" /\ Readable /\ Loaded = Wanted /\ Outcome' = "done"
     /\ UNCHANGED <<Wanted, Readable, Loaded>>
     => Loading!Succeed
  /\ /\ Outcome = "running" /\ Outcome' = "failed"
     /\ UNCHANGED <<Wanted, Readable, Loaded>>
     => Loading!Fail
<1> USE DEF Wanted, CommandLine, FileSections, FirstSections, SectionsOf, Readable, Loaded,
            SectionsOfModules, Outcome
<1>1. Loaded = <<>> /\ Outcome = "running" => Loading!Init
  BY DEF Loading!Init
<1>2. UNCHANGED <<Wanted, Readable, Loaded, Outcome>> => UNCHANGED Loading!loaderVars
  BY DEF Loading!loaderVars
<1>3. /\ Outcome = "running" /\ Len(Loaded) < Len(Wanted)
      /\ Loaded' = Append(Loaded, Wanted[Len(Loaded) + 1])
      /\ UNCHANGED <<Wanted, Readable, Outcome>>
      => Loading!LoadNext
  BY Zenon DEF Loading!LoadNext
<1>4. /\ Outcome = "running" /\ Readable /\ Loaded = Wanted /\ Outcome' = "done"
      /\ UNCHANGED <<Wanted, Readable, Loaded>>
      => Loading!Succeed
  BY Zenon DEF Loading!Succeed
<1>5. /\ Outcome = "running" /\ Outcome' = "failed"
      /\ UNCHANGED <<Wanted, Readable, Loaded>>
      => Loading!Fail
  BY Zenon DEF Loading!Fail
<1> QED
  BY <1>1, <1>2, <1>3, <1>4, <1>5

\* A step that neither collects a module nor ends well is a stutter, or a
\* failure, of the loader.
LEMMA QuietStep ==
  ASSUME status \in Running, status' \in Running \cup Failure, UNCHANGED <<disk, Loaded>>
  PROVE  [Loading!Next]_Loading!loaderVars
<1>1. UNCHANGED <<Wanted, Readable, Loaded>>
  BY DEF Wanted, Readable, CommandLine, FileSections
<1>2. Outcome = "running" /\ Outcome' \in {"running", "failed"}
  BY DEF Outcome, Running, Failure
<1> QED
  BY <1>1, <1>2, Mapping DEF Loading!Next

\* The steps of the parser and of the loop collect nothing.
LEMMA ReaderSteps ==
  ASSUME Inv, LoadFile \/ Parsing \/ NextFile
  PROVE  status \in Running /\ status' \in Running \cup Failure /\ UNCHANGED <<disk, Loaded>>
<1> USE DEF Running, Failure, Loaded
<1>1. CASE LoadFile
  BY <1>1 DEF LoadFile, CallParse
<1>2. CASE ParseImport
  BY <1>2 DEF ParseImport, CallParse
<1>3. CASE ParseComponent
  <2>1. CASE UNCHANGED mods
    BY <1>3, <2>1 DEF ParseComponent
  <2>2. ASSUME NEW M, mods' = Append(mods, M)
        PROVE  SectionsOfModules(results, mods') = SectionsOfModules(results, mods)
    <3>1. mods \in Seq(Module) /\ results \in Seq(DOMAIN mods)
      BY DEF Inv, TypeOK
    <3> QED
      BY <2>2, <3>1, MadeOfKept
  <2>3. SectionsOfModules(results, mods') = SectionsOfModules(results, mods)
    BY <1>3, <2>1, <2>2 DEF ParseComponent
  <2> QED
    BY <1>3, <2>3 DEF ParseComponent
<1>4. CASE ReturnToImport \/ ReturnToLoad \/ NextFile
  BY <1>4 DEF ReturnToImport, ReturnToLoad, NextFile, parseVars
<1> QED
  BY <1>1, <1>2, <1>3, <1>4 DEF Parsing

\* Collecting a module is loading the next section.
LEMMA CollectIsLoadNext ==
  ASSUME Inv, OrderInv, CollectRoot, results' = Append(results, roots[rootIx])
  PROVE  Loading!LoadNext
<1>t. /\ disk \in FileSystems /\ fileIx \in Nat \ {0} /\ fileIx <= Len(Filenames) /\ Len(Filenames) \in Nat
      /\ fileIx \in 0..Len(Filenames) /\ fileIx - 1 \in 0..Len(Filenames) - 1 /\ Filenames[fileIx] \in Path
      /\ results \in Seq(DOMAIN mods) /\ rootIx \in Nat \ {0} /\ rootIx <= Len(roots) /\ status = "eval"
  <2>1. /\ disk \in FileSystems /\ fileIx \in 1..Len(Filenames) + 1 /\ results \in Seq(DOMAIN mods)
        /\ rootIx \in 1..Len(roots) + 1 /\ Len(roots) \in Nat
        /\ status = "eval" /\ rootIx <= Len(roots) /\ fileIx <= Len(Filenames)
    BY DEF CollectRoot, Inv, TypeOK, ParseInv
  <2>2. Len(Filenames) \in Nat /\ \A f \in 1..Len(Filenames) : Filenames[f] \in Path
    BY FilenamesAssumption
  <2> QED
    BY <2>1, <2>2
<1>0. status' = status /\ disk' = disk
  <2>1. results # results'
    BY <1>t
  <2> QED
    BY <2>1 DEF CollectRoot
<1>1. PICK P, U, x : /\ P = UpToFile(disk, fileIx - 1) /\ U = UpToFile(disk, fileIx)
                     /\ x = <<Filenames[fileIx], rootIx>>
  OBVIOUS
<1>2. /\ U = P \o FileSections(disk, Filenames[fileIx])
      /\ P \in Seq(Path \X Nat) /\ U \in Seq(Path \X Nat) /\ Wanted \in Seq(Path \X Nat)
      /\ Len(U) <= Len(Wanted) /\ \A i \in 1..Len(U) : Wanted[i] = U[i]
  <2>1. fileIx - 1 \in 0..Len(Filenames) /\ (fileIx - 1) + 1 = fileIx
    BY <1>t
  <2>2. UpToFile(disk, (fileIx - 1) + 1) = UpToFile(disk, fileIx - 1) \o FileSections(disk, Filenames[(fileIx - 1) + 1])
    BY <1>t, UpToNextFile
  <2>3. U = P \o FileSections(disk, Filenames[fileIx])
    BY <1>1, <2>1, <2>2
  <2> QED
    BY <1>1, <1>t, <2>1, <2>3, UpToFileBegins DEF Wanted
<1>3. PICK F \in Seq(Path \X Nat) :
        /\ F = FileSections(disk, Filenames[fileIx]) /\ rootIx \in 1..Len(F) /\ F[rootIx] = x
  <2>1. disk[Filenames[fileIx]] # Unreadable /\ Len(roots) = Len(disk[Filenames[fileIx]])
    BY <1>t DEF OrderInv, RootsInOrder
  <2>2. /\ FileSections(disk, Filenames[fileIx]) = FirstSections(Filenames[fileIx], Len(roots))
        /\ FileSections(disk, Filenames[fileIx]) \in Seq(Path \X Nat) /\ Len(roots) \in Nat
    BY <2>1, <1>t, FileSectionsType
  <2>3. /\ Len(FirstSections(Filenames[fileIx], Len(roots))) = Len(roots)
        /\ FirstSections(Filenames[fileIx], Len(roots))[rootIx] = <<Filenames[fileIx], rootIx>>
    BY <2>2, <1>t DEF FirstSections
  <2> QED
    BY <2>2, <2>3, <1>1, <1>t
<1>4. PICK G \in Seq(Path \X Nat) : G = FirstSections(Filenames[fileIx], rootIx - 1) /\ Len(G) = rootIx - 1
  <2>1. PICK p \in Path : p = Filenames[fileIx]
    BY <1>t
  <2>2. ASSUME NEW n \in Nat
        PROVE  FirstSections(p, n) \in Seq(Path \X Nat) /\ Len(FirstSections(p, n)) = n
    BY DEF FirstSections
  <2>3. rootIx - 1 \in Nat
    BY <1>t
  <2> QED
    BY <2>1, <2>2, <2>3
<1>5. Loaded = P \o G /\ Len(Loaded) = Len(P) + (rootIx - 1) /\ Len(P) \in Nat
  <2>1. Loaded = P \o G
    BY <1>1, <1>4, <1>t DEF Loaded, OrderInv, ResultsInOrder
  <2>2. Len(P \o G) = Len(P) + Len(G)
    BY <1>2, <1>4, ConcatProperties
  <2> QED
    BY <2>1, <2>2, <1>2, <1>4
<1>6. /\ Len(U) = Len(P) + Len(F) /\ Len(F) \in Nat
      /\ \A i \in 1..Len(P) + Len(F) : U[i] = IF i <= Len(P) THEN P[i] ELSE F[i - Len(P)]
  <2>1. ASSUME NEW T, NEW p \in Seq(T), NEW f \in Seq(T)
        PROVE  /\ Len(p \o f) = Len(p) + Len(f) /\ Len(f) \in Nat
               /\ \A i \in 1..Len(p) + Len(f) : (p \o f)[i] = IF i <= Len(p) THEN p[i] ELSE f[i - Len(p)]
    BY ConcatProperties
  <2>2. PICK T : P \in Seq(T) /\ F \in Seq(T)
    BY <1>2, <1>3
  <2>3. U = P \o F
    BY <1>2, <1>3
  <2> QED
    BY <2>1, <2>2, <2>3
<1>7. Len(Loaded) + 1 \in 1..Len(U) /\ U[Len(Loaded) + 1] = x
  <2>1. PICK k : k = Len(Loaded) + 1
    OBVIOUS
  <2>2. k = Len(P) + rootIx /\ k \in 1..Len(P) + Len(F) /\ ~(k <= Len(P)) /\ k - Len(P) = rootIx
    <3>1. PICK n, m, l : n = Len(P) /\ m = Len(F) /\ l = Len(Loaded)
      OBVIOUS
    <3>2. n \in Nat /\ m \in Nat /\ rootIx \in 1..m /\ l = n + (rootIx - 1) /\ k = l + 1 /\ rootIx \in Nat
      BY <3>1, <2>1, <1>3, <1>5, <1>6, <1>t
    <3> QED
      BY <3>1, <3>2
  <2>3. U[k] = x
    BY <2>2, <1>3, <1>6
  <2> QED
    BY <2>1, <2>2, <2>3, <1>6
<1>8. Wanted[Len(Loaded) + 1] = x /\ Len(Loaded) < Len(Wanted)
  <2>1. Len(Wanted) \in Nat /\ Len(U) \in Nat /\ Len(Loaded) \in Nat
    BY <1>2, <1>5, <1>t
  <2>2. Len(U) <= Len(Wanted) /\ \A i \in 1..Len(U) : Wanted[i] = U[i]
    BY <1>2
  <2>3. Wanted[Len(Loaded) + 1] = x
    BY <2>2, <1>7, Zenon
  <2>4. Len(Loaded) < Len(Wanted)
    BY <2>1, <2>2, <1>7
  <2> QED
    BY <2>3, <2>4
<1>9. Loaded' = Append(Loaded, x)
  BY <1>1, CollectRootOrder DEF Loaded
<1>10. UNCHANGED <<Wanted, Readable, Outcome>> /\ Outcome = "running"
  BY <1>0, <1>t DEF Wanted, Readable, Outcome, CommandLine, FileSections, Running
<1> QED
  BY <1>8, <1>9, <1>10, Mapping

\* At the end of the command line, all of its sections are loaded.
LEMMA FinishIsSucceed ==
  ASSUME Inv, OrderInv, Finish
  PROVE  Loading!Succeed
<1>1. LoopFrame /\ status = "load" /\ status' = "done" /\ fileIx > Len(Filenames)
  BY EvaluatorSteps
<1>2. /\ disk \in FileSystems /\ fileIx - 1 = Len(Filenames) /\ DOMAIN Filenames = 1..Len(Filenames)
  BY <1>1, FilenamesAssumption DEF Inv, TypeOK
<1>3. Loaded = Wanted /\ Readable
  BY <1>1, <1>2, UpToFileBegins DEF Loaded, Wanted, Readable, OrderInv, ResultsInOrder
<1>4. Outcome = "running" /\ Outcome' = "done" /\ UNCHANGED <<Wanted, Readable, Loaded>>
  BY <1>1 DEF Outcome, Wanted, Readable, Loaded, LoopFrame, CommandLine, FileSections, Running
<1> QED
  BY <1>3, <1>4, Mapping

\* loadKokiFiles loads the sections of the command line's files, in order,
\* each once and none that is only imported, and succeeds only with all of
\* them: whatever the files import and however often.
THEOREM ImportsImplementLoader == Spec => LoadsInOrder
<1>1. Init => Loading!Init
  <2> SUFFICES ASSUME Init PROVE Loading!Init
    OBVIOUS
  <2>1. Loaded = <<>> /\ Outcome = "running"
    BY DEF Init, Loaded, SectionsOfModules, Outcome, Running
  <2> QED
    BY <2>1, Mapping
<1>2. Inv /\ OrderInv /\ [Next]_vars => [Loading!Next]_Loading!loaderVars
  <2> SUFFICES ASSUME Inv, OrderInv, [Next]_vars PROVE [Loading!Next]_Loading!loaderVars
    OBVIOUS
  <2>1. CASE LoadFile \/ Parsing \/ NextFile
    BY <2>1, ReaderSteps, QuietStep
  <2>2. CASE Evaluating
    <3>1. CASE results' = Append(results, roots[rootIx]) /\ CollectRoot
      BY <3>1, CollectIsLoadNext DEF Loading!Next
    <3>2. CASE LoopFrame /\ status = "eval" /\ status' \in {"eval"} \cup Failure
      BY <3>2, QuietStep DEF LoopFrame, Loaded, Running
    <3> QED
      BY <2>2, <3>1, <3>2, EvaluatorSteps DEF Evaluating
  <2>3. CASE Finish
    BY <2>3, FinishIsSucceed DEF Loading!Next
  <2>4. CASE UNCHANGED vars
    <3>1. UNCHANGED <<Wanted, Readable, Loaded, Outcome>>
      BY <2>4 DEF vars, parseVars, Wanted, Readable, Loaded, Outcome, CommandLine, FileSections
    <3> QED
      BY <3>1, Mapping
  <2> QED
    BY <2>1, <2>2, <2>3, <2>4 DEF Next
<1> QED
  BY <1>1, <1>2, Invariance, OrderInvariance, PTL DEF Spec, LoadsInOrder, Loading!Spec
=============================================================================
