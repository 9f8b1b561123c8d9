------------------------------ MODULE Imports ------------------------------
(***************************************************************************)
(* The module system of short: loadKokiFiles (cmd/short.go) parses every   *)
(* file named on the command line with all the files it imports            *)
(* (imports/imports.go) and evaluates every section of it                  *)
(* (imports/eval.go, imports/template_resolver.go).                        *)
(*                                                                         *)
(* Parsing and evaluation are recursive functions in the code.  Here their *)
(* call stacks are the variables pstack and estack, so that a step is one  *)
(* call or one return, the order in which the holes of a template are      *)
(* filled (map iteration order in Go) is a nondeterministic choice, and    *)
(* exhausting the Go stack is a state.                                     *)
(*                                                                         *)
(* A Module of the code is an element of the sequence mods, and a *Module  *)
(* is its index.  Templates and values are opaque: HolesOf, FillWith,      *)
(* FitsHole, AtPath and RawToTyped stand for packages template, jsonutil   *)
(* and parser, and module Template gives them a meaning.                   *)
(***************************************************************************)
EXTENDS Integers, Sequences, FiniteSets, SequencesExt

CONSTANTS
  Path,                     \* paths of files
  ImportPath,               \* paths as import declarations write them
  Name,                     \* names of params, imports and resource kinds
  NoName,                   \* the empty name
  NoDefault,                \* ParamDef.Default == nil
  Unreadable,               \* ReadFromPath returns an error
  FileSystems,              \* the possible contents of the disk
  Filenames,                \* the -f flags, in order
  ResolveImportPath(_, _),  \* EvalContext.ResolveImportPath
  RawToTyped(_),            \* EvalContext.RawToTyped succeeds
  HolesOf(_),               \* the holes of a template, records with a name and a path
  FillWith(_, _),           \* the template with its holes replaced
  FitsHole(_, _),           \* may the value stand in the hole?
  AtPath(_, _),             \* the part of a value at a path
  NotFound, OutOfRange,     \* AtPath returns an error, panics
  MaxDepth                  \* calls the Go stack has room for

(***************************************************************************)
(* A file is a sequence of sections, as the YAML decoder returns them.     *)
(* An import declaration that parseImport refuses has no target; one with  *)
(* two keys and no params has two.  A param is a string or a map with at   *)
(* most one "default" and any number of other keys.  Params of an import,  *)
(* and resources, are maps from names to templates.                        *)
(***************************************************************************)
IsImportDecl(d, p) ==
  /\ d.targets \subseteq [name : Name, path : ImportPath]
  /\ \A t \in d.targets : ResolveImportPath(p, t.path) \in Path

IsSection(s, p) ==
  /\ Len(s.imports) \in Nat
  /\ \A i \in 1..Len(s.imports) : IsImportDecl(s.imports[i], p)
  /\ Len(s.params) \in Nat
  /\ DOMAIN s.params = 1..Len(s.params)
  /\ \A i \in DOMAIN s.params : s.params[i].names \subseteq Name

ASSUME FilesAssumption ==
  \A fs \in FileSystems : \A p \in Path :
    fs[p] # Unreadable => Len(fs[p]) \in Nat /\ \A i \in 1..Len(fs[p]) : IsSection(fs[p][i], p)
ASSUME FilenamesAssumption == Filenames \in Seq(Path)
ASSUME NameAssumption == NoName \in Name
ASSUME DepthAssumption == MaxDepth \in Nat \ {0}

VARIABLES
  disk,          \* the files, fixed while the program runs
  status,        \* what the program is doing, or how it ended
  fileIx,        \* loop index over Filenames
  pstack,        \* calls of Parse that have not returned
  mods,          \* every Module allocated so far
  roots,         \* modules of the current file, and
  rootIx,        \* the loop index over them
  estack,        \* calls of EvaluateExport and EvaluateImport that have not returned
  params,        \* the params map a module is evaluated with
  exports,       \* Export.Raw of the modules with IsEvaluated
  applied,       \* Params of an import once its holes are filled
  impEvaluated,  \* imports with IsEvaluated, as <<module, index>>
  results        \* the modules loadKokiFiles has collected

parseVars == <<pstack, mods, roots>>
evalVars == <<estack, params, exports, applied, impEvaluated>>
vars == <<disk, status, fileIx, parseVars, rootIx, evalVars, results>>

Running == {"load", "parse", "eval"}
Ended == {"done", "error", "panic", "overflow"}

Put(f, k, v) == [x \in DOMAIN f \cup {k} |-> IF x = k THEN v ELSE f[x]]

\* The only entry of a map that has one.
OnlyEntry(m) == m[CHOOSE k \in DOMAIN m : TRUE]

Init ==
  /\ disk \in FileSystems
  /\ status = "load"
  /\ fileIx = 1
  /\ pstack = <<>>
  /\ mods = <<>>
  /\ roots = <<>>
  /\ rootIx = 1
  /\ estack = <<>>
  /\ params = <<>>
  /\ exports = <<>>
  /\ applied = <<>>
  /\ impEvaluated = {}
  /\ results = <<>>

-----------------------------------------------------------------------------
(***************************************************************************)
(* Parsing.  A frame is a call of Parse: the file, the modules made of its *)
(* first sections (modules[0..i-1]), the imports of section i parsed so    *)
(* far, and the name under which the caller imports the file.              *)
(*                                                                         *)
(* A Module is kept as the section it was made of and what parsing chose:  *)
(* its imports, each with the module it points to, and its params' names.  *)
(***************************************************************************)
Import == [name : Name, path : Path, mod : Nat]
Module == [path : Path, sec : Nat, imports : Seq(Import), names : Seq(Name)]
ParseFrame == [path : Path, modules : Seq(Nat), imports : Seq(Import), as : Name]

ReadFromPath(p) == disk[p]

\* Go has no bound but its stack on how deep Parse may call itself.
CallParse(p, name, stack) ==
  \/ /\ ReadFromPath(p) = Unreadable
     /\ status' = "error"
     /\ pstack' = stack
  \/ /\ ReadFromPath(p) # Unreadable
     /\ Len(stack) >= MaxDepth
     /\ status' = "overflow"
     /\ pstack' = stack
  \/ /\ ReadFromPath(p) # Unreadable
     /\ Len(stack) < MaxDepth
     /\ status' = "parse"
     /\ pstack' = Append(stack, [path |-> p, modules |-> <<>>, imports |-> <<>>, as |-> name])

LoadFile ==
  /\ status = "load"
  /\ fileIx <= Len(Filenames)
  /\ CallParse(Filenames[fileIx], NoName, <<>>)
  /\ UNCHANGED <<disk, fileIx, mods, roots, rootIx, evalVars, results>>

Caller == Last(pstack)
Sections == ReadFromPath(Caller.path)
InSection == Len(Caller.modules) < Len(Sections)
Current == Sections[Len(Caller.modules) + 1]
NextDecl == Current.imports[Len(Caller.imports) + 1]

\* parseImport up to the call of Parse: the keys are visited in map order,
\* so the last of two names wins.
ParseImport ==
  /\ status = "parse"
  /\ InSection
  /\ Len(Caller.imports) < Len(Current.imports)
  /\ \/ /\ NextDecl.targets = {} \/ \E t \in NextDecl.targets : t.name = NoName
        /\ status' = "error"
        /\ UNCHANGED pstack
     \/ \E t \in NextDecl.targets :
          /\ t.name # NoName
          /\ CallParse(ResolveImportPath(Caller.path, t.path), t.name, pstack)
  /\ UNCHANGED <<disk, fileIx, mods, roots, rootIx, evalVars, results>>

\* parseParamDef keeps the last key that is not "default".
ParamNames(objs) ==
  {c \in [DOMAIN objs -> Name] :
     \A i \in DOMAIN objs : c[i] \in IF objs[i].names = {} THEN {NoName} ELSE objs[i].names}

WellFormed(section) ==
  /\ \A i \in DOMAIN section.params : section.params[i].valid
  /\ \E k \in DOMAIN section.resources : DOMAIN section.resources = {k}

\* What is left of ParseComponent once the imports are parsed.
ParseComponent ==
  /\ status = "parse"
  /\ InSection
  /\ Len(Caller.imports) = Len(Current.imports)
  /\ \/ /\ ~WellFormed(Current)
        /\ status' = "error"
        /\ UNCHANGED <<pstack, mods>>
     \/ /\ WellFormed(Current)
        /\ \E names \in ParamNames(Current.params) :
             mods' = Append(mods, [path |-> Caller.path, sec |-> Len(Caller.modules) + 1,
                                   imports |-> Caller.imports, names |-> names])
        /\ pstack' = Append(Front(pstack),
                            [Caller EXCEPT !.modules = Append(@, Len(mods) + 1), !.imports = <<>>])
        /\ UNCHANGED status
  /\ UNCHANGED <<disk, fileIx, roots, rootIx, evalVars, results>>

\* A variant: files that were parsed before are not parsed again.
ImportedCached ==
  LET first == {m \in DOMAIN mods : mods[m].path = Caller.path /\ mods[m].sec = 1}
  IN  [name |-> Caller.as, path |-> Caller.path, mod |-> CHOOSE m \in first : \A n \in first : m <= n]

\* Parse returns to parseImport, which takes the first of the modules:
\* indexing the modules of a file that has no section is a panic.
Imported == [name |-> Caller.as, path |-> Caller.path, mod |-> Caller.modules[1]]

ReturnToImport ==
  /\ status = "parse"
  /\ ~InSection
  /\ Len(pstack) > 1
  /\ \/ /\ Caller.modules = <<>>
        /\ status' = "panic"
        /\ UNCHANGED pstack
     \/ /\ Caller.modules # <<>>
        /\ LET caller == Last(Front(pstack))
           IN  pstack' = Append(Front(Front(pstack)),
                                [caller EXCEPT !.imports = Append(@, Imported)])
        /\ UNCHANGED status
  /\ UNCHANGED <<disk, fileIx, mods, roots, rootIx, evalVars, results>>

\* A variant: the loop over the modules starts where the last one ended.
ReturnToLoadNoReset ==
  /\ status = "parse"
  /\ ~InSection
  /\ Len(pstack) = 1
  /\ status' = "eval"
  /\ roots' = Caller.modules
  /\ pstack' = <<>>
  /\ UNCHANGED <<disk, fileIx, mods, rootIx, evalVars, results>>

ReturnToLoad ==
  /\ status = "parse"
  /\ ~InSection
  /\ Len(pstack) = 1
  /\ status' = "eval"
  /\ roots' = Caller.modules
  /\ rootIx' = 1
  /\ pstack' = <<>>
  /\ UNCHANGED <<disk, fileIx, mods, evalVars, results>>

-----------------------------------------------------------------------------
(***************************************************************************)
(* Evaluation.  A frame is a call of EvaluateExport for module mod         *)
(* (imp = 0), or of EvaluateImport for the import imp of module mod; env   *)
(* holds the values of the holes filled so far.  An import frame stays,    *)
(* with applied set, while its module is evaluated.                        *)
(***************************************************************************)
Frame(m, i) == [mod |-> m, imp |-> i, applied |-> FALSE, env |-> <<>>]

Top == Last(estack)

\* The Module an import points to.
Child(m, i) == mods[m].imports[i].mod

\* The parsed Module: its Export.Raw, the Params of an import, its ParamDefs.
\* A later definition of a param replaces an earlier one.
SectionOf(m) == disk[mods[m].path][mods[m].sec]
Raw(m) == SectionOf(m).resources
DeclaredParams(m, i) == SectionOf(m).imports[i].params
ParamDefs(m) ==
  LET objs  == SectionOf(m).params
      names == mods[m].names
  IN  [n \in {names[i] : i \in DOMAIN objs} |->
         objs[CHOOSE i \in DOMAIN objs :
                names[i] = n /\ \A j \in DOMAIN objs : names[j] = n => j <= i].default]

\* imprt.Params: what the file says until they are applied.
ImportParams(m, i) ==
  IF <<m, i>> \in DOMAIN applied THEN applied[<<m, i>>] ELSE DeclaredParams(m, i)

TemplateOf(f) == IF f.imp = 0 THEN Raw(f.mod) ELSE ImportParams(f.mod, f.imp)
MapHoles(t) == UNION {HolesOf(t[k]) : k \in DOMAIN t}
ReplaceMap(t, env) == [k \in DOMAIN t |-> FillWith(t[k], env)]

ToFill(f) == IF f.applied THEN {} ELSE MapHoles(TemplateOf(f)) \ DOMAIN f.env

\* A variant: defaults are not looked at.
WithoutDefaults(m, args) == args

\* Call of EvaluateModule: defaults complete the params map it is given.
WithDefaults(m, args) ==
  LET defs == ParamDefs(m)
  IN  [n \in DOMAIN args \cup {d \in DOMAIN defs : defs[d] # NoDefault} |->
         IF n \in DOMAIN args THEN args[n] ELSE defs[n]]

CallEvaluate(frame, stack) ==
  IF Len(stack) >= MaxDepth
  THEN status' = "overflow" /\ estack' = stack
  ELSE estack' = Append(stack, frame) /\ UNCHANGED status

EvaluateRoot ==
  /\ status = "eval"
  /\ estack = <<>>
  /\ rootIx <= Len(roots)
  /\ roots[rootIx] \notin DOMAIN exports
  /\ params' = Put(params, roots[rootIx], WithDefaults(roots[rootIx], <<>>))
  /\ CallEvaluate(Frame(roots[rootIx], 0), estack)
  /\ UNCHANGED <<disk, fileIx, parseVars, rootIx, exports, applied, impEvaluated, results>>

\* ResolverForModule takes the first import of m that has the name.
Named(m, n) == {i \in DOMAIN mods[m].imports : mods[m].imports[i].name = n}
\* A variant: the last import that has the name.
LastNamed(m, n, i) == i \in Named(m, n) /\ \A j \in Named(m, n) : j <= i

FirstNamed(m, n, i) == i \in Named(m, n) /\ \A j \in Named(m, n) : i <= j

\* The value is put in the hole, or the hole cannot take it.
FillHole(h, val) ==
  \/ /\ val = OutOfRange
     /\ status' = "panic"
     /\ UNCHANGED estack
  \/ /\ val # OutOfRange
     /\ val = NotFound \/ ~FitsHole(h, val)
     /\ status' = "error"
     /\ UNCHANGED estack
  \/ /\ val \notin {OutOfRange, NotFound}
     /\ FitsHole(h, val)
     /\ estack' = Append(Front(estack), [Top EXCEPT !.env = Put(@, h, val)])
     /\ UNCHANGED status

\* A variant: imports come first.
IsParamOnly(h) == h.name \in DOMAIN params[Top.mod] /\ Named(Top.mod, h.name) = {}

\* Params come first, declared or not.
IsParam(h) == h.name \in DOMAIN params[Top.mod]

ResolveParam(h) ==
  /\ IsParam(h)
  /\ FillHole(h, AtPath(params[Top.mod][h.name], h.path))

\* EvaluateImport returns at once when the import IsEvaluated.
ResolveImport(h) ==
  /\ ~IsParam(h)
  /\ \E i \in DOMAIN mods[Top.mod].imports :
       /\ FirstNamed(Top.mod, h.name, i)
       /\ IF <<Top.mod, i>> \in impEvaluated
          THEN FillHole(h, AtPath(OnlyEntry(exports[Child(Top.mod, i)]), h.path))
          ELSE CallEvaluate(Frame(Top.mod, i), estack)

ResolveUnknown(h) ==
  /\ ~IsParam(h)
  /\ Named(Top.mod, h.name) = {}
  /\ status' = "error"
  /\ UNCHANGED estack

Resolve ==
  /\ status = "eval"
  /\ estack # <<>>
  /\ \E h \in ToFill(Top) : ResolveParam(h) \/ ResolveImport(h) \/ ResolveUnknown(h)
  /\ UNCHANGED <<disk, fileIx, parseVars, rootIx, params, exports, applied, impEvaluated, results>>

\* A variant: the filled params are passed on and not kept.
ForgetParams(args) == UNCHANGED applied

SaveParams(args) == applied' = Put(applied, <<Top.mod, Top.imp>>, args)

\* EvaluateImport once the holes of its Params are filled: the map it passes
\* to EvaluateModule is imprt.Params, which the defaults are added to.
ApplyParams ==
  /\ status = "eval"
  /\ estack # <<>>
  /\ Top.imp # 0
  /\ ~Top.applied
  /\ ToFill(Top) = {}
  /\ LET m    == Child(Top.mod, Top.imp)
         args == WithDefaults(m, ReplaceMap(TemplateOf(Top), Top.env))
         now  == Append(Front(estack), [Top EXCEPT !.applied = TRUE])
     IN  IF m \in DOMAIN exports
         THEN /\ SaveParams(ReplaceMap(TemplateOf(Top), Top.env))
              /\ estack' = now
              /\ UNCHANGED <<status, params>>
         ELSE /\ SaveParams(args)
              /\ params' = Put(params, m, args)
              /\ CallEvaluate(Frame(m, 0), now)
  /\ UNCHANGED <<disk, fileIx, parseVars, rootIx, exports, impEvaluated, results>>

\* EvaluateExport once the holes of Raw are filled.  A RawToTyped error is
\* kept in TypedResult, which only loadKokiFiles looks at.
EvaluateExport ==
  /\ status = "eval"
  /\ estack # <<>>
  /\ Top.imp = 0
  /\ ToFill(Top) = {}
  /\ exports' = Put(exports, Top.mod, ReplaceMap(TemplateOf(Top), Top.env))
  /\ estack' = Front(estack)
  /\ UNCHANGED <<disk, status, fileIx, parseVars, rootIx, params, applied, impEvaluated, results>>

\* A variant: the import is not marked as evaluated.
ReturnUnmarked ==
  /\ status = "eval"
  /\ estack # <<>>
  /\ Top.imp # 0
  /\ Top.applied
  /\ estack' = Front(estack)
  /\ UNCHANGED <<disk, status, fileIx, parseVars, rootIx, params, exports, applied, impEvaluated, results>>

ReturnFromImport ==
  /\ status = "eval"
  /\ estack # <<>>
  /\ Top.imp # 0
  /\ Top.applied
  /\ impEvaluated' = impEvaluated \cup {<<Top.mod, Top.imp>>}
  /\ estack' = Front(estack)
  /\ UNCHANGED <<disk, status, fileIx, parseVars, rootIx, params, exports, applied, results>>

\* loadKokiFiles keeps the module, unless its TypedResult is an error.
CollectRoot ==
  /\ status = "eval"
  /\ estack = <<>>
  /\ rootIx <= Len(roots)
  /\ roots[rootIx] \in DOMAIN exports
  /\ IF RawToTyped(exports[roots[rootIx]])
     THEN /\ results' = Append(results, roots[rootIx])
          /\ rootIx' = rootIx + 1
          /\ UNCHANGED status
     ELSE /\ status' = "error"
          /\ UNCHANGED <<results, rootIx>>
  /\ UNCHANGED <<disk, fileIx, parseVars, evalVars>>

NextFile ==
  /\ status = "eval"
  /\ estack = <<>>
  /\ rootIx > Len(roots)
  /\ status' = "load"
  /\ fileIx' = fileIx + 1
  /\ UNCHANGED <<disk, parseVars, rootIx, evalVars, results>>

Finish ==
  /\ status = "load"
  /\ fileIx > Len(Filenames)
  /\ status' = "done"
  /\ UNCHANGED <<disk, fileIx, parseVars, rootIx, evalVars, results>>

-----------------------------------------------------------------------------
Parsing == ParseImport \/ ParseComponent \/ ReturnToImport \/ ReturnToLoad
Evaluating ==
  EvaluateRoot \/ Resolve \/ ApplyParams \/ EvaluateExport \/ ReturnFromImport \/ CollectRoot

Next == LoadFile \/ Parsing \/ Evaluating \/ NextFile \/ Finish

\* One goroutine: as long as it has a step to take, it takes it.
Spec == Init /\ [][Next]_vars /\ WF_vars(Next)

-----------------------------------------------------------------------------
(***************************************************************************)
(* Properties                                                              *)
(***************************************************************************)
FrameOK(f) ==
  /\ DOMAIN f = {"mod", "imp", "applied", "env"}
  /\ f.mod \in DOMAIN mods
  /\ f.imp \in 0..Len(mods[f.mod].imports)
  /\ f.applied \in BOOLEAN
  /\ f.mod \in DOMAIN params

\* Type correctness: every pointer leads to a module that has been parsed,
\* loop indexes stay within one of their ranges, and the flags and the maps
\* of the evaluator are about modules and imports that exist.
TypeOK ==
  /\ disk \in FileSystems
  /\ status \in Running \cup Ended
  /\ fileIx \in 1..Len(Filenames) + 1
  /\ pstack \in Seq(ParseFrame)
  /\ mods \in Seq(Module)
  /\ \A m \in DOMAIN mods : \A i \in DOMAIN mods[m].imports : Child(m, i) \in DOMAIN mods
  /\ roots \in Seq(DOMAIN mods)
  /\ rootIx \in 1..Len(roots) + 1
  /\ estack \in Seq({estack[d] : d \in DOMAIN estack})
  /\ \A d \in DOMAIN estack : FrameOK(estack[d])
  /\ DOMAIN params \subseteq DOMAIN mods
  /\ DOMAIN exports \subseteq DOMAIN mods
  /\ impEvaluated \subseteq DOMAIN applied
  /\ results \in Seq(DOMAIN mods)

\* A module belongs to one import: Parse reads a file anew for every import
\* of it, so that no two imports, and no import and command line, share the
\* Module that evaluation writes to; and a module only points to modules
\* completed before it.
OwnedOnce ==
  /\ \A m, n \in DOMAIN mods :
       \A i \in DOMAIN mods[m].imports, j \in DOMAIN mods[n].imports :
         Child(m, i) = Child(n, j) => m = n /\ i = j
  /\ \A m \in DOMAIN mods : \A i \in DOMAIN mods[m].imports :
       Child(m, i) < m /\ \A r \in DOMAIN roots : Child(m, i) # roots[r]

\* Two imports of one file never see each other's params: what an evaluated
\* import refers to was evaluated with the params of this import.
Isolated ==
  \A s \in impEvaluated :
    /\ Child(s[1], s[2]) \in DOMAIN exports
    /\ params[Child(s[1], s[2])] = applied[s]

\* Evaluation is done once: neither the export of a module that IsEvaluated
\* nor the Params of an import that have been applied are replaced later,
\* however often and in whatever order the module is referred to.
EvaluatedIsFinal ==
  [][/\ \A m \in DOMAIN exports : m \in DOMAIN exports' /\ exports'[m] = exports[m]
     /\ \A s \in DOMAIN applied : s \in DOMAIN applied' /\ applied'[s] = applied[s]]_vars

\* Import i needs import j: a hole in its params refers to j.
Needs(m, i, j) ==
  \E h \in MapHoles(DeclaredParams(m, i)) :
    h.name \notin DOMAIN params[m] /\ FirstNamed(m, h.name, j)

\* A file is parsed inside itself, or one of its modules is evaluated
\* inside another one.
ImportCycle ==
  \/ \E d, e \in DOMAIN pstack : d < e /\ pstack[d].path = pstack[e].path
  \/ \E d, e \in DOMAIN estack :
       estack[d].mod # estack[e].mod /\ mods[estack[d].mod].path = mods[estack[e].mod].path

ParamCycle ==
  \E d \in DOMAIN estack : \E C \in SUBSET DOMAIN mods[estack[d].mod].imports :
    C # {} /\ \A i \in C : \E j \in C : Needs(estack[d].mod, i, j)

\* The recursion of Parse, EvaluateImport and EvaluateModule, which has no
\* test for cycles, runs out of stack only if files import each other in a
\* cycle or params of imports need each other in one.
OverflowOnlyOnCycle == status = "overflow" => ImportCycle \/ ParamCycle

\* The sections of a file that can be read, as the abstract loader sees them.
SectionsOf(p) == IF disk[p] = Unreadable THEN <<>> ELSE [s \in 1..Len(disk[p]) |-> <<p, s>>]

Loading ==
  INSTANCE Loader
    WITH wanted   <- FlattenSeq([f \in DOMAIN Filenames |-> SectionsOf(Filenames[f])]),
         readable <- \A f \in DOMAIN Filenames : disk[Filenames[f]] # Unreadable,
         loaded   <- [r \in DOMAIN results |-> <<mods[results[r]].path, mods[results[r]].sec>>],
         outcome  <- IF status \in Running THEN "running"
                     ELSE IF status = "done" THEN "done" ELSE "failed"

\* loadKokiFiles loads the sections of the command line's files, in order,
\* each once and none that is only imported.
LoadsInOrder == Loading!Spec

\* The program ends, whatever the files are: the calls that are open, and
\* the loops over files, sections and holes, come to an end.
Termination == <>(status \in Ended)
=============================================================================
