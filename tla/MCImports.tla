------------------------------ MODULE MCImports ------------------------------
(***************************************************************************)
(* Module Imports over small file systems: a file main that imports lib    *)
(* and aux, and what the three may contain.  The value every module must   *)
(* get is also defined without stacks, flags or order of evaluation        *)
(* (Value, below), and the evaluator is compared with it.                  *)
(***************************************************************************)
EXTENDS Imports, LocalFiles

T == INSTANCE Template WITH Err <- NotFound, Panic <- OutOfRange

MCHoles(t) == T!Holes(t)
MCFill(t, env) == T!Fill(t, env)
MCFits(h, val) == T!Fits(h, val)
MCAtPathIn(val, path) == T!AtPathIn(val, path)

\* ParseKokiNativeObject, for what its callers see of it: the kind must be a
\* known one, and its body a map.
MCRawToTyped(raw) == "pod" \in DOMAIN raw /\ raw["pod"].t = "map"

-----------------------------------------------------------------------------
Main == <<"main">>
Lib == <<"d", "lib">>
Aux == <<"d", "aux">>
MCPath == {Main, Lib, Aux}
MCImportPath == {<<".", "d", "lib">>, <<"d", "aux">>, <<"aux">>, <<"..", "main">>, <<"lib">>}
MCName == {"", "a", "b", "c", "x", "y", "z", "pod", "bogus"}
MCFilenames == <<Main, Aux>>

S(text) == T!Str(<<T!Lit(text)>>)
V(name) == T!Str(<<T!Hole(name, <<>>)>>)
At(name, key) == T!Str(<<T!Hole(name, <<key>>)>>)
Spread(name, path) == T!Str(<<T!Dots(name, path)>>)
Within(name, path) == T!Str(<<T!Lit("pre-"), T!Hole(name, path)>>)

None == [n \in {} |-> 0]
Arg(n, v) == [k \in {n} |-> v]
Imp(n, path, args) == [targets |-> {[name |-> n, path |-> path]}, params |-> args]
Par(n, default) == [valid |-> TRUE, names |-> {n}, default |-> default]
Pod(body) == [k \in {"pod"} |-> body]
Sec(imps, pars, res) == [imports |-> imps, params |-> pars, resources |-> res]

ToLib == <<".", "d", "lib">>
ToAux == <<"d", "aux">>
TwoLibs(p, q) == <<Imp("a", ToLib, p), Imp("b", ToLib, q)>>
Body(k, n) == T!Map([e \in {"k", "n"} |-> IF e = "k" THEN k ELSE n])

\* The file main: the ways in which it can use its imports.
MainSections == {
  \* the params of b are computed from a, and both are used
  Sec(TwoLibs(Arg("x", S("1")), Arg("x", At("a", "n"))), <<>>, Pod(Body(V("a"), At("b", "k")))),
  \* two imports of one file, with different params
  Sec(TwoLibs(Arg("x", S("1")), Arg("x", T!Num(2))), <<>>, Pod(Body(At("a", "k"), Within("b", <<"k">>)))),
  \* the params of a and b need each other; those of a need a
  Sec(TwoLibs(Arg("x", V("b")), Arg("x", V("a"))), <<>>, Pod(Body(V("a"), S("1")))),
  Sec(<<Imp("a", ToLib, Arg("x", V("a")))>>, <<>>, Pod(V("a"))),
  \* the same, but a param hides the import
  Sec(<<Imp("a", ToLib, Arg("x", V("a"))), Imp("b", ToLib, Arg("x", V("a")))>>,
      <<Par("a", S("1"))>>, Pod(Body(V("b"), V("a")))),
  \* b cannot be evaluated, but is not used
  Sec(TwoLibs(Arg("x", S("1")), Arg("x", V("c"))), <<>>, Pod(V("a"))),
  \* b is not used, and its name is taken by a
  Sec(<<Imp("a", ToLib, None), Imp("a", ToAux, None)>>, <<>>, Pod(Body(V("a"), V("a")))),
  \* lists: spread over a list, an index out of range, a negative index
  Sec(<<Imp("a", ToLib, Arg("x", T!List(<<S("1"), S("2")>>)))>>, <<>>,
      Pod(Body(T!List(<<Spread("a", <<"k">>), S("3")>>), T!Str(<<T!Hole("a", <<"k", "1">>)>>)))),
  Sec(<<Imp("a", ToLib, Arg("x", T!List(<<S("1")>>)))>>, <<>>,
      Pod(Body(T!Str(<<T!Hole("a", <<"k", "1">>)>>), Spread("a", <<"k">>)))),
  Sec(<<Imp("a", ToLib, Arg("x", T!List(<<S("1")>>)))>>, <<>>, Pod(T!Str(<<T!Hole("a", <<"k", "-1">>)>>))),
  \* params that lib does not declare
  Sec(<<Imp("a", ToLib, [n \in {"c", "z"} |-> IF n = "c" THEN S("1") ELSE At("c", "k")]), Imp("c", ToAux, None)>>,
      <<>>, Pod(Body(V("a"), Within("a", <<"n">>)))),
  \* declarations with two names, with none, with an empty one; two resources
  Sec(<<[targets |-> {[name |-> "a", path |-> ToLib], [name |-> "b", path |-> ToAux]}, params |-> None]>>,
      <<>>, Pod(V("b"))),
  Sec(<<Imp("b", ToAux, None), [targets |-> {}, params |-> None]>>, <<>>, Pod(V("b"))),
  Sec(<<[targets |-> {[name |-> "", path |-> ToLib], [name |-> "b", path |-> ToAux]}, params |-> None]>>,
      <<>>, Pod(V("b"))),
  Sec(<<>>, <<>>, [k \in {"pod", "bogus"} |-> S("1")]),
  \* a root with a param that the default of an import seems to refer to
  Sec(<<Imp("a", ToLib, None)>>, <<Par("x", S("1"))>>, Pod(Body(V("a"), Within("a", <<"n">>)))),
  \* a root with params, of its own and undeclared
  Sec(<<>>, <<Par("x", S("1")), Par("x", NoDefault), Par("y", S("2"))>>, Pod(Body(V("y"), V("x"))))}

\* The file lib.
LibFiles == {
  <<Sec(<<>>, <<Par("x", NoDefault)>>, Pod(Body(V("x"), T!Num(3))))>>,
  <<Sec(<<>>, <<Par("x", S("d"))>>, Pod(Body(V("x"), T!Num(3)))), Sec(<<>>, <<>>, Pod(V("nope")))>>,
  \* a default that looks like a template
  <<Sec(<<>>, <<Par("y", V("x"))>>, [k \in {"bogus"} |-> Body(V("y"), S("4"))])>>,
  \* a param that is not used
  <<Sec(<<>>, <<Par("y", NoDefault)>>, Pod(Body(S("8"), S("4"))))>>,
  \* which of the two keys is the name?
  <<Sec(<<>>, <<[valid |-> TRUE, names |-> {"x", "y"}, default |-> S("d")]>>, Pod(Body(V("y"), S("4"))))>>,
  <<Sec(<<>>, <<[valid |-> TRUE, names |-> {}, default |-> S("d")]>>, Pod(Body(V(""), S("4"))))>>,
  <<Sec(<<Imp("c", <<"aux">>, Arg("z", V("x")))>>, <<Par("x", S("d"))>>, Pod(Body(At("c", "k"), V("c"))))>>,
  <<Sec(<<Imp("c", <<"..", "main">>, None)>>, <<>>, Pod(V("c")))>>,
  <<Sec(<<>>, <<[valid |-> FALSE, names |-> {}, default |-> NoDefault]>>, Pod(S("1")))>>,
  <<>>, Unreadable}

\* The file aux.
AuxFiles == {
  <<Sec(<<>>, <<Par("z", S("e"))>>, Pod(Body(V("z"), S("5"))))>>,
  <<Sec(<<>>, <<>>, Pod(Body(S("6"), S("5")))), Sec(<<>>, <<>>, Pod(Body(S("7"), S("5"))))>>,
  <<Sec(<<Imp("c", <<"lib">>, None)>>, <<>>, Pod(Body(V("c"), S("5"))))>>}

MCFileSystems ==
  {[p \in MCPath |-> CASE p = Main -> <<m>> [] p = Lib -> l [] p = Aux -> a] :
     m \in MainSections, l \in LibFiles, a \in AuxFiles}

-----------------------------------------------------------------------------
(***************************************************************************)
(* What evaluation must compute: the value of a module for given params is *)
(* its Raw with every hole replaced by the param of its name, or else by   *)
(* the value of the import of its name; there is none if a hole cannot be  *)
(* replaced.  Depth bounds the definition where it is circular.            *)
(***************************************************************************)
Complete(m, args) ==
  LET missing == {n \in DOMAIN ParamDefs(m) \ DOMAIN args : ParamDefs(m)[n] # NoDefault}
  IN  [n \in DOMAIN args \cup missing |-> IF n \in missing THEN ParamDefs(m)[n] ELSE args[n]]

Idents(t) == {[name |-> h.name, path |-> h.path] : h \in MapHoles(t)}

RECURSIVE Value(_, _, _), Lookup(_, _, _, _)
Value(m, args, depth) ==
  IF depth = 0 THEN NotFound
  ELSE T!ReplaceMap(Raw(m), [id \in Idents(Raw(m)) |-> Lookup(m, args, id, depth - 1)])

\* The value of the i-th import of m.
ImportValue(m, args, i, depth) ==
  LET given == T!ReplaceMap(DeclaredParams(m, i),
                            [id \in Idents(DeclaredParams(m, i)) |-> Lookup(m, args, id, depth - 1)])
  IN  IF depth = 0 \/ given = NotFound THEN NotFound
      ELSE Value(Child(m, i), Complete(Child(m, i), given.entries), depth - 1)

Lookup(m, args, id, depth) ==
  LET named == {i \in DOMAIN mods[m].imports : mods[m].imports[i].name = id.name}
      first == CHOOSE i \in named : \A j \in named : i <= j
      val   == IF id.name \in DOMAIN args THEN T!AtPathIn(args[id.name], id.path)
               ELSE IF named = {} \/ ImportValue(m, args, first, depth) = NotFound THEN NotFound
               ELSE T!AtPathIn(OnlyEntry(ImportValue(m, args, first, depth).entries), id.path)
  IN  IF val = OutOfRange THEN NotFound ELSE val

RootValue(m) == Value(m, Complete(m, <<>>), MaxDepth)

\* Whatever the order in which holes are filled, an evaluated root has the
\* value its files give it, and a root that has none is never collected.
MatchesReference ==
  \A r \in DOMAIN roots :
    roots[r] \in DOMAIN exports =>
      RootValue(roots[r]) # NotFound /\ exports[roots[r]] = RootValue(roots[r]).entries

\* Evaluation fails only on a root that has no value, or one whose value
\* RawToTyped refuses: an import that is not used, or not used by the root,
\* cannot make it fail.
FailsOnlyWithCause ==
  (status \in {"error", "panic", "overflow"} /\ pstack = <<>> /\ roots # <<>> /\ rootIx <= Len(roots)) =>
    \/ RootValue(roots[rootIx]) = NotFound
    \/ ~RawToTyped(RootValue(roots[rootIx]).entries)
=============================================================================
