----------------------------- MODULE LocalFiles -----------------------------
(***************************************************************************)
(* The path of an imported file: ResolveImportLocalPath joins the          *)
(* directory of the importing file and the path the import declaration     *)
(* gives.  A path is the sequence of its elements.                         *)
(***************************************************************************)
EXTENDS Sequences, SequencesExt

\* filepath.Join cleans the path it makes.
Clean(path) ==
  FoldLeft(LAMBDA done, e :
             CASE e = "." -> done
               [] e = ".." /\ done # <<>> /\ Last(done) # ".." -> Front(done)
               [] OTHER -> Append(done, e),
           <<>>, path)

ResolveImportLocalPath(rootPath, importPath) ==
  IF rootPath = <<>> THEN importPath ELSE Clean(Front(rootPath) \o importPath)
=============================================================================
