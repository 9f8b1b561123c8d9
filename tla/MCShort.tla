------------------------------ MODULE MCShort ------------------------------
(***************************************************************************)
(* Module Short for two files and the standard input, with documents that  *)
(* fail in each of the steps.                                              *)
(***************************************************************************)
EXTENDS Short

MCCommands ==
  [args : {<<>>, <<"-">>, <<"x">>, <<"-", "-">>},
   filenames : {<<>>, <<"a">>, <<"a", "b">>, <<"b", "a", "b">>},
   kubeNative : BOOLEAN,
   output : {"YAML", "json", "xml"}]

MCToLower(format) == IF format = "YAML" THEN "yaml" ELSE format

\* Documents that are fine, unknown, misspelt, of a kind that is not
\* converted, and not serializable.
Texts == {<<>>, <<"good", "fine">>, <<"good", "unknown">>, <<"typo">>,
          <<"fine", "unsupported">>, <<"good", "opaque">>, Unreadable}

MCDisks == {[f \in {"a", "b", "stdin"} |-> IF f = "b" THEN g ELSE t] : t \in Texts, g \in Texts}

MCParses(syntax, d) == d # "unknown"
MCExtraneous(syntax, d) == d = "typo"
MCConverts(syntax, d) == d # "unsupported"
MCMarshals(obj) == obj.doc # "opaque"
=============================================================================
