-------------------------------- MODULE Text --------------------------------
(***************************************************************************)
(* Strings and objects as the converters handle them.                      *)
(*                                                                         *)
(* A string is the sequence of its tokens: the separators the code splits  *)
(* it at (":", ",", "=", "/", ".", " ", "?", "|", "://") and the escape    *)
(* character "\\" are tokens, and what is between two of them is one token.*)
(* An object, or a Go struct, is a function from the names of its fields   *)
(* that are not empty to their values; an empty field is not written and   *)
(* is read as empty.                                                       *)
(***************************************************************************)
EXTENDS Integers, Sequences, FiniteSets, SequencesExt

CONSTANT Nil

Empty == <<>>
True == <<"true">>
False == <<"false">>

-----------------------------------------------------------------------------
Join(segments, sep) ==
  IF segments = <<>> THEN Empty
  ELSE FlattenSeq([i \in DOMAIN segments |-> IF i = 1 THEN segments[i] ELSE <<sep>> \o segments[i]])

AppendToLast(segments, token) == [segments EXCEPT ![Len(segments)] = Append(@, token)]

\* The segments that the positions in cuts separate: there is always one,
\* which may be empty.  segments[n] are those of the first n tokens.
SplitAt(s, cuts) ==
  LET segments[n \in 0..Len(s)] ==
        IF n = 0 THEN <<Empty>>
        ELSE IF n \in cuts THEN Append(segments[n - 1], Empty) ELSE AppendToLast(segments[n - 1], s[n])
  IN  segments[Len(s)]

\* strings.Split
Split(s, sep) == SplitAt(s, {i \in DOMAIN s : s[i] = sep})

\* strings.SplitN(s, sep, 2)
SplitInTwo(s, sep) ==
  IF sep \notin Range(s) THEN <<s>>
  ELSE LET i == CHOOSE i \in DOMAIN s : s[i] = sep /\ \A j \in 1..i - 1 : s[j] # sep
       IN  <<SubSeq(s, 1, i - 1), SubSeq(s, i + 1, Len(s))>>

\* A loop that skips the empty names.
NotEmpty(names) == FlattenSeq([i \in DOMAIN names |-> IF names[i] = Empty THEN <<>> ELSE <<names[i]>>])

\* sort.Strings: an order that depends on the names only.
Sorted(names) == SetToSeq(names)

-----------------------------------------------------------------------------
Get(s, name) == IF name \in DOMAIN s THEN s[name] ELSE Empty

Without(s, names) == Restrict(s, DOMAIN s \ names)

Put(s, name, value) ==
  IF value = Empty THEN Without(s, {name}) ELSE [n \in DOMAIN s \cup {name} |-> IF n = name THEN value ELSE s[n]]

\* The fields of s that are in names: a literal that copies them.
Copy(s, names) == Restrict(s, DOMAIN s \cap names)

\* The fields of s, and those of t that s does not have.
Over(s, t) == [n \in DOMAIN s \cup DOMAIN t |-> IF n \in DOMAIN s THEN s[n] ELSE t[n]]

\* The fields of s under the names a table gives them.
Renamed(s, table) ==
  [n \in {table[k] : k \in DOMAIN s \cap DOMAIN table} |-> s[CHOOSE k \in DOMAIN table : table[k] = n]]

\* A switch over the values of a field: the possible results, none if the
\* value is not one of the table's.
Translated(s, name, table) ==
  IF name \notin DOMAIN s THEN {s}
  ELSE {[s EXCEPT ![name] = <<table[value]>>] : value \in {v \in DOMAIN table : s[name] = <<v>>}}

\* Several switches, one for each field that has a table.
TranslatedAll(s, tables) ==
  LET switched == DOMAIN s \cap DOMAIN tables
  IN  IF \E name \in switched : \A v \in DOMAIN tables[name] : s[name] # <<v>> THEN {}
      ELSE {[name \in DOMAIN s |-> IF name \in switched THEN <<tables[name][s[name][1]]>> ELSE s[name]]}

\* A switch that ends in a default: the field is left out.
TranslatedOrNone(s, name, table) == IF Translated(s, name, table) = {} THEN Without(s, {name}) ELSE CHOOSE r \in Translated(s, name, table) : TRUE

Negated(s, name, negation) ==
  IF name \notin DOMAIN s THEN s
  ELSE Put(Without(s, {name}), negation, IF s[name] = True THEN False ELSE True)

\* A map built from a list of entries: the last one with a name counts.
LastOf(entries) ==
  [name \in {entries[i].name : i \in DOMAIN entries} |->
     LET i == CHOOSE i \in DOMAIN entries : entries[i].name = name /\ \A j \in DOMAIN entries : entries[j].name = name => j <= i
     IN  entries[i]]

\* One result for each member of a list or a map; none if one has none.
Results(Op(_), list) == {r \in [DOMAIN list -> UNION {Op(list[i]) : i \in DOMAIN list}] : \A i \in DOMAIN list : r[i] \in Op(list[i])}
=============================================================================
