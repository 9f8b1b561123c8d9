---------------------------- MODULE ShortProofs ----------------------------
(***************************************************************************)
(* Proofs about module Short: short prints everything or nothing, and it   *)
(* fails when, and only when, something is wrong with what it is given.    *)
(***************************************************************************)
EXTENDS Short, SequenceFacts, FiniteSetTheorems

(***************************************************************************)
(* The definitions of module Short that depend on the command and the      *)
(* files only, which do not change while the program runs, as operators on *)
(* a command c and on files d.                                             *)
(***************************************************************************)
FilesOf(c) == IF c.args = <<"-">> THEN <<Stdin>> ELSE c.filenames
SyntaxOf(c) == IF c.kubeNative THEN "koki" ELSE "kube"
SeparatorOf(c) == IF ToLower(c.output) = "yaml" THEN "---" ELSE "newline"
UsesImports(c) == c.kubeNative /\ c.args # <<"-">>
DocsIn(d, f) == IF d[f] = Unreadable THEN <<>> ELSE d[f]
DocsOf(d, files) == FlattenSeq([i \in DOMAIN files |-> DocsIn(d, files[i])])
ResultsOf(c, docs) == [i \in DOMAIN docs |-> [doc |-> docs[i], from |-> SyntaxOf(c)]]
FramedBy(sep, objs) == [i \in 1..2 * Len(objs) - 1 |-> IF i % 2 = 1 THEN objs[(i + 1) \div 2] ELSE sep]
Accepted(c, x) == ~Extraneous(SyntaxOf(c), x) /\ Converts(SyntaxOf(c), x)

\* Every document that some command can meet, and every result.
AllDocs == UNION {UNION {Range(DocsIn(d, f)) : f \in DOMAIN d} : d \in Disks}
AllResults == [doc : AllDocs, from : {"koki", "kube"}]

\* They are what they should be.
LEMMA Renamings ==
  /\ ToRead = FilesOf(cmd)
  /\ From = SyntaxOf(cmd)
  /\ Separator = SeparatorOf(cmd)
  /\ UsesImports(cmd) <=> cmd.kubeNative /\ ~UseStdin
  /\ Wanted = DocsOf(disk, cmd.filenames)
  /\ \A x : Convertible(x) <=> Accepted(cmd, x)
  /\ \A x : Converted(x) = [doc |-> x, from |-> SyntaxOf(cmd)]
  /\ \A docs : Results(docs) = ResultsOf(cmd, docs)
  /\ \A objs : Framed(objs) = FramedBy(SeparatorOf(cmd), objs)
BY DEF ToRead, UseStdin, FilesOf, From, SyntaxOf, Separator, SeparatorOf, UsesImports, Wanted, SectionsOf,
       DocsOf, DocsIn, Convertible, Accepted, Converted, Results, ResultsOf, Framed, FramedBy

-----------------------------------------------------------------------------
(***************************************************************************)
(* Types.                                                                  *)
(***************************************************************************)
\* The documents of a file are a sequence of documents.
LEMMA DocsInType ==
  ASSUME NEW d \in Disks, NEW f \in DOMAIN d
  PROVE  DocsIn(d, f) \in Seq(AllDocs)
<1>1. DocsIn(d, f) \in Seq(Range(DocsIn(d, f)))
  <2>1. CASE d[f] = Unreadable
    BY <2>1, EmptySeq DEF DocsIn
  <2>2. CASE d[f] # Unreadable
    BY <2>2, DisksAssumption DEF DocsIn
  <2> QED BY <2>1, <2>2
<1>2. Range(DocsIn(d, f)) \subseteq AllDocs
  BY DEF AllDocs
<1> QED BY <1>1, <1>2, SeqMonotonic, Zenon

\* The files that are read exist, and are a sequence.
LEMMA FilesOfType ==
  ASSUME NEW c \in Commands, NEW d \in Disks
  PROVE  FilesOf(c) \in Seq(DOMAIN d) /\ c.filenames \in Seq(DOMAIN d)
<1>1. c.filenames \in Seq(DOMAIN d)
  BY CommandsAssumption
<1>2. Stdin \in DOMAIN d
  BY DisksAssumption
<1>3. <<Stdin>> \in Seq(DOMAIN d)
  BY <1>2
<1> QED BY <1>1, <1>3 DEF FilesOf

\* The documents of several files, before they are put together.
LEMMA DocsByFile ==
  ASSUME NEW d \in Disks, NEW files \in Seq(DOMAIN d), NEW s, s = [i \in DOMAIN files |-> DocsIn(d, files[i])]
  PROVE  /\ s \in Seq(Seq(AllDocs))
         /\ Len(s) = Len(files)
         /\ \A i \in 1..Len(files) : s[i] = DocsIn(d, files[i])
<1>1. DOMAIN files = 1..Len(files) /\ Len(files) \in Nat
  OBVIOUS
<1>2. \A i \in 1..Len(files) : DocsIn(d, files[i]) \in Seq(AllDocs)
  BY DocsInType
<1>3. s \in [1..Len(files) -> Seq(AllDocs)]
  BY <1>1, <1>2, Zenon
<1>4. \A i \in 1..Len(files) : s[i] = DocsIn(d, files[i])
  BY <1>1, Zenon
<1>5. s \in Seq(Seq(AllDocs)) /\ Len(s) = Len(files)
  <2>1. ASSUME NEW n \in Nat, NEW T, NEW u \in [1..n -> T] PROVE u \in Seq(T) /\ Len(u) = n
    OBVIOUS
  <2> QED BY <1>1, <1>3, <2>1
<1> QED BY <1>4, <1>5, Zenon

\* They are a sequence of documents, each from one of the files.
LEMMA DocsOfType ==
  ASSUME NEW d \in Disks, NEW files \in Seq(DOMAIN d)
  PROVE  /\ DocsOf(d, files) \in Seq(AllDocs)
         /\ \A x : x \in Range(DocsOf(d, files)) <=> \E f \in Range(files) : x \in Range(DocsIn(d, f))
<1>1. PICK s : s = [i \in DOMAIN files |-> DocsIn(d, files[i])]
  OBVIOUS
<1>2. /\ s \in Seq(Seq(AllDocs))
      /\ Len(s) = Len(files)
      /\ \A i \in 1..Len(files) : s[i] = DocsIn(d, files[i])
  BY <1>1, DocsByFile, ZenonT(40)
<1>3. DocsOf(d, files) = FlattenSeq(s)
  BY <1>1 DEF DocsOf
<1>4. DocsOf(d, files) \in Seq(AllDocs)
  BY <1>2, <1>3, FlattenSeqType, Zenon
<1>5. \A x : x \in Range(FlattenSeq(s)) <=> \E i \in 1..Len(s) : x \in Range(s[i])
  BY <1>2, FlattenSeqRange, Zenon
<1>6. DOMAIN files = 1..Len(files)
  OBVIOUS
<1>7. ASSUME NEW x PROVE x \in Range(DocsOf(d, files)) <=> \E f \in Range(files) : x \in Range(DocsIn(d, f))
  <2>1. x \in Range(DocsOf(d, files)) <=> \E i \in 1..Len(files) : x \in Range(DocsIn(d, files[i]))
    BY <1>2, <1>3, <1>5, Zenon
  <2>2. (\E i \in 1..Len(files) : x \in Range(DocsIn(d, files[i]))) <=> \E f \in Range(files) : x \in Range(DocsIn(d, f))
    BY <1>6 DEF Range
  <2> QED BY <2>1, <2>2
<1> QED BY <1>4, <1>7, Zenon

\* One more file is read.
LEMMA DocsOfAppend ==
  ASSUME NEW d \in Disks, NEW files \in Seq(DOMAIN d), NEW f \in DOMAIN d
  PROVE  DocsOf(d, Append(files, f)) = DocsOf(d, files) \o DocsIn(d, f)
<1>1. PICK more : more = Append(files, f)
  OBVIOUS
<1>2. /\ more \in Seq(DOMAIN d)
      /\ Len(more) = Len(files) + 1
      /\ Len(files) \in Nat
      /\ \A i \in 1..Len(files) : more[i] = files[i]
      /\ more[Len(files) + 1] = f
  BY <1>1
<1>3. PICK s : s = [i \in DOMAIN files |-> DocsIn(d, files[i])]
  OBVIOUS
<1>4. PICK t : t = [i \in DOMAIN more |-> DocsIn(d, more[i])]
  OBVIOUS
<1>5. /\ s \in Seq(Seq(AllDocs))
      /\ Len(s) = Len(files)
      /\ \A i \in 1..Len(files) : s[i] = DocsIn(d, files[i])
  BY <1>3, DocsByFile, ZenonT(40)
<1>6. /\ t \in Seq(Seq(AllDocs))
      /\ Len(t) = Len(more)
      /\ \A i \in 1..Len(more) : t[i] = DocsIn(d, more[i])
  BY <1>2, <1>4, DocsByFile, ZenonT(40)
<1>7. DocsIn(d, f) \in Seq(AllDocs)
  BY DocsInType
<1>8. t = Append(s, DocsIn(d, f))
  <2>1. PICK T : T = Seq(AllDocs)
    OBVIOUS
  <2>2. s \in Seq(T) /\ t \in Seq(T) /\ DocsIn(d, f) \in T
    BY <1>5, <1>6, <1>7, <2>1
  <2>3. Append(s, DocsIn(d, f)) \in Seq(T)
    BY <2>2
  <2>4. Len(t) = Len(Append(s, DocsIn(d, f)))
    BY <1>2, <1>5, <1>6, <2>2
  <2>5. ASSUME NEW i \in 1..Len(t) PROVE t[i] = Append(s, DocsIn(d, f))[i]
    BY <1>2, <1>5, <1>6, <2>2
  <2> QED BY <2>2, <2>3, <2>4, <2>5, SeqEqual
<1>9. DocsOf(d, files) = FlattenSeq(s) /\ DocsOf(d, more) = FlattenSeq(t)
  BY <1>3, <1>4 DEF DocsOf
<1>10. FlattenSeq(Append(s, DocsIn(d, f))) = FlattenSeq(s) \o DocsIn(d, f)
  BY <1>5, <1>7, FlattenSeqAppend
<1> QED BY <1>1, <1>8, <1>9, <1>10

\* A document has one result.
LEMMA ResultsOfType ==
  ASSUME NEW c, NEW docs \in Seq(AllDocs)
  PROVE  /\ ResultsOf(c, docs) \in Seq(AllResults)
         /\ Len(ResultsOf(c, docs)) = Len(docs)
         /\ \A i \in 1..Len(docs) : ResultsOf(c, docs)[i] = [doc |-> docs[i], from |-> SyntaxOf(c)]
<1>1. SyntaxOf(c) \in {"koki", "kube"}
  BY DEF SyntaxOf
<1>2. DOMAIN docs = 1..Len(docs) /\ Len(docs) \in Nat /\ \A i \in 1..Len(docs) : docs[i] \in AllDocs
  OBVIOUS
<1>3. \A i \in 1..Len(docs) : [doc |-> docs[i], from |-> SyntaxOf(c)] \in AllResults
  BY <1>1, <1>2 DEF AllResults
<1>4. \A i \in 1..Len(docs) : ResultsOf(c, docs)[i] = [doc |-> docs[i], from |-> SyntaxOf(c)]
  BY <1>2 DEF ResultsOf
<1>5. ResultsOf(c, docs) \in [1..Len(docs) -> AllResults]
  BY <1>2, <1>3 DEF ResultsOf
<1>6. ASSUME NEW n \in Nat, NEW T, NEW u \in [1..n -> T] PROVE u \in Seq(T) /\ Len(u) = n
  OBVIOUS
<1> QED BY <1>2, <1>4, <1>5, <1>6

\* The results of one sequence of documents, then those of another.
LEMMA ResultsOfConcat ==
  ASSUME NEW c, NEW s \in Seq(AllDocs), NEW t \in Seq(AllDocs)
  PROVE  ResultsOf(c, s \o t) = ResultsOf(c, s) \o ResultsOf(c, t)
<1>1. s \o t \in Seq(AllDocs) /\ Len(s \o t) = Len(s) + Len(t) /\ Len(s) \in Nat /\ Len(t) \in Nat
  OBVIOUS
<1>2. /\ ResultsOf(c, s) \in Seq(AllResults)
      /\ ResultsOf(c, t) \in Seq(AllResults)
      /\ ResultsOf(c, s \o t) \in Seq(AllResults)
      /\ Len(ResultsOf(c, s)) = Len(s)
      /\ Len(ResultsOf(c, t)) = Len(t)
      /\ Len(ResultsOf(c, s \o t)) = Len(s \o t)
  BY <1>1, ResultsOfType
<1>3. ASSUME NEW i \in 1..Len(s) + Len(t)
      PROVE  ResultsOf(c, s \o t)[i] = (ResultsOf(c, s) \o ResultsOf(c, t))[i]
  <2>1. ResultsOf(c, s \o t)[i] = [doc |-> (s \o t)[i], from |-> SyntaxOf(c)]
    BY <1>1, ResultsOfType
  <2>2. CASE i \in 1..Len(s)
    <3>1. (s \o t)[i] = s[i]
      BY <2>2
    <3>2. ResultsOf(c, s)[i] = [doc |-> s[i], from |-> SyntaxOf(c)]
      BY <2>2, ResultsOfType
    <3>3. (ResultsOf(c, s) \o ResultsOf(c, t))[i] = ResultsOf(c, s)[i]
      BY <1>2, <2>2
    <3> QED BY <2>1, <3>1, <3>2, <3>3
  <2>3. CASE i \notin 1..Len(s)
    <3>1. (s \o t)[i] = t[i - Len(s)] /\ i - Len(s) \in 1..Len(t)
      BY <2>3
    <3>2. ResultsOf(c, t)[i - Len(s)] = [doc |-> t[i - Len(s)], from |-> SyntaxOf(c)]
      BY <3>1, ResultsOfType
    <3>3. (ResultsOf(c, s) \o ResultsOf(c, t))[i] = ResultsOf(c, t)[i - Len(s)]
      BY <1>2, <2>3
    <3> QED BY <2>1, <3>1, <3>2, <3>3
  <2> QED BY <2>2, <2>3
<1>4. ResultsOf(c, s) \o ResultsOf(c, t) \in Seq(AllResults)
  BY <1>2
<1>5. Len(ResultsOf(c, s) \o ResultsOf(c, t)) = Len(s) + Len(t)
  BY <1>2, ConcatProperties
<1> QED BY <1>1, <1>2, <1>3, <1>4, <1>5, SeqEqual

\* Writing one more object: it is separated from those before it, if there
\* are any (WriteObjsToYamlStream, WriteObjsToJSONStream).
LEMMA FramedByAppend ==
  ASSUME NEW sep, NEW T, NEW objs \in Seq(T), NEW obj \in T
  PROVE  FramedBy(sep, Append(objs, obj)) =
           FramedBy(sep, objs) \o (IF Len(objs) > 0 THEN <<sep>> ELSE <<>>) \o <<obj>>
<1> DEFINE U == T \cup {sep}
           n == Len(objs)
           new == Append(objs, obj)
           F == FramedBy(sep, objs)
           G == FramedBy(sep, new)
           m == IF Len(objs) > 0 THEN <<sep>> ELSE <<>>
<1>1. n \in Nat /\ Len(new) = n + 1 /\ \A i \in 1..n : new[i] = objs[i] /\ objs[i] \in T
  OBVIOUS
<1>2. new[n + 1] = obj
  OBVIOUS
<1>3. G = [i \in 1..2 * n + 1 |-> IF i % 2 = 1 THEN new[(i + 1) \div 2] ELSE sep]
  <2>1. 2 * Len(new) - 1 = 2 * n + 1
    BY <1>1
  <2> HIDE DEF new, n
  <2> QED BY <2>1 DEF FramedBy
<1>4. F = [i \in 1..2 * n - 1 |-> IF i % 2 = 1 THEN objs[(i + 1) \div 2] ELSE sep]
  BY DEF FramedBy
<1>5. CASE n = 0
  <2>1. F = <<>>
    BY <1>4, <1>5
  <2>2. m = <<>>
    BY <1>5
  <2>3. G = <<obj>>
    BY <1>2, <1>3, <1>5
  <2> HIDE DEF F, m, G, n, new
  <2>4. G = F \o m \o <<obj>>
    BY <2>1, <2>2, <2>3
  <2> QED BY <2>4 DEF F, G, m, new
<1>6. CASE n # 0
  <2>0. n \in Nat \ {0}
    BY <1>1, <1>6
  <2>1. m = <<sep>>
    BY <1>1, <1>6
  <2>2. ASSUME NEW i \in 1..2 * n - 1 PROVE (i + 1) \div 2 \in 1..n /\ F[i] \in U /\ G[i] = F[i]
    <3>1. (i + 1) \div 2 \in 1..n
      BY <2>0
    <3>2. i \in 1..2 * n + 1
      BY <2>0
    <3> HIDE DEF F, G, new, n
    <3> QED BY <1>1, <1>3, <1>4, <3>1, <3>2
  <2>3. F \in Seq(U) /\ Len(F) = 2 * n - 1
    <3>1. 2 * n - 1 \in Nat
      BY <2>0
    <3>2. F \in [1..2 * n - 1 -> U]
      <4> HIDE DEF F, G, new, n
      <4> QED BY <1>4, <2>2
    <3> HIDE DEF F
    <3> QED BY <3>1, <3>2
  <2>4. G[2 * n] = sep /\ G[2 * n + 1] = obj
    <3>1. 2 * n \in 1..2 * n + 1 /\ (2 * n) % 2 = 0 /\ 2 * n + 1 \in 1..2 * n + 1 /\ (2 * n + 1) % 2 = 1
      BY <2>0
    <3>2. (2 * n + 1 + 1) \div 2 = n + 1
      BY <2>0
    <3> HIDE DEF F, G, new, n
    <3>3. G[2 * n] = sep
      BY <1>3, <3>1
    <3>4. G[2 * n + 1] = new[(2 * n + 1 + 1) \div 2]
      BY <1>3, <3>1
    <3> QED BY <1>2, <3>2, <3>3, <3>4
  <2>5. G \in Seq(U) /\ Len(G) = 2 * n + 1
    <3>1. ASSUME NEW i \in 1..2 * n + 1 PROVE G[i] \in U
      <4>1. i \in 1..2 * n - 1 \/ i = 2 * n \/ i = 2 * n + 1
        BY <2>0
      <4> HIDE DEF F, G, new, n
      <4> QED BY <2>2, <2>4, <4>1
    <3>2. 2 * n + 1 \in Nat
      BY <2>0
    <3>3. G \in [1..2 * n + 1 -> U]
      <4> HIDE DEF F, G, new, n, U
      <4>1. DOMAIN G = 1..2 * n + 1 /\ G = [i \in 1..2 * n + 1 |-> G[i]]
        BY <1>3
      <4> QED BY <3>1, <4>1
    <3> HIDE DEF G
    <3> QED BY <3>2, <3>3
  <2> HIDE DEF F, G, m, new, n
  <2>6. ASSUME NEW i \in 1..2 * n + 1 PROVE G[i] = (F \o m \o <<obj>>)[i]
    <3>1. i \in 1..2 * n - 1 \/ i = 2 * n \/ i = 2 * n + 1
      BY <2>0
    <3> QED BY <2>0, <2>1, <2>2, <2>3, <2>4, <3>1
  <2>7. F \o m \o <<obj>> \in Seq(U) /\ Len(F \o m \o <<obj>>) = 2 * n + 1
    BY <2>0, <2>1, <2>3
  <2>8. G = F \o m \o <<obj>>
    BY <2>5, <2>6, <2>7, SeqEqual
  <2> QED BY <2>8 DEF F, G, m, new
<1> QED BY <1>5, <1>6

-----------------------------------------------------------------------------
(***************************************************************************)
(* The inductive invariant: what has been done, for each of the places     *)
(* where short may be.                                                     *)
(***************************************************************************)
Good(c, x) == Parses(SyntaxOf(c), x) /\ Accepted(c, x)

\* The documents loadKokiFiles has collected are the first ones wanted.
Loading ==
  /\ UsesImports(cmd)
  /\ outcome = "running"
  /\ Len(loaded) \in 0..Len(DocsOf(disk, cmd.filenames))
  /\ loaded = SubSeq(DocsOf(disk, cmd.filenames), 1, Len(loaded))
  /\ \A i \in 1..Len(loaded) : Parses(SyntaxOf(cmd), loaded[i])

\* All are there, and the first ones are converted.
ModulesLoaded ==
  /\ UsesImports(cmd)
  /\ \A f \in Range(FilesOf(cmd)) : disk[f] # Unreadable
  /\ loaded = DocsOf(disk, cmd.filenames)
  /\ \A x \in Range(loaded) : Parses(SyntaxOf(cmd), x)
  /\ Len(convertedData) \in 0..Len(loaded)
  /\ convertedData = SubSeq(ResultsOf(cmd, loaded), 1, Len(convertedData))
  /\ \A i \in 1..Len(convertedData) : Accepted(cmd, loaded[i])

\* fileDatas has what was in the files when they were read.
FileDatasOK == \A f \in DOMAIN fileDatas : disk[f] # Unreadable /\ fileDatas[f] = disk[f]

Reading ==
  /\ ~UsesImports(cmd)
  /\ DOMAIN fileDatas = {FilesOf(cmd)[i] : i \in 1..fileIx - 1}
  /\ FileDatasOK

\* The ways to order a set of files.
Orders(S) == {order \in SetToSeqs(S) : Range(order) = S}

InHand == IF current = None THEN {} ELSE {current.file}

\* The files that are done with were converted in some order, and of the one
\* in hand the first documents are.
Converting ==
  /\ ~UsesImports(cmd)
  /\ DOMAIN fileDatas = Range(FilesOf(cmd))
  /\ FileDatasOK
  /\ \E order \in Orders(DOMAIN fileDatas \ (remaining \cup InHand)) :
       /\ convertedData = ResultsOf(cmd, DocsOf(disk, order))
       /\ \A x \in Range(DocsOf(disk, order)) : Good(cmd, x)
  /\ current # None =>
       /\ current = [file |-> current.file, objs |-> current.objs]
       /\ Len(current.objs) \in 0..Len(disk[current.file])
       /\ current.objs = SubSeq(ResultsOf(cmd, disk[current.file]), 1, Len(current.objs))
       /\ \A i \in 1..Len(current.objs) : Good(cmd, disk[current.file][i])

\* The documents whose results may be printed.
Printable(c, d) ==
  IF UsesImports(c) THEN {DocsOf(d, c.filenames)}
  ELSE {DocsOf(d, order) : order \in Orders(Range(FilesOf(c)))}

\* All documents are converted, and the first results are in the buffer.
Writing ==
  /\ \A f \in Range(FilesOf(cmd)) : disk[f] # Unreadable
  /\ \E docs \in Printable(cmd, disk) :
       /\ convertedData = ResultsOf(cmd, docs)
       /\ \A x \in Range(docs) : Good(cmd, x)
  /\ buf = FramedBy(SeparatorOf(cmd), SubSeq(convertedData, 1, written))
  /\ \A i \in 1..written : Marshals(convertedData[i])

ShortInv ==
  /\ TypeOK
  /\ convertedData \in Seq(AllResults)
  /\ status # "done" => stdout = <<>>
  /\ status \notin {"validate", "error"} => ArgsOK /\ OutputOK
  /\ status = "validate" => loaded = <<>> /\ outcome = "running" /\ fileIx = 1 /\ fileDatas = <<>>
  /\ status \in {"validate", "load", "read"} => convertedData = <<>> /\ current = None /\ remaining = {}
  /\ status \in {"validate", "load", "modules", "read", "convert"} => written = 0 /\ buf = <<>>
  /\ status = "load" => Loading
  /\ status = "modules" => ModulesLoaded
  /\ status = "read" => Reading
  /\ status = "convert" => Converting
  /\ status \in {"write", "done"} => Writing
  /\ status = "done" => written = Len(convertedData) /\ stdout = buf
  /\ status = "error" /\ outcome # "failed" => Cause

-----------------------------------------------------------------------------
(***************************************************************************)
(* What goes wrong, and what does not.                                     *)
(***************************************************************************)
\* A file that cannot be read is a reason to fail.
LEMMA UnreadableFile ==
  ASSUME cmd \in Commands, disk \in Disks, NEW f \in Range(FilesOf(cmd)), disk[f] = Unreadable
  PROVE  Cause
<1>1. FilesOf(cmd) = ToRead
  BY Renamings
<1>2. PICK i \in DOMAIN ToRead : f = ToRead[i]
  BY <1>1 DEF Range
<1> QED BY <1>2 DEF Cause

\* So is a document that does not parse, has unknown fields, or can be
\* neither converted nor serialized.
LEMMA FaultyDocument ==
  ASSUME cmd \in Commands, disk \in Disks,
         NEW f \in Range(FilesOf(cmd)), disk[f] # Unreadable,
         NEW x \in Range(disk[f]),
         ~Good(cmd, x) \/ ~Marshals([doc |-> x, from |-> SyntaxOf(cmd)])
  PROVE  Cause
<1>1. FilesOf(cmd) = ToRead /\ From = SyntaxOf(cmd) /\ Converted(x) = [doc |-> x, from |-> SyntaxOf(cmd)]
  BY Renamings
<1>2. PICK i \in DOMAIN ToRead : f = ToRead[i]
  BY <1>1 DEF Range
<1>3. PICK j \in DOMAIN disk[f] : x = disk[f][j]
  BY DEF Range
<1>4. Faulty(x)
  BY <1>1 DEF Faulty, Good, Accepted
<1> QED BY <1>2, <1>3, <1>4 DEF Cause

\* The arguments validateArgs and the switch on the output format refuse are
\* those that are used wrongly.
LEMMA RefusedArguments ==
  ASSUME cmd \in Commands
  PROVE  UsageError <=> ~(ArgsOK /\ OutputOK)
<1>1. cmd.args \in Seq(STRING)
  BY CommandsAssumption
<1>2. CASE cmd.args = <<>>
  BY <1>2 DEF UsageError, ArgsOK, OutputOK, UseStdin
<1>3. CASE cmd.args = <<"-">>
  BY <1>3 DEF UsageError, ArgsOK, OutputOK, UseStdin
<1>4. CASE cmd.args # <<>> /\ cmd.args # <<"-">>
  <2>1. CASE Len(cmd.args) > 1
    BY <1>4, <2>1 DEF UsageError, ArgsOK, OutputOK, UseStdin
  <2>2. CASE ~(Len(cmd.args) > 1)
    <3>1. Len(cmd.args) = 1
      <4>1. Len(cmd.args) \in Nat \ {0}
        BY <1>1, <1>4, EmptySeq, Zenon
      <4>2. \A n \in Nat \ {0} : ~(n > 1) => n = 1
        OBVIOUS
      <4> QED BY <2>2, <4>1, <4>2, Zenon
    <3>2. 1 \in DOMAIN cmd.args /\ cmd.args[1] \in STRING
      BY <1>1, <3>1
    <3>3. ASSUME cmd.args[1] = "-" PROVE FALSE
      <4>1. ASSUME NEW T, NEW x \in T PROVE <<x>> \in Seq(T) /\ Len(<<x>>) = 1
        OBVIOUS
      <4>2. <<"-">> \in Seq(STRING) /\ Len(<<"-">>) = 1
        BY <3>2, <3>3, <4>1
      <4>3. \A i \in 1..Len(cmd.args) : cmd.args[i] = <<"-">>[i]
        BY <3>1, <3>3
      <4> QED BY <1>1, <1>4, <3>1, <4>2, <4>3, SeqEqual
    <3> QED BY <1>4, <3>2, <3>3 DEF UsageError, ArgsOK, OutputOK, UseStdin
  <2> QED BY <2>1, <2>2
<1> QED BY <1>2, <1>3, <1>4

\* There is no other reason.
LEMMA NothingWrong ==
  ASSUME cmd \in Commands, disk \in Disks, ArgsOK, OutputOK,
         \A f \in Range(FilesOf(cmd)) :
           /\ disk[f] # Unreadable
           /\ \A x \in Range(disk[f]) : Good(cmd, x) /\ Marshals([doc |-> x, from |-> SyntaxOf(cmd)])
  PROVE  ~Cause
<1>1. FilesOf(cmd) = ToRead /\ From = SyntaxOf(cmd)
  BY Renamings
<1>2. ~UsageError
  BY RefusedArguments
<1>3. ASSUME NEW i \in DOMAIN ToRead PROVE disk[ToRead[i]] # Unreadable /\ ToRead[i] \in Range(FilesOf(cmd))
  BY <1>1 DEF Range
<1>4. ASSUME NEW i \in DOMAIN ToRead, NEW j \in DOMAIN disk[ToRead[i]] PROVE ~Faulty(disk[ToRead[i]][j])
  <2>1. disk[ToRead[i]][j] \in Range(disk[ToRead[i]])
    BY DEF Range
  <2>2. Good(cmd, disk[ToRead[i]][j]) /\ Marshals([doc |-> disk[ToRead[i]][j], from |-> SyntaxOf(cmd)])
    BY <1>3, <2>1
  <2> QED BY <1>1, <2>2 DEF Faulty, Good, Accepted, Converted
<1> QED BY <1>2, <1>3, <1>4 DEF Cause

\* The command and the files stay as they are, and so does what depends on
\* nothing else.
LEMMA InputsFixed ==
  ASSUME UNCHANGED inputs
  PROVE  /\ cmd' = cmd /\ disk' = disk
         /\ ToRead' = ToRead
         /\ ArgsOK' <=> ArgsOK
         /\ OutputOK' <=> OutputOK
         /\ Cause' <=> Cause
<1>1. cmd' = cmd /\ disk' = disk
  BY DEF inputs
<1>2. ToRead' = ToRead /\ (ArgsOK' <=> ArgsOK) /\ (OutputOK' <=> OutputOK) /\ From' = From
  BY <1>1 DEF ToRead, UseStdin, ArgsOK, OutputOK, From
<1>3. UsageError' <=> UsageError
  BY <1>1 DEF UsageError
<1>4. ASSUME NEW i, NEW j PROVE Faulty(disk[ToRead[i]][j])' <=> Faulty(disk[ToRead[i]][j])
  BY <1>1, <1>2 DEF Faulty, Converted
<1>5. Cause' <=> Cause
  BY <1>1, <1>2, <1>3, <1>4 DEF Cause
<1> QED BY <1>1, <1>2, <1>5

-----------------------------------------------------------------------------
(***************************************************************************)
(* The steps.                                                              *)
(***************************************************************************)
\* The documents of the files on the command line.
LEMMA WantedType ==
  ASSUME cmd \in Commands, disk \in Disks
  PROVE  /\ DocsOf(disk, cmd.filenames) \in Seq(AllDocs)
         /\ \A f \in Range(FilesOf(cmd)) : f \in DOMAIN disk
         /\ FilesOf(cmd) \in Seq(DOMAIN disk)
         /\ UsesImports(cmd) => FilesOf(cmd) = cmd.filenames
<1>1. FilesOf(cmd) \in Seq(DOMAIN disk) /\ cmd.filenames \in Seq(DOMAIN disk)
  BY FilesOfType
<1>2. DocsOf(disk, cmd.filenames) \in Seq(AllDocs)
  BY <1>1, DocsOfType
<1>3. Range(FilesOf(cmd)) \subseteq DOMAIN disk
  BY <1>1, RangeOfSeq
<1>4. UsesImports(cmd) => FilesOf(cmd) = cmd.filenames
  BY DEF UsesImports, FilesOf
<1> QED BY <1>1, <1>2, <1>3, <1>4

\* The arguments are checked, and it is decided how the files are read.
LEMMA ValidateStep ==
  ASSUME ShortInv, Validate
  PROVE  ShortInv'
<1>1. status = "validate" /\ UNCHANGED <<inputs, loading, reading, converting, writing>>
  BY DEF Validate
<1>2. /\ cmd' = cmd /\ disk' = disk /\ loaded' = loaded /\ outcome' = outcome /\ fileIx' = fileIx
      /\ fileDatas' = fileDatas /\ current' = current /\ remaining' = remaining
      /\ convertedData' = convertedData /\ buf' = buf /\ written' = written /\ stdout' = stdout
  BY <1>1 DEF inputs, loading, reading, converting, writing
<1>3. /\ ToRead' = ToRead /\ (ArgsOK' <=> ArgsOK) /\ (OutputOK' <=> OutputOK) /\ (Cause' <=> Cause)
  BY <1>1, InputsFixed
<1>4. status' \in {"error", "load", "read"}
  BY DEF Validate
<1>5. TypeOK'
  BY <1>2, <1>3, <1>4 DEF ShortInv, TypeOK, Ended
<1>6. status' = "error" => Cause
  BY RefusedArguments DEF Validate, Cause, ShortInv, TypeOK
<1>7. status' # "error" => ArgsOK /\ OutputOK
  BY DEF Validate
<1>8. ASSUME status' = "load" PROVE Loading'
  <2>1. UsesImports(cmd)
    BY <1>8, Renamings DEF Validate
  <2>2. DocsOf(disk, cmd.filenames) \in Seq(AllDocs)
    BY WantedType DEF ShortInv, TypeOK
  <2>3. loaded = <<>> /\ outcome = "running"
    BY <1>1 DEF ShortInv
  <2>4. Len(loaded) \in 0..Len(DocsOf(disk, cmd.filenames)) /\ loaded = SubSeq(DocsOf(disk, cmd.filenames), 1, Len(loaded))
    BY <2>2, <2>3
  <2> QED BY <1>2, <2>1, <2>3, <2>4 DEF Loading
<1>9. ASSUME status' = "read" PROVE Reading'
  <2>1. ~UsesImports(cmd)
    BY <1>9, Renamings DEF Validate
  <2>2. fileDatas = <<>> /\ fileIx = 1
    BY <1>1 DEF ShortInv
  <2> QED BY <1>2, <2>1, <2>2 DEF Reading, FileDatasOK
<1> QED BY <1>1, <1>2, <1>3, <1>4, <1>5, <1>6, <1>7, <1>8, <1>9 DEF ShortInv

\* loadKokiFiles collects the next module, has collected all, or fails.
LEMMA LoadStep ==
  ASSUME ShortInv, Load
  PROVE  ShortInv'
<1> DEFINE W == DocsOf(disk, cmd.filenames)
<1>1. status = "load" /\ UNCHANGED <<inputs, reading, converting, writing>>
  BY DEF Load
<1>2. /\ cmd' = cmd /\ disk' = disk /\ fileIx' = fileIx /\ fileDatas' = fileDatas
      /\ current' = current /\ remaining' = remaining /\ convertedData' = convertedData
      /\ buf' = buf /\ written' = written /\ stdout' = stdout
  BY <1>1 DEF inputs, reading, converting, writing
<1>3. /\ ToRead' = ToRead /\ (ArgsOK' <=> ArgsOK) /\ (OutputOK' <=> OutputOK) /\ (Cause' <=> Cause)
  BY <1>1, InputsFixed
<1>4. cmd \in Commands /\ disk \in Disks
  BY DEF ShortInv, TypeOK
<1>5. W \in Seq(AllDocs) /\ Wanted = W /\ From = SyntaxOf(cmd)
  BY <1>4, WantedType, Renamings
<1>6. Loading
  BY <1>1 DEF ShortInv
<1>7. status' \in {"load", "modules", "error"} => TypeOK'
  BY <1>1, <1>2, <1>3 DEF ShortInv, TypeOK, Ended
<1>8. CASE Files!LoadNext /\ Parses("koki", Wanted[Len(loaded) + 1]) /\ UNCHANGED status
  <2>1. /\ outcome' = outcome /\ status' = "load"
        /\ Len(loaded) < Len(W)
        /\ loaded' = Append(loaded, W[Len(loaded) + 1])
    BY <1>1, <1>5, <1>8 DEF Files!LoadNext
  <2>2. SyntaxOf(cmd) = "koki"
    BY <1>6 DEF Loading, UsesImports, SyntaxOf
  <2> HIDE DEF W
  <2>3. loaded = SubSeq(W, 1, Len(loaded)) /\ Len(loaded) \in 0..Len(W)
    BY <1>6 DEF Loading, W
  <2>4. /\ Len(loaded') = Len(loaded) + 1
        /\ Len(loaded') \in 0..Len(W)
        /\ loaded' = SubSeq(W, 1, Len(loaded'))
        /\ \A i \in 1..Len(loaded) : loaded'[i] = loaded[i]
        /\ loaded'[Len(loaded) + 1] = W[Len(loaded) + 1]
    BY <1>5, <2>1, <2>3
  <2>5. \A i \in 1..Len(loaded') : Parses(SyntaxOf(cmd), loaded'[i])
    <3>1. \A i \in 1..Len(loaded') : i \in 1..Len(loaded) \/ i = Len(loaded) + 1
      BY <2>3, <2>4
    <3>2. \A i \in 1..Len(loaded) : Parses(SyntaxOf(cmd), loaded[i])
      BY <1>6 DEF Loading
    <3> QED BY <1>5, <1>8, <2>2, <2>4, <3>1, <3>2
  <2>6. Loading'
    BY <1>2, <1>6, <2>1, <2>4, <2>5 DEF Loading, W
  <2> QED BY <1>1, <1>2, <1>3, <1>7, <2>1, <2>6 DEF ShortInv
<1>9. CASE Files!Succeed /\ status' = "modules"
  <2>1. /\ loaded' = loaded /\ loaded = W
        /\ \A i \in DOMAIN cmd.filenames : disk[cmd.filenames[i]] # Unreadable
    BY <1>5, <1>9 DEF Files!Succeed
  <2>2. \A f \in Range(FilesOf(cmd)) : disk[f] # Unreadable
    BY <1>4, <1>6, <2>1, WantedType DEF Loading, Range
  <2>3. convertedData = <<>> /\ ResultsOf(cmd, W) \in Seq(AllResults)
    BY <1>1, <1>5, ResultsOfType DEF ShortInv
  <2>4. Len(convertedData) \in 0..Len(loaded) /\ convertedData = SubSeq(ResultsOf(cmd, loaded), 1, Len(convertedData))
    BY <1>5, <2>1, <2>3
  <2>5. \A x \in Range(loaded) : Parses(SyntaxOf(cmd), x)
    <3>1. DOMAIN loaded = 1..Len(loaded)
      BY <1>5, <2>1
    <3> QED BY <1>6, <3>1 DEF Loading, Range
  <2>6. \A i \in 1..Len(convertedData) : Accepted(cmd, loaded[i])
    BY <2>3
  <2>7. ModulesLoaded'
    BY <1>2, <1>6, <2>1, <2>2, <2>4, <2>5, <2>6 DEF ModulesLoaded, Loading
  <2> QED BY <1>1, <1>2, <1>3, <1>7, <1>9, <2>7 DEF ShortInv
<1>10. CASE Files!Fail /\ status' = "error"
  <2>1. outcome' = "failed"
    BY <1>10 DEF Files!Fail
  <2> QED BY <1>1, <1>2, <1>3, <1>7, <1>10, <2>1 DEF ShortInv
<1> QED BY <1>8, <1>9, <1>10 DEF Load

\* convertKokiModules converts the next module, or fails for it.
LEMMA ConvertModuleStep ==
  ASSUME ShortInv, ConvertModule
  PROVE  ShortInv'
<1> DEFINE n == Len(convertedData)
           x == loaded[n + 1]
           R == ResultsOf(cmd, loaded)
<1>1. /\ status = "modules"
      /\ n < Len(loaded)
      /\ UNCHANGED <<inputs, loading, reading, current, remaining, writing>>
  BY DEF ConvertModule
<1>2. /\ cmd' = cmd /\ disk' = disk /\ loaded' = loaded /\ outcome' = outcome /\ fileIx' = fileIx
      /\ fileDatas' = fileDatas /\ current' = current /\ remaining' = remaining
      /\ buf' = buf /\ written' = written /\ stdout' = stdout
  BY <1>1 DEF inputs, loading, reading, writing
<1>3. /\ ToRead' = ToRead /\ (ArgsOK' <=> ArgsOK) /\ (OutputOK' <=> OutputOK) /\ (Cause' <=> Cause)
  BY <1>1, InputsFixed
<1>4. cmd \in Commands /\ disk \in Disks /\ ModulesLoaded /\ written = 0
  BY <1>1 DEF ShortInv, TypeOK
<1>5. loaded \in Seq(AllDocs) /\ R \in Seq(AllResults) /\ Len(R) = Len(loaded)
  BY <1>4, WantedType, ResultsOfType DEF ModulesLoaded
<1>6. n \in 0..Len(loaded) /\ n \in Nat /\ n + 1 \in 1..Len(loaded)
  BY <1>1, <1>4, <1>5 DEF ModulesLoaded
<1>7. Convertible(x) <=> Accepted(cmd, x)
  BY Renamings
<1>8. CASE Convertible(x)
  <2>1. status' = "modules" /\ convertedData' = Append(convertedData, Converted(x))
    BY <1>1, <1>8 DEF ConvertModule
  <2>2. Converted(x) = R[n + 1]
    BY <1>5, <1>6, ResultsOfType, Renamings
  <2> HIDE DEF R
  <2>3. convertedData = SubSeq(R, 1, n)
    BY <1>4 DEF ModulesLoaded, R
  <2> DEFINE new == Append(convertedData, R[n + 1])
  <2>4. new = SubSeq(R, 1, n + 1) /\ Len(new) = n + 1 /\ new \in Seq(AllResults)
    BY <1>5, <1>6, <2>3
  <2> HIDE DEF n
  <2>5. convertedData' = SubSeq(R, 1, n + 1) /\ Len(convertedData') = n + 1 /\ convertedData' \in Seq(AllResults)
    BY <2>1, <2>2, <2>4
  <2>6. \A i \in 1..n + 1 : Accepted(cmd, loaded[i])
    <3>1. \A i \in 1..n + 1 : i \in 1..n \/ i = n + 1
      BY <1>6
    <3>2. \A i \in 1..n : Accepted(cmd, loaded[i])
      BY <1>4 DEF ModulesLoaded, n
    <3> QED BY <1>7, <1>8, <3>1, <3>2
  <2>7. ModulesLoaded'
    BY <1>2, <1>4, <1>6, <2>5, <2>6 DEF ModulesLoaded, R
  <2>8. written' \in 0..Len(convertedData')
    BY <1>2, <1>4, <1>6, <2>5
  <2>9. TypeOK'
    BY <1>2, <1>3, <2>1, <2>8 DEF ShortInv, TypeOK, Ended
  <2> QED BY <1>1, <1>2, <1>3, <2>1, <2>5, <2>7, <2>9 DEF ShortInv
<1>9. CASE ~Convertible(x)
  <2>1. status' = "error" /\ convertedData' = convertedData
    BY <1>1, <1>9 DEF ConvertModule
  <2>2. x \in Range(loaded)
    BY <1>5, <1>6 DEF Range
  <2>3. PICK f \in Range(FilesOf(cmd)) : x \in Range(DocsIn(disk, f))
    <3>1. cmd.filenames \in Seq(DOMAIN disk) /\ FilesOf(cmd) = cmd.filenames
      BY <1>4, FilesOfType, WantedType DEF ModulesLoaded
    <3> QED BY <1>4, <2>2, <3>1, DocsOfType DEF ModulesLoaded
  <2>4. disk[f] # Unreadable /\ x \in Range(disk[f])
    BY <1>4, <2>3 DEF ModulesLoaded, DocsIn
  <2>5. Cause
    BY <1>4, <1>7, <1>9, <2>4, FaultyDocument DEF Good
  <2>6. TypeOK'
    BY <1>2, <1>3, <2>1 DEF ShortInv, TypeOK, Ended
  <2> QED BY <1>1, <1>2, <1>3, <2>1, <2>5, <2>6 DEF ShortInv
<1> QED BY <1>8, <1>9

\* convertKokiModules returns: every module has its result.
LEMMA ModulesConvertedStep ==
  ASSUME ShortInv, ModulesConverted
  PROVE  ShortInv'
<1>1. /\ status = "modules" /\ status' = "write"
      /\ Len(convertedData) = Len(loaded)
      /\ UNCHANGED <<inputs, loading, reading, converting, writing>>
  BY DEF ModulesConverted
<1>2. /\ cmd' = cmd /\ disk' = disk /\ loaded' = loaded /\ outcome' = outcome /\ fileIx' = fileIx
      /\ fileDatas' = fileDatas /\ current' = current /\ remaining' = remaining
      /\ convertedData' = convertedData /\ buf' = buf /\ written' = written /\ stdout' = stdout
  BY <1>1 DEF inputs, loading, reading, converting, writing
<1>3. /\ ToRead' = ToRead /\ (ArgsOK' <=> ArgsOK) /\ (OutputOK' <=> OutputOK) /\ (Cause' <=> Cause)
  BY <1>1, InputsFixed
<1>4. cmd \in Commands /\ disk \in Disks /\ ModulesLoaded /\ written = 0 /\ buf = <<>> /\ convertedData \in Seq(AllResults)
  BY <1>1 DEF ShortInv, TypeOK
<1>5. loaded \in Seq(AllDocs) /\ ResultsOf(cmd, loaded) \in Seq(AllResults) /\ Len(ResultsOf(cmd, loaded)) = Len(loaded)
  BY <1>4, WantedType, ResultsOfType DEF ModulesLoaded
<1>6. convertedData = ResultsOf(cmd, loaded)
  <2>1. convertedData = SubSeq(ResultsOf(cmd, loaded), 1, Len(ResultsOf(cmd, loaded)))
    BY <1>1, <1>4, <1>5 DEF ModulesLoaded
  <2> QED BY <1>5, <2>1
<1>7. \A x \in Range(loaded) : Good(cmd, x)
  <2>1. DOMAIN loaded = 1..Len(loaded)
    BY <1>5
  <2> QED BY <1>1, <1>4, <2>1 DEF ModulesLoaded, Good, Range
<1>8. loaded \in Printable(cmd, disk)
  BY <1>4 DEF Printable, ModulesLoaded
<1>9. buf = FramedBy(SeparatorOf(cmd), SubSeq(convertedData, 1, written))
  <2>1. SubSeq(convertedData, 1, written) = <<>>
    BY <1>4
  <2> QED BY <1>4, <2>1 DEF FramedBy
<1>10. Writing'
  BY <1>2, <1>4, <1>6, <1>7, <1>8, <1>9 DEF Writing, ModulesLoaded
<1>11. TypeOK'
  BY <1>1, <1>2, <1>3 DEF ShortInv, TypeOK, Ended
<1> QED BY <1>1, <1>2, <1>3, <1>10, <1>11 DEF ShortInv

-----------------------------------------------------------------------------
\* There are finitely many files.
LEMMA FilesAreFinite ==
  ASSUME cmd \in Commands, disk \in Disks
  PROVE  IsFiniteSet(Range(FilesOf(cmd)))
<1>1. PICK s : s = FilesOf(cmd)
  OBVIOUS
<1>2. s \in Seq(DOMAIN disk)
  BY <1>1, WantedType
<1>3. Len(s) \in Nat /\ DOMAIN s = 1..Len(s) /\ s = [i \in 1..Len(s) |-> s[i]]
  BY <1>2
<1>4. s \in Surjection(1..Len(s), Range(s))
  BY <1>3 DEF Surjection, Range
<1>5. IsFiniteSet(1..Len(s))
  BY <1>3, FS_Interval
<1> QED BY <1>1, <1>4, <1>5, FS_Surjection

\* Nothing is ordered in one way.
LEMMA NoOrder == <<>> \in Orders({})
<1>1. Cardinality({}) = 0
  BY FS_EmptySet
<1>2. <<>> \in [1..0 -> {}] /\ Range(<<>>) = {}
  BY DEF Range
<1>3. <<>> \in SetToSeqs({})
  BY <1>1, <1>2 DEF SetToSeqs
<1> QED BY <1>2, <1>3 DEF Orders

\* Some files are ordered, and one more comes after them.
LEMMA OrderMore ==
  ASSUME NEW S, IsFiniteSet(S), NEW f, f \notin S, NEW order \in Orders(S)
  PROVE  order \in Seq(S) /\ Append(order, f) \in Orders(S \cup {f})
<1> DEFINE n == Cardinality(S)
           new == Append(order, f)
<1>1. n \in Nat /\ Cardinality(S \cup {f}) = n + 1
  BY FS_CardinalityType, FS_AddElement
<1>2. order \in [1..n -> S] /\ (\A i, j \in 1..n : i # j => order[i] # order[j]) /\ Range(order) = S
  BY DEF Orders, SetToSeqs
<1> HIDE DEF n
<1>3. order \in Seq(S) /\ Len(order) = n
  BY <1>1, <1>2
<1>4. /\ new \in [1..n + 1 -> S \cup {f}]
      /\ \A i \in 1..n : new[i] = order[i]
      /\ new[n + 1] = f
      /\ DOMAIN new = 1..n + 1
  <2> DEFINE T == S \cup {f}
  <2>1. f \in T /\ order \in Seq(T)
    BY <1>2, <1>3, SeqMonotonic
  <2> HIDE DEF T
  <2>2. /\ new \in Seq(T) /\ Len(new) = n + 1 /\ new[n + 1] = f
        /\ \A i \in 1..n : new[i] = order[i]
    BY <1>1, <1>3, <2>1
  <2> HIDE DEF new
  <2>3. new \in [1..n + 1 -> T] /\ DOMAIN new = 1..n + 1
    BY <1>1, <2>2
  <2> QED BY <2>2, <2>3 DEF T
<1> HIDE DEF new
<1>5. \A i \in 1..n + 1 : i \in 1..n \/ i = n + 1
  BY <1>1
<1>6. \A i, j \in 1..n + 1 : i # j => new[i] # new[j]
  BY <1>2, <1>4, <1>5
<1>7. Range(new) = S \cup {f}
  <2>1. ASSUME NEW y \in Range(new) PROVE y \in S \cup {f}
    BY <1>4 DEF Range
  <2>2. ASSUME NEW y \in S PROVE y \in Range(new)
    <3>1. PICK i \in 1..n : y = order[i]
      BY <1>2 DEF Range
    <3>2. i \in 1..n + 1 /\ y = new[i]
      BY <1>1, <1>4, <3>1
    <3> QED BY <1>4, <3>2 DEF Range
  <2>3. f \in Range(new)
    <3>1. n + 1 \in 1..n + 1
      BY <1>1
    <3> QED BY <1>4, <3>1 DEF Range
  <2> QED BY <2>1, <2>2, <2>3
<1>8. new \in SetToSeqs(S \cup {f})
  BY <1>1, <1>4, <1>6 DEF SetToSeqs
<1> QED BY <1>3, <1>7, <1>8 DEF Orders, new

\* The next file is opened and decoded, or cannot be.
LEMMA ReadFileStep ==
  ASSUME ShortInv, ReadFile
  PROVE  ShortInv'
<1> DEFINE f == ToRead[fileIx]
<1>1. status = "read" /\ fileIx <= Len(ToRead) /\ UNCHANGED <<inputs, loading, converting, writing>>
  BY DEF ReadFile
<1>2. /\ cmd' = cmd /\ disk' = disk /\ loaded' = loaded /\ outcome' = outcome
      /\ current' = current /\ remaining' = remaining /\ convertedData' = convertedData
      /\ buf' = buf /\ written' = written /\ stdout' = stdout
  BY <1>1 DEF inputs, loading, converting, writing
<1>3. /\ ToRead' = ToRead /\ (ArgsOK' <=> ArgsOK) /\ (OutputOK' <=> OutputOK) /\ (Cause' <=> Cause)
  BY <1>1, InputsFixed
<1>4. /\ cmd \in Commands /\ disk \in Disks /\ Reading /\ fileIx \in 1..Len(ToRead) + 1
      /\ remaining = {} /\ current = None /\ written \in 0..Len(convertedData) /\ DOMAIN fileDatas \subseteq Range(ToRead)
  BY <1>1 DEF ShortInv, TypeOK
<1>5. ToRead = FilesOf(cmd) /\ ToRead \in Seq(DOMAIN disk)
  BY <1>4, WantedType, Renamings
<1>6. Len(ToRead) \in Nat /\ DOMAIN ToRead = 1..Len(ToRead) /\ fileIx \in 1..Len(ToRead)
  BY <1>1, <1>4, <1>5
<1>7. f \in Range(ToRead)
  BY <1>6 DEF Range
<1>8. CASE disk[f] = Unreadable
  <2>1. status' = "error" /\ fileIx' = fileIx /\ fileDatas' = fileDatas
    BY <1>1, <1>8 DEF ReadFile, reading
  <2>2. Cause
    BY <1>4, <1>5, <1>7, <1>8, UnreadableFile
  <2>3. TypeOK'
    BY <1>2, <1>3, <2>1 DEF ShortInv, TypeOK, Ended
  <2> QED BY <1>1, <1>2, <1>3, <2>1, <2>2, <2>3 DEF ShortInv
<1>9. CASE disk[f] # Unreadable
  <2>1. /\ status' = "read" /\ fileIx' = fileIx + 1
        /\ fileDatas' = [x \in DOMAIN fileDatas \cup {f} |-> IF x = f THEN disk[f] ELSE fileDatas[x]]
    BY <1>1, <1>9 DEF ReadFile
  <2>2. DOMAIN fileDatas' = DOMAIN fileDatas \cup {f}
    BY <2>1
  <2>3. \A i : i \in 1..(fileIx + 1) - 1 <=> i \in 1..fileIx - 1 \/ i = fileIx
    BY <1>6
  <2>4. DOMAIN fileDatas' = {FilesOf(cmd)[i] : i \in 1..fileIx' - 1}
    <3>1. DOMAIN fileDatas = {FilesOf(cmd)[i] : i \in 1..fileIx - 1} /\ f = FilesOf(cmd)[fileIx]
      BY <1>4, <1>5 DEF Reading
    <3> HIDE DEF f
    <3> QED BY <2>1, <2>2, <2>3, <3>1
  <2>5. ASSUME NEW x \in DOMAIN fileDatas' PROVE disk[x] # Unreadable /\ fileDatas'[x] = disk[x]
    BY <1>4, <1>9, <2>1, <2>2 DEF Reading, FileDatasOK
  <2>6. FileDatasOK'
    BY <1>2, <2>5 DEF FileDatasOK
  <2>7. Reading'
    BY <1>2, <1>4, <2>4, <2>6 DEF Reading
  <2>8. fileIx' \in 1..Len(ToRead) + 1
    BY <1>6, <2>1
  <2>9. TypeOK'
    BY <1>2, <1>3, <1>4, <1>7, <2>1, <2>2, <2>8 DEF ShortInv, TypeOK, Ended
  <2> QED BY <1>1, <1>2, <1>3, <2>1, <2>7, <2>9 DEF ShortInv
<1> QED BY <1>8, <1>9

\* Every file is in fileDatas, and none is converted yet.
LEMMA AllReadStep ==
  ASSUME ShortInv, AllRead
  PROVE  ShortInv'
<1>1. /\ status = "read" /\ status' = "convert" /\ fileIx > Len(ToRead) /\ remaining' = DOMAIN fileDatas
      /\ UNCHANGED <<inputs, loading, reading, current, convertedData, writing>>
  BY DEF AllRead
<1>2. /\ cmd' = cmd /\ disk' = disk /\ loaded' = loaded /\ outcome' = outcome /\ fileIx' = fileIx
      /\ fileDatas' = fileDatas /\ current' = current
      /\ convertedData' = convertedData /\ buf' = buf /\ written' = written /\ stdout' = stdout
  BY <1>1 DEF inputs, loading, reading, writing
<1>3. /\ ToRead' = ToRead /\ (ArgsOK' <=> ArgsOK) /\ (OutputOK' <=> OutputOK) /\ (Cause' <=> Cause)
  BY <1>1, InputsFixed
<1>4. /\ cmd \in Commands /\ disk \in Disks /\ Reading /\ fileIx \in 1..Len(ToRead) + 1
      /\ current = None /\ convertedData = <<>>
  BY <1>1 DEF ShortInv, TypeOK
<1>5. ToRead = FilesOf(cmd) /\ ToRead \in Seq(DOMAIN disk)
  BY <1>4, WantedType, Renamings
<1>6. DOMAIN ToRead = 1..Len(ToRead) /\ fileIx - 1 = Len(ToRead)
  BY <1>1, <1>4, <1>5
<1>7. DOMAIN fileDatas = Range(FilesOf(cmd))
  BY <1>4, <1>5, <1>6 DEF Reading, Range
<1>8. DocsOf(disk, <<>>) = <<>>
  <2>1. [i \in DOMAIN <<>> |-> DocsIn(disk, <<>>[i])] = <<>>
    OBVIOUS
  <2> QED BY <2>1, FlattenSeqEmpty DEF DocsOf
<1>9. ResultsOf(cmd, <<>>) = <<>>
  BY DEF ResultsOf
<1>10. DOMAIN fileDatas \ (remaining' \cup InHand') = {}
  BY <1>1
<1>11. Converting'
  <2>1. FileDatasOK'
    BY <1>2, <1>4 DEF Reading, FileDatasOK
  <2>2. \A x \in Range(<<>>) : Good(cmd, x)
    BY DEF Range
  <2>3. \E order \in Orders(DOMAIN fileDatas \ (remaining' \cup InHand')) :
          /\ convertedData = ResultsOf(cmd, DocsOf(disk, order))
          /\ \A x \in Range(DocsOf(disk, order)) : Good(cmd, x)
    BY <1>4, <1>8, <1>9, <1>10, <2>2, NoOrder
  <2> QED BY <1>2, <1>4, <1>7, <2>1, <2>3 DEF Converting, Reading
<1>12. TypeOK'
  BY <1>1, <1>2, <1>3, <1>4 DEF ShortInv, TypeOK, Ended
<1> QED BY <1>1, <1>2, <1>3, <1>11, <1>12 DEF ShortInv

\* The loop over fileDatas goes on with a file the runtime chooses.
LEMMA PickFileStep ==
  ASSUME ShortInv, PickFile
  PROVE  ShortInv'
<1>1. /\ status = "convert" /\ current = None
      /\ UNCHANGED <<inputs, status, loading, reading, convertedData, writing>>
  BY DEF PickFile
<1>2. /\ cmd' = cmd /\ disk' = disk /\ status' = status /\ loaded' = loaded /\ outcome' = outcome /\ fileIx' = fileIx
      /\ fileDatas' = fileDatas
      /\ convertedData' = convertedData /\ buf' = buf /\ written' = written /\ stdout' = stdout
  BY <1>1 DEF inputs, loading, reading, writing
<1>3. /\ ToRead' = ToRead /\ (ArgsOK' <=> ArgsOK) /\ (OutputOK' <=> OutputOK) /\ (Cause' <=> Cause)
  BY <1>1, InputsFixed
<1>4. PICK f \in remaining : current' = [file |-> f, objs |-> <<>>] /\ remaining' = remaining \ {f}
  BY DEF PickFile
<1>5. /\ cmd \in Commands /\ disk \in Disks /\ Converting /\ remaining \subseteq DOMAIN fileDatas
  BY <1>1 DEF ShortInv, TypeOK
<1>6. current' # None
  BY <1>4 DEF None
<1>7. current'.file = f /\ current'.objs = <<>> /\ current' = [file |-> current'.file, objs |-> current'.objs]
  BY <1>4
<1>8. f \in DOMAIN disk /\ disk[f] # Unreadable
  BY <1>5, WantedType DEF Converting, FileDatasOK
<1>9. disk[f] \in Seq(AllDocs)
  BY <1>5, <1>8, DocsInType DEF DocsIn
<1>10. ResultsOf(cmd, disk[f]) \in Seq(AllResults)
  BY <1>9, ResultsOfType
<1>11. remaining' \cup InHand' = remaining \cup InHand
  BY <1>1, <1>4, <1>6, <1>7 DEF InHand
<1>12. Converting'
  <2>1. FileDatasOK'
    BY <1>2, <1>5 DEF Converting, FileDatasOK
  <2>2. Len(current'.objs) \in 0..Len(disk[f]) /\ current'.objs = SubSeq(ResultsOf(cmd, disk[f]), 1, Len(current'.objs))
    BY <1>7, <1>9, <1>10
  <2>3. \A i \in 1..Len(current'.objs) : Good(cmd, disk[f][i])
    BY <1>7
  <2> QED BY <1>2, <1>5, <1>7, <1>11, <2>1, <2>2, <2>3 DEF Converting
<1>13. TypeOK'
  BY <1>1, <1>2, <1>3, <1>4, <1>5, <1>7 DEF ShortInv, TypeOK, Ended
<1> QED BY <1>1, <1>2, <1>3, <1>12, <1>13 DEF ShortInv

\* The file in hand is one of those that were read.
LEMMA FileInHand ==
  ASSUME ShortInv, status = "convert", current # None
  PROVE  /\ cmd \in Commands /\ disk \in Disks /\ Converting
         /\ current.file \in Range(FilesOf(cmd))
         /\ current.file \in DOMAIN disk
         /\ current.file \in DOMAIN fileDatas \ remaining
         /\ disk[current.file] # Unreadable
         /\ fileDatas[current.file] = disk[current.file]
         /\ disk[current.file] \in Seq(AllDocs)
         /\ ResultsOf(cmd, disk[current.file]) \in Seq(AllResults)
         /\ Len(ResultsOf(cmd, disk[current.file])) = Len(disk[current.file])
         /\ Len(current.objs) \in 0..Len(disk[current.file])
         /\ current.objs = SubSeq(ResultsOf(cmd, disk[current.file]), 1, Len(current.objs))
<1>1. cmd \in Commands /\ disk \in Disks /\ Converting /\ current.file \in DOMAIN fileDatas \ remaining
  BY DEF ShortInv, TypeOK
<1>2. current.file \in Range(FilesOf(cmd)) /\ disk[current.file] # Unreadable /\ fileDatas[current.file] = disk[current.file]
  BY <1>1 DEF Converting, FileDatasOK
<1>3. current.file \in DOMAIN disk
  BY <1>1, <1>2, WantedType
<1>4. disk[current.file] \in Seq(AllDocs)
  BY <1>1, <1>2, <1>3, DocsInType DEF DocsIn
<1>5. /\ ResultsOf(cmd, disk[current.file]) \in Seq(AllResults)
      /\ Len(ResultsOf(cmd, disk[current.file])) = Len(disk[current.file])
  BY <1>4, ResultsOfType
<1> QED BY <1>1, <1>2, <1>3, <1>4, <1>5 DEF Converting

\* The next document of that file is converted, or fails.
LEMMA ConvertDocumentStep ==
  ASSUME ShortInv, ConvertDocument
  PROVE  ShortInv'
<1> DEFINE n == Len(current.objs)
           docs == disk[current.file]
           x == docs[n + 1]
           R == ResultsOf(cmd, docs)
<1>1. /\ status = "convert" /\ current # None /\ n < Len(fileDatas[current.file])
      /\ UNCHANGED <<inputs, loading, reading, remaining, convertedData, writing>>
  BY DEF ConvertDocument
<1>2. /\ cmd' = cmd /\ disk' = disk /\ loaded' = loaded /\ outcome' = outcome /\ fileIx' = fileIx
      /\ fileDatas' = fileDatas /\ remaining' = remaining
      /\ convertedData' = convertedData /\ buf' = buf /\ written' = written /\ stdout' = stdout
  BY <1>1 DEF inputs, loading, reading, writing
<1>3. /\ ToRead' = ToRead /\ (ArgsOK' <=> ArgsOK) /\ (OutputOK' <=> OutputOK) /\ (Cause' <=> Cause)
  BY <1>1, InputsFixed
<1>4. /\ cmd \in Commands /\ disk \in Disks /\ Converting
      /\ current.file \in Range(FilesOf(cmd))
      /\ current.file \in DOMAIN fileDatas \ remaining
      /\ docs # Unreadable
      /\ fileDatas[current.file] = docs
      /\ docs \in Seq(AllDocs)
      /\ R \in Seq(AllResults)
      /\ Len(R) = Len(docs)
      /\ n \in 0..Len(docs)
      /\ current.objs = SubSeq(R, 1, n)
  BY <1>1, FileInHand
<1>5. n + 1 \in 1..Len(docs) /\ n \in Nat
  BY <1>1, <1>4
<1>6. From = SyntaxOf(cmd) /\ (Convertible(x) <=> Accepted(cmd, x)) /\ Converted(x) = R[n + 1]
  BY <1>4, <1>5, Renamings, ResultsOfType
<1>7. CASE Parses(From, x) /\ Convertible(x)
  <2>1. status' = "convert" /\ current' = [current EXCEPT !.objs = Append(@, Converted(x))]
    BY <1>1, <1>4, <1>7 DEF ConvertDocument
  <2>2. current = [file |-> current.file, objs |-> current.objs]
    BY <1>1, <1>4 DEF Converting
  <2>3. current' = [file |-> current.file, objs |-> Append(current.objs, R[n + 1])]
    BY <1>6, <2>1, <2>2
  <2>4. current'.file = current.file /\ current'.objs = Append(current.objs, R[n + 1]) /\ current' # None
    BY <2>3 DEF None
  <2> HIDE DEF R, docs
  <2> DEFINE new == Append(current.objs, R[n + 1])
  <2>5. new = SubSeq(R, 1, n + 1) /\ Len(new) = n + 1
    BY <1>4, <1>5
  <2> HIDE DEF n, new
  <2>6. Len(current'.objs) = n + 1 /\ current'.objs = SubSeq(R, 1, n + 1)
    BY <2>4, <2>5 DEF new
  <2>7. \A i \in 1..n + 1 : Good(cmd, docs[i])
    <3>1. \A i \in 1..n + 1 : i \in 1..n \/ i = n + 1
      BY <1>5
    <3>2. \A i \in 1..n : Good(cmd, docs[i])
      BY <1>1, <1>4 DEF Converting, n, docs
    <3>3. Good(cmd, docs[n + 1])
      BY <1>6, <1>7 DEF Good
    <3> QED BY <3>1, <3>2, <3>3
  <2>8. FileDatasOK'
    BY <1>2, <1>4 DEF Converting, FileDatasOK
  <2>9. InHand' = InHand
    BY <1>1, <2>4 DEF InHand
  <2>10. current' = [file |-> current'.file, objs |-> current'.objs]
    BY <2>3
  <2>11. n + 1 \in 0..Len(docs)
    BY <1>4, <1>5
  <2>12. Converting'
    BY <1>2, <1>4, <2>4, <2>6, <2>7, <2>8, <2>9, <2>10, <2>11 DEF Converting, docs, R
  <2>13. TypeOK'
    BY <1>2, <1>3, <1>4, <2>1, <2>4 DEF ShortInv, TypeOK, Ended
  <2> QED BY <1>1, <1>2, <1>3, <2>1, <2>12, <2>13 DEF ShortInv
<1>8. CASE ~(Parses(From, x) /\ Convertible(x))
  <2>1. status' = "error" /\ current' = current
    BY <1>1, <1>4, <1>8 DEF ConvertDocument
  <2>2. x \in Range(docs)
    BY <1>4, <1>5 DEF Range
  <2>3. ~Good(cmd, x)
    BY <1>6, <1>8 DEF Good
  <2>4. Cause
    BY <1>4, <2>2, <2>3, FaultyDocument
  <2>5. TypeOK'
    BY <1>2, <1>3, <2>1 DEF ShortInv, TypeOK, Ended
  <2> QED BY <1>1, <1>2, <1>3, <2>1, <2>4, <2>5 DEF ShortInv
<1> QED BY <1>7, <1>8

\* The results of a file are appended to those of the files before it.
LEMMA FileConvertedStep ==
  ASSUME ShortInv, FileConverted
  PROVE  ShortInv'
<1> DEFINE f == current.file
           done == DOMAIN fileDatas \ (remaining \cup InHand)
<1>1. /\ status = "convert" /\ current # None /\ Len(current.objs) = Len(fileDatas[f])
      /\ convertedData' = convertedData \o current.objs /\ current' = None
      /\ UNCHANGED <<inputs, status, loading, reading, remaining, writing>>
  BY DEF FileConverted
<1>2. /\ cmd' = cmd /\ disk' = disk /\ status' = status /\ loaded' = loaded /\ outcome' = outcome
      /\ fileIx' = fileIx /\ fileDatas' = fileDatas /\ remaining' = remaining
      /\ buf' = buf /\ written' = written /\ stdout' = stdout
  BY <1>1 DEF inputs, loading, reading, writing
<1>3. /\ ToRead' = ToRead /\ (ArgsOK' <=> ArgsOK) /\ (OutputOK' <=> OutputOK) /\ (Cause' <=> Cause)
  BY <1>1, InputsFixed
<1>4. /\ cmd \in Commands /\ disk \in Disks /\ Converting
      /\ f \in DOMAIN disk
      /\ f \in DOMAIN fileDatas \ remaining
      /\ disk[f] # Unreadable
      /\ fileDatas[f] = disk[f]
      /\ disk[f] \in Seq(AllDocs)
      /\ ResultsOf(cmd, disk[f]) \in Seq(AllResults)
      /\ Len(ResultsOf(cmd, disk[f])) = Len(disk[f])
      /\ current.objs = SubSeq(ResultsOf(cmd, disk[f]), 1, Len(current.objs))
  BY <1>1, FileInHand
<1>5. InHand = {f} /\ InHand' = {}
  BY <1>1 DEF InHand
<1>6. f \notin done /\ DOMAIN fileDatas \ (remaining' \cup InHand') = done \cup {f}
  BY <1>2, <1>4, <1>5
<1>7. done \subseteq DOMAIN disk /\ IsFiniteSet(done)
  <2>1. DOMAIN fileDatas = Range(FilesOf(cmd))
    BY <1>4 DEF Converting
  <2> QED BY <1>4, <2>1, WantedType, FilesAreFinite, FS_Subset
<1>8. PICK order \in Orders(done) :
        /\ convertedData = ResultsOf(cmd, DocsOf(disk, order))
        /\ \A x \in Range(DocsOf(disk, order)) : Good(cmd, x)
  BY <1>4 DEF Converting
<1> HIDE DEF done
<1>9. order \in Seq(done) /\ Append(order, f) \in Orders(done \cup {f})
  BY <1>6, <1>7, OrderMore
<1>10. order \in Seq(DOMAIN disk)
  BY <1>7, <1>9, SeqMonotonic
<1>11. DocsOf(disk, order) \in Seq(AllDocs)
  BY <1>4, <1>10, DocsOfType
<1>12. DocsOf(disk, Append(order, f)) = DocsOf(disk, order) \o disk[f]
  <2>1. DocsIn(disk, f) = disk[f]
    BY <1>4 DEF DocsIn
  <2> HIDE DEF f
  <2> QED BY <1>4, <1>10, <2>1, DocsOfAppend
<1>13. current.objs = ResultsOf(cmd, disk[f])
  <2>1. current.objs = SubSeq(ResultsOf(cmd, disk[f]), 1, Len(ResultsOf(cmd, disk[f])))
    BY <1>1, <1>4
  <2>2. ASSUME NEW T, NEW s \in Seq(T) PROVE SubSeq(s, 1, Len(s)) = s
    OBVIOUS
  <2> QED BY <1>4, <2>1, <2>2
<1>14. convertedData' = ResultsOf(cmd, DocsOf(disk, Append(order, f)))
  <2>1. ASSUME NEW a \in Seq(AllDocs), NEW b \in Seq(AllDocs)
        PROVE  ResultsOf(cmd, a \o b) = ResultsOf(cmd, a) \o ResultsOf(cmd, b)
    BY ResultsOfConcat
  <2>2. ResultsOf(cmd, DocsOf(disk, order) \o disk[f]) = ResultsOf(cmd, DocsOf(disk, order)) \o ResultsOf(cmd, disk[f])
    BY <1>4, <1>11, <2>1
  <2> QED BY <1>1, <1>8, <1>12, <1>13, <2>2
<1>15. \A x \in Range(DocsOf(disk, Append(order, f))) : Good(cmd, x)
  <2>1. Range(DocsOf(disk, Append(order, f))) = Range(DocsOf(disk, order)) \cup Range(disk[f])
    <3>1. ASSUME NEW a \in Seq(AllDocs), NEW b \in Seq(AllDocs)
          PROVE  Range(a \o b) = Range(a) \cup Range(b)
      BY RangeConcatenation
    <3> QED BY <1>4, <1>11, <1>12, <3>1
  <2>2. DOMAIN disk[f] = 1..Len(disk[f])
    BY <1>4
  <2>3. \A x \in Range(disk[f]) : Good(cmd, x)
    BY <1>1, <1>4, <2>2 DEF Converting, Range
  <2> QED BY <1>8, <2>1, <2>3
<1>16. Converting'
  <2>1. FileDatasOK'
    BY <1>2, <1>4 DEF Converting, FileDatasOK
  <2>2. \E o \in Orders(DOMAIN fileDatas \ (remaining' \cup InHand')) :
          /\ convertedData' = ResultsOf(cmd, DocsOf(disk, o))
          /\ \A x \in Range(DocsOf(disk, o)) : Good(cmd, x)
    BY <1>6, <1>9, <1>14, <1>15
  <2> QED BY <1>1, <1>2, <1>4, <2>1, <2>2 DEF Converting
<1>17. convertedData' \in Seq(AllResults) /\ written' \in 0..Len(convertedData')
  <2>1. convertedData \in Seq(AllResults) /\ written = 0
    BY <1>1 DEF ShortInv
  <2>2. convertedData' \in Seq(AllResults)
    BY <1>1, <1>4, <1>13, <2>1, ConcatType
  <2> QED BY <1>2, <2>1, <2>2
<1>18. TypeOK'
  BY <1>1, <1>2, <1>3, <1>17 DEF ShortInv, TypeOK, Ended
<1> QED BY <1>1, <1>2, <1>3, <1>16, <1>17, <1>18 DEF ShortInv

\* The loop over fileDatas ends: its files have been converted in some order.
LEMMA AllConvertedStep ==
  ASSUME ShortInv, AllConverted
  PROVE  ShortInv'
<1>1. /\ status = "convert" /\ status' = "write" /\ current = None /\ remaining = {}
      /\ UNCHANGED <<inputs, loading, reading, converting, writing>>
  BY DEF AllConverted
<1>2. /\ cmd' = cmd /\ disk' = disk /\ loaded' = loaded /\ outcome' = outcome /\ fileIx' = fileIx
      /\ fileDatas' = fileDatas /\ current' = current /\ remaining' = remaining
      /\ convertedData' = convertedData /\ buf' = buf /\ written' = written /\ stdout' = stdout
  BY <1>1 DEF inputs, loading, reading, converting, writing
<1>3. /\ ToRead' = ToRead /\ (ArgsOK' <=> ArgsOK) /\ (OutputOK' <=> OutputOK) /\ (Cause' <=> Cause)
  BY <1>1, InputsFixed
<1>4. cmd \in Commands /\ disk \in Disks /\ Converting /\ written = 0 /\ buf = <<>> /\ convertedData \in Seq(AllResults)
  BY <1>1 DEF ShortInv, TypeOK
<1>5. DOMAIN fileDatas \ (remaining \cup InHand) = Range(FilesOf(cmd))
  BY <1>1, <1>4 DEF InHand, Converting
<1>6. PICK order \in Orders(Range(FilesOf(cmd))) :
        /\ convertedData = ResultsOf(cmd, DocsOf(disk, order))
        /\ \A x \in Range(DocsOf(disk, order)) : Good(cmd, x)
  BY <1>4, <1>5 DEF Converting
<1>7. DocsOf(disk, order) \in Printable(cmd, disk)
  BY <1>4 DEF Printable, Converting
<1>8. \A f \in Range(FilesOf(cmd)) : disk[f] # Unreadable
  BY <1>4 DEF Converting, FileDatasOK
<1>9. buf = FramedBy(SeparatorOf(cmd), SubSeq(convertedData, 1, written))
  <2>1. SubSeq(convertedData, 1, written) = <<>>
    BY <1>4
  <2> QED BY <1>4, <2>1 DEF FramedBy
<1>10. Writing'
  <2>1. \A i \in 1..written : Marshals(convertedData[i])
    BY <1>4
  <2>2. \E docs \in Printable(cmd, disk) :
          /\ convertedData = ResultsOf(cmd, docs)
          /\ \A x \in Range(docs) : Good(cmd, x)
    BY <1>6, <1>7
  <2> QED BY <1>2, <1>8, <1>9, <2>1, <2>2 DEF Writing
<1>11. TypeOK'
  BY <1>1, <1>2, <1>3 DEF ShortInv, TypeOK, Ended
<1> QED BY <1>1, <1>2, <1>3, <1>10, <1>11 DEF ShortInv

\* The documents whose results may be printed are those of the files.
LEMMA PrintableDocs ==
  ASSUME cmd \in Commands, disk \in Disks, NEW docs \in Printable(cmd, disk)
  PROVE  /\ docs \in Seq(AllDocs)
         /\ \A x : x \in Range(docs) <=> \E f \in Range(FilesOf(cmd)) : x \in Range(DocsIn(disk, f))
<1>1. \E files \in Seq(DOMAIN disk) : docs = DocsOf(disk, files) /\ Range(files) = Range(FilesOf(cmd))
  <2>1. CASE UsesImports(cmd)
    BY <2>1, WantedType DEF Printable
  <2>2. CASE ~UsesImports(cmd)
    <3>1. PICK order \in Orders(Range(FilesOf(cmd))) : docs = DocsOf(disk, order)
      BY <2>2 DEF Printable
    <3>2. order \in [1..Cardinality(Range(FilesOf(cmd))) -> Range(FilesOf(cmd))] /\ Range(order) = Range(FilesOf(cmd))
      BY DEF Orders, SetToSeqs
    <3>3. Cardinality(Range(FilesOf(cmd))) \in Nat
      BY FilesAreFinite, FS_CardinalityType
    <3>4. order \in Seq(Range(FilesOf(cmd)))
      BY <3>2, <3>3
    <3>5. order \in Seq(DOMAIN disk)
      BY <3>4, WantedType, SeqMonotonic
    <3> QED BY <3>1, <3>2, <3>5
  <2> QED BY <2>1, <2>2
<1> QED BY <1>1, DocsOfType

\* The next result is serialized into the buffer, or cannot be.
LEMMA WriteObjectStep ==
  ASSUME ShortInv, WriteObject
  PROVE  ShortInv'
<1> DEFINE obj == convertedData[written + 1]
           sep == IF written > 0 THEN <<Separator>> ELSE <<>>
<1>1. status = "write" /\ written < Len(convertedData) /\ UNCHANGED <<inputs, loading, reading, converting>>
  BY DEF WriteObject
<1>2. /\ cmd' = cmd /\ disk' = disk /\ loaded' = loaded /\ outcome' = outcome /\ fileIx' = fileIx
      /\ fileDatas' = fileDatas /\ current' = current /\ remaining' = remaining /\ convertedData' = convertedData
  BY <1>1 DEF inputs, loading, reading, converting
<1>3. /\ ToRead' = ToRead /\ (ArgsOK' <=> ArgsOK) /\ (OutputOK' <=> OutputOK) /\ (Cause' <=> Cause)
  BY <1>1, InputsFixed
<1>4. /\ cmd \in Commands /\ disk \in Disks /\ Writing
      /\ convertedData \in Seq(AllResults) /\ written \in 0..Len(convertedData)
  BY <1>1 DEF ShortInv, TypeOK
<1>5. written + 1 \in 1..Len(convertedData) /\ written \in Nat
  BY <1>1, <1>4
<1>6. Separator = SeparatorOf(cmd)
  BY Renamings
<1>7. CASE Marshals(obj)
  <2>1. /\ buf' = buf \o sep \o <<obj>> /\ written' = written + 1 /\ status' = status /\ stdout' = stdout
    BY <1>1, <1>7 DEF WriteObject
  <2>2. PICK objs : objs = SubSeq(convertedData, 1, written)
    OBVIOUS
  <2>3. /\ objs \in Seq(AllResults) /\ obj \in AllResults /\ Len(objs) = written
        /\ SubSeq(convertedData, 1, written + 1) = Append(objs, obj)
    BY <1>4, <1>5, <2>2
  <2>4. FramedBy(SeparatorOf(cmd), Append(objs, obj)) =
          FramedBy(SeparatorOf(cmd), objs) \o (IF Len(objs) > 0 THEN <<SeparatorOf(cmd)>> ELSE <<>>) \o <<obj>>
    BY <2>3, FramedByAppend, SMTT(30)
  <2>5. buf' = FramedBy(SeparatorOf(cmd), SubSeq(convertedData, 1, written + 1))
    BY <1>4, <1>6, <2>1, <2>2, <2>3, <2>4 DEF Writing
  <2>6. \A i \in 1..written + 1 : Marshals(convertedData[i])
    <3>1. \A i \in 1..written + 1 : i \in 1..written \/ i = written + 1
      BY <1>5
    <3> QED BY <1>4, <1>7, <3>1 DEF Writing
  <2>7. Writing'
    BY <1>2, <1>4, <2>1, <2>5, <2>6 DEF Writing
  <2>8. written' \in 0..Len(convertedData')
    BY <1>2, <1>4, <1>5, <2>1
  <2>9. TypeOK'
    BY <1>1, <1>2, <1>3, <2>1, <2>8 DEF ShortInv, TypeOK, Ended
  <2> QED BY <1>1, <1>2, <1>3, <2>1, <2>7, <2>9 DEF ShortInv
<1>8. CASE ~Marshals(obj)
  <2>1. status' = "error" /\ buf' = buf /\ written' = written /\ stdout' = stdout
    BY <1>1, <1>8 DEF WriteObject, writing
  <2>2. PICK docs \in Printable(cmd, disk) : convertedData = ResultsOf(cmd, docs)
    BY <1>4 DEF Writing
  <2>3. docs \in Seq(AllDocs)
    BY <1>4, PrintableDocs
  <2>4. /\ written + 1 \in 1..Len(docs)
        /\ obj = [doc |-> docs[written + 1], from |-> SyntaxOf(cmd)]
    BY <1>5, <2>2, <2>3, ResultsOfType
  <2>5. docs[written + 1] \in Range(docs)
    BY <2>3, <2>4 DEF Range
  <2>6. PICK f \in Range(FilesOf(cmd)) : docs[written + 1] \in Range(DocsIn(disk, f))
    BY <1>4, <2>5, PrintableDocs
  <2>7. disk[f] # Unreadable /\ docs[written + 1] \in Range(disk[f])
    BY <1>4, <2>6 DEF Writing, DocsIn
  <2>8. Cause
    BY <1>4, <1>8, <2>4, <2>7, FaultyDocument
  <2>9. TypeOK'
    BY <1>2, <1>3, <2>1 DEF ShortInv, TypeOK, Ended
  <2> QED BY <1>1, <1>2, <1>3, <2>1, <2>8, <2>9 DEF ShortInv
<1> QED BY <1>7, <1>8

\* The buffer is printed.
LEMMA OutputStep ==
  ASSUME ShortInv, Output
  PROVE  ShortInv'
<1>1. /\ status = "write" /\ written = Len(convertedData) /\ stdout' = buf /\ status' = "done"
      /\ UNCHANGED <<inputs, loading, reading, converting, buf, written>>
  BY DEF Output
<1>2. /\ cmd' = cmd /\ disk' = disk /\ loaded' = loaded /\ outcome' = outcome /\ fileIx' = fileIx
      /\ fileDatas' = fileDatas /\ current' = current /\ remaining' = remaining
      /\ convertedData' = convertedData /\ buf' = buf /\ written' = written
  BY <1>1 DEF inputs, loading, reading, converting
<1>3. /\ ToRead' = ToRead /\ (ArgsOK' <=> ArgsOK) /\ (OutputOK' <=> OutputOK) /\ (Cause' <=> Cause)
  BY <1>1, InputsFixed
<1>4. Writing'
  BY <1>1, <1>2 DEF ShortInv, Writing
<1>5. TypeOK'
  BY <1>1, <1>2, <1>3 DEF ShortInv, TypeOK, Ended
<1> QED BY <1>1, <1>2, <1>3, <1>4, <1>5 DEF ShortInv

\* A step that changes nothing.
LEMMA ShortStutters ==
  ASSUME ShortInv, UNCHANGED vars
  PROVE  ShortInv'
<1>1. /\ cmd' = cmd /\ disk' = disk /\ status' = status /\ loaded' = loaded /\ outcome' = outcome /\ fileIx' = fileIx
      /\ fileDatas' = fileDatas /\ current' = current /\ remaining' = remaining
      /\ convertedData' = convertedData /\ buf' = buf /\ written' = written /\ stdout' = stdout
  BY DEF vars, inputs, loading, reading, converting, writing
<1>2. /\ ToRead' = ToRead /\ (ArgsOK' <=> ArgsOK) /\ (OutputOK' <=> OutputOK) /\ (Cause' <=> Cause)
  BY InputsFixed DEF vars
<1>3. TypeOK'
  BY <1>1, <1>2 DEF ShortInv, TypeOK, Ended
<1>4. InHand' = InHand /\ (FileDatasOK => FileDatasOK')
  BY <1>1 DEF InHand, FileDatasOK
<1>5. /\ Loading => Loading'
      /\ ModulesLoaded => ModulesLoaded'
      /\ Reading => Reading'
      /\ Converting => Converting'
      /\ Writing => Writing'
  BY <1>1, <1>4 DEF Loading, ModulesLoaded, Reading, Converting, Writing
<1> QED BY <1>1, <1>2, <1>3, <1>5 DEF ShortInv

\* The invariant holds from the start, and every step keeps it.
THEOREM ShortInvariant == Spec => []ShortInv
<1>1. Init => ShortInv
  <2> SUFFICES ASSUME Init PROVE ShortInv
    OBVIOUS
  <2>1. ToRead \in Seq(DOMAIN disk)
    BY WantedType, Renamings DEF Init
  <2>2. fileIx \in 1..Len(ToRead) + 1
    BY <2>1 DEF Init
  <2>3. convertedData = <<>> /\ written = 0
    BY DEF Init
  <2>4. convertedData \in Seq(AllResults) /\ written \in 0..Len(convertedData)
    BY <2>3
  <2>5. TypeOK
    BY <2>2, <2>4 DEF Init, TypeOK
  <2> QED BY <2>4, <2>5 DEF Init, ShortInv
<1>2. ShortInv /\ [Next]_vars => ShortInv'
  BY ValidateStep, LoadStep, ConvertModuleStep, ModulesConvertedStep, ReadFileStep, AllReadStep, PickFileStep,
     ConvertDocumentStep, FileConvertedStep, AllConvertedStep, WriteObjectStep, OutputStep, ShortStutters DEF Next
<1> QED BY <1>1, <1>2, PTL DEF Spec

\* Type correctness: the loops of the command stay in range, and only files
\* that are named, or the standard input, are read and converted.
THEOREM ShortTypeCorrect == Spec => []TypeOK
<1>1. ShortInv => TypeOK
  BY DEF ShortInv
<1> QED BY <1>1, ShortInvariant, PTL

\* Whatever the files contain, however many they are and whichever step
\* fails: nothing is printed unless everything can be, and then nothing is
\* missing, torn apart or out of its file's order.
THEOREM PrintsAllOrNothing == Spec => []AllOrNothing
<1>1. ShortInv => AllOrNothing
  <2> SUFFICES ASSUME ShortInv PROVE AllOrNothing
    OBVIOUS
  <2>1. CASE status # "done"
    BY <2>1 DEF ShortInv, AllOrNothing
  <2>2. CASE status = "done"
    <3>1. Writing /\ written = Len(convertedData) /\ stdout = buf /\ convertedData \in Seq(AllResults)
      BY <2>2 DEF ShortInv
    <3>2. stdout = FramedBy(SeparatorOf(cmd), convertedData)
      <4>1. SubSeq(convertedData, 1, Len(convertedData)) = convertedData
        BY <3>1
      <4> QED BY <3>1, <4>1 DEF Writing
    <3>3. PICK docs \in Printable(cmd, disk) : convertedData = ResultsOf(cmd, docs)
      BY <3>1 DEF Writing
    <3>4. stdout = Framed(Results(docs))
      <4>1. Results(docs) = ResultsOf(cmd, docs)
        BY Renamings
      <4>2. Framed(convertedData) = FramedBy(SeparatorOf(cmd), convertedData)
        BY Renamings
      <4> QED BY <3>2, <3>3, <4>1, <4>2
    <3>5. CASE UsesImports(cmd)
      <4>1. docs = Wanted
        BY <3>5, Renamings DEF Printable
      <4>2. cmd.kubeNative /\ ~UseStdin
        BY <3>5, Renamings
      <4> QED BY <2>2, <3>4, <4>1, <4>2 DEF AllOrNothing, MayPrint
    <3>6. CASE ~UsesImports(cmd)
      <4>1. PICK order \in Orders(Range(FilesOf(cmd))) : docs = DocsOf(disk, order)
        BY <3>6 DEF Printable
      <4>2. order \in SetToSeqs(Range(ToRead))
        BY Renamings DEF Orders
      <4>3. docs = FlattenSeq([i \in DOMAIN order |-> SectionsOf(order[i])])
        BY <4>1 DEF DocsOf, DocsIn, SectionsOf
      <4>4. ~(cmd.kubeNative /\ ~UseStdin)
        BY <3>6, Renamings
      <4>5. MayPrint(stdout)
        BY <3>4, <4>2, <4>3, <4>4 DEF MayPrint
      <4> QED BY <2>2, <4>5 DEF AllOrNothing
    <3> QED BY <3>5, <3>6
  <2> QED BY <2>1, <2>2
<1> QED BY <1>1, ShortInvariant, PTL

\* No error is swallowed, however late it is met and however many documents
\* were converted before it; and short fails for no other reason, unless
\* loading with imports failed.
THEOREM ErrorsHaveACause == Spec => []FailsWithCause
<1>1. ShortInv => FailsWithCause
  <2> SUFFICES ASSUME ShortInv PROVE FailsWithCause
    OBVIOUS
  <2>1. ASSUME status = "done" PROVE ~Cause
    <3>1. /\ cmd \in Commands /\ disk \in Disks /\ Writing /\ written = Len(convertedData)
          /\ ArgsOK /\ OutputOK
      BY <2>1 DEF ShortInv, TypeOK
    <3>2. PICK docs \in Printable(cmd, disk) :
            /\ convertedData = ResultsOf(cmd, docs)
            /\ \A x \in Range(docs) : Good(cmd, x)
      BY <3>1 DEF Writing
    <3>3. docs \in Seq(AllDocs)
      BY <3>1, PrintableDocs
    <3>4. ASSUME NEW f \in Range(FilesOf(cmd)), NEW x \in Range(disk[f])
          PROVE  Good(cmd, x) /\ Marshals([doc |-> x, from |-> SyntaxOf(cmd)])
      <4>1. x \in Range(DocsIn(disk, f))
        BY <3>1 DEF Writing, DocsIn
      <4>2. x \in Range(docs)
        BY <3>1, <4>1, PrintableDocs
      <4>3. PICK i \in 1..Len(docs) : x = docs[i]
        BY <3>3, <4>2 DEF Range
      <4>4. convertedData[i] = [doc |-> x, from |-> SyntaxOf(cmd)] /\ Len(convertedData) = Len(docs)
        BY <3>2, <3>3, <4>3, ResultsOfType
      <4>5. Marshals(convertedData[i])
        BY <3>1, <4>3, <4>4 DEF Writing
      <4> QED BY <3>2, <4>2, <4>4, <4>5
    <3>5. \A f \in Range(FilesOf(cmd)) : disk[f] # Unreadable
      BY <3>1 DEF Writing
    <3> QED BY <3>1, <3>4, <3>5, NothingWrong
  <2> QED BY <2>1 DEF ShortInv, FailsWithCause
<1> QED BY <1>1, ShortInvariant, PTL
=============================================================================
