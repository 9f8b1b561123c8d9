------------------------------- MODULE Short -------------------------------
(***************************************************************************)
(* The command short (cmd/root_cmd.go, cmd/short.go) and the loops of      *)
(* package client it runs: arguments are validated, files are read,        *)
(* documents are converted one by one, the results are written to a        *)
(* buffer, and the buffer is printed at the very end.                      *)
(*                                                                         *)
(* Files in Short syntax are loaded with their imports: that is module     *)
(* Imports, of which only what module Loader promises is used here.        *)
(* Documents are opaque; what parsers, converters and encoders make of     *)
(* one is given by the operators below.                                    *)
(***************************************************************************)
EXTENDS Integers, Sequences, FiniteSets, SequencesExt

CONSTANTS
  Commands,           \* records with args, filenames, kubeNative and output
  Disks,              \* functions from files to their documents
  ToLower(_),         \* an output format in lower case
  Stdin,              \* the key of the standard input in fileDatas
  Unreadable,         \* opening or decoding a file returns an error
  Parses(_, _),       \* does a document parse as "koki" or "kube"?
  Extraneous(_, _),   \* has it fields that this syntax does not know?
  Converts(_, _),     \* can it be converted from this syntax?
  Marshals(_)         \* can the result be serialized?

ASSUME CommandsAssumption ==
  \A c \in Commands :
    /\ c.args \in Seq(STRING)
    /\ \A d \in Disks : c.filenames \in Seq(DOMAIN d)

ASSUME DisksAssumption ==
  \A d \in Disks :
    /\ Stdin \in DOMAIN d
    /\ \A f \in DOMAIN d : d[f] = Unreadable \/ d[f] \in Seq(Range(d[f]))

VARIABLES
  cmd, disk,       \* arguments and files, fixed while the program runs
  status,          \* where short is, or how it ended
  loaded, outcome, \* the state of loadKokiFiles
  fileIx,          \* loop index over the files that are read
  fileDatas,       \* documents by file, a map
  current,         \* the file being converted, with the number of its documents done
  remaining,       \* the keys of fileDatas the loop has not visited
  convertedData,
  buf, written,    \* what is in the buffer, and the results it holds
  stdout

inputs == <<cmd, disk>>
loading == <<loaded, outcome>>
reading == <<fileIx, fileDatas>>
converting == <<current, remaining, convertedData>>
writing == <<buf, written, stdout>>
vars == <<inputs, status, loading, reading, converting, writing>>

None == <<>>
Ended == {"done", "error"}

UseStdin == cmd.args = <<"-">>
From == IF cmd.kubeNative THEN "koki" ELSE "kube"

Init ==
  /\ cmd \in Commands
  /\ disk \in Disks
  /\ status = "validate"
  /\ loaded = <<>>
  /\ outcome = "running"
  /\ fileIx = 1
  /\ fileDatas = <<>>
  /\ current = None
  /\ remaining = {}
  /\ convertedData = <<>>
  /\ buf = <<>>
  /\ written = 0
  /\ stdout = <<>>

-----------------------------------------------------------------------------
(***************************************************************************)
(* Arguments: at most a dash, and no files with it.                        *)
(***************************************************************************)
\* A variant: the dash is looked for wherever it stands.
ArgsWithDash == "-" \in Range(cmd.args) \/ cmd.args = <<>>

ArgsOK == cmd.args = <<>> \/ (UseStdin /\ cmd.filenames = <<>>)

OutputOK == ToLower(cmd.output) \in {"yaml", "json"}

Validate ==
  /\ status = "validate"
  /\ status' = IF ~ArgsOK \/ ~OutputOK THEN "error"
               ELSE IF ~UseStdin /\ cmd.kubeNative THEN "load"
               ELSE "read"
  /\ UNCHANGED <<inputs, loading, reading, converting, writing>>

-----------------------------------------------------------------------------
(***************************************************************************)
(* loadKokiFiles, as the abstract loader describes it, and                 *)
(* convertKokiModules.                                                     *)
(***************************************************************************)
SectionsOf(f) == IF disk[f] = Unreadable THEN <<>> ELSE disk[f]
Wanted == FlattenSeq([i \in DOMAIN cmd.filenames |-> SectionsOf(cmd.filenames[i])])

Files ==
  INSTANCE Loader
    WITH wanted   <- Wanted,
         readable <- \A i \in DOMAIN cmd.filenames : disk[cmd.filenames[i]] # Unreadable

\* A module that is collected has parsed; loading may fail for what is
\* imported as well, which is not visible here.
Load ==
  /\ status = "load"
  /\ UNCHANGED inputs
  /\ \/ /\ Files!LoadNext
        /\ Parses("koki", Wanted[Len(loaded) + 1])
        /\ UNCHANGED status
     \/ Files!Succeed /\ status' = "modules"
     \/ Files!Fail /\ status' = "error"
  /\ UNCHANGED <<reading, converting, writing>>

\* The check for unknown fields, and the conversion of one document.
Convertible(d) == ~Extraneous(From, d) /\ Converts(From, d)
Converted(d) == [doc |-> d, from |-> From]

ConvertModule ==
  /\ status = "modules"
  /\ Len(convertedData) < Len(loaded)
  /\ LET d == loaded[Len(convertedData) + 1]
     IN  IF Convertible(d)
         THEN convertedData' = Append(convertedData, Converted(d)) /\ UNCHANGED status
         ELSE status' = "error" /\ UNCHANGED convertedData
  /\ UNCHANGED <<inputs, loading, reading, current, remaining, writing>>

ModulesConverted ==
  /\ status = "modules"
  /\ Len(convertedData) = Len(loaded)
  /\ status' = "write"
  /\ UNCHANGED <<inputs, loading, reading, converting, writing>>

-----------------------------------------------------------------------------
(***************************************************************************)
(* Everything else is read without imports.  fileDatas is a Go map: a file *)
(* that is named twice is read twice and kept once, and the files are      *)
(* converted in an order the runtime chooses.                              *)
(***************************************************************************)
ToRead == IF UseStdin THEN <<Stdin>> ELSE cmd.filenames

\* A variant: the file is not done with when it is read.
ReadFileAgain ==
  /\ status = "read"
  /\ fileIx <= Len(ToRead)
  /\ LET f == ToRead[fileIx]
     IN  IF disk[f] = Unreadable
         THEN status' = "error" /\ UNCHANGED reading
         ELSE /\ fileDatas' = [x \in DOMAIN fileDatas \cup {f} |->
                                 IF x = f THEN disk[f] ELSE fileDatas[x]]
              /\ UNCHANGED <<status, fileIx>>
  /\ UNCHANGED <<inputs, loading, converting, writing>>

ReadFile ==
  /\ status = "read"
  /\ fileIx <= Len(ToRead)
  /\ LET f == ToRead[fileIx]
     IN  IF disk[f] = Unreadable
         THEN status' = "error" /\ UNCHANGED reading
         ELSE /\ fileDatas' = [x \in DOMAIN fileDatas \cup {f} |->
                                 IF x = f THEN disk[f] ELSE fileDatas[x]]
              /\ fileIx' = fileIx + 1
              /\ UNCHANGED status
  /\ UNCHANGED <<inputs, loading, converting, writing>>

AllRead ==
  /\ status = "read"
  /\ fileIx > Len(ToRead)
  /\ status' = "convert"
  /\ remaining' = DOMAIN fileDatas
  /\ UNCHANGED <<inputs, loading, reading, current, convertedData, writing>>

\* A variant: the loop may visit a file again.
PickFileKeeps ==
  /\ status = "convert"
  /\ current = None
  /\ \E f \in remaining : current' = [file |-> f, objs |-> <<>>]
  /\ UNCHANGED <<inputs, status, loading, reading, remaining, convertedData, writing>>

PickFile ==
  /\ status = "convert"
  /\ current = None
  /\ \E f \in remaining :
       /\ current' = [file |-> f, objs |-> <<>>]
       /\ remaining' = remaining \ {f}
  /\ UNCHANGED <<inputs, status, loading, reading, convertedData, writing>>

\* A step of ConvertKokiMaps or ConvertKubeMaps.
ConvertDocument ==
  /\ status = "convert"
  /\ current # None
  /\ Len(current.objs) < Len(fileDatas[current.file])
  /\ LET d == fileDatas[current.file][Len(current.objs) + 1]
     IN  IF Parses(From, d) /\ Convertible(d)
         THEN current' = [current EXCEPT !.objs = Append(@, Converted(d))] /\ UNCHANGED status
         ELSE status' = "error" /\ UNCHANGED current
  /\ UNCHANGED <<inputs, loading, reading, remaining, convertedData, writing>>

FileConverted ==
  /\ status = "convert"
  /\ current # None
  /\ Len(current.objs) = Len(fileDatas[current.file])
  /\ convertedData' = convertedData \o current.objs
  /\ current' = None
  /\ UNCHANGED <<inputs, status, loading, reading, remaining, writing>>

AllConverted ==
  /\ status = "convert"
  /\ current = None
  /\ remaining = {}
  /\ status' = "write"
  /\ UNCHANGED <<inputs, loading, reading, converting, writing>>

-----------------------------------------------------------------------------
(***************************************************************************)
(* WriteObjsToYamlStream, WriteObjsToJSONStream and the output.            *)
(***************************************************************************)
Separator == IF ToLower(cmd.output) = "yaml" THEN "---" ELSE "newline"

\* A variant: results go to the standard output as they are written.
WriteThrough ==
  /\ status = "write"
  /\ written < Len(convertedData)
  /\ LET obj == convertedData[written + 1]
         sep == IF written > 0 THEN <<Separator>> ELSE <<>>
     IN  IF Marshals(obj)
         THEN /\ buf' = buf \o sep \o <<obj>>
              /\ stdout' = buf'
              /\ written' = written + 1
              /\ UNCHANGED status
         ELSE status' = "error" /\ UNCHANGED writing
  /\ UNCHANGED <<inputs, loading, reading, converting>>

WriteObject ==
  /\ status = "write"
  /\ written < Len(convertedData)
  /\ LET obj == convertedData[written + 1]
         sep == IF written > 0 THEN <<Separator>> ELSE <<>>
     IN  IF Marshals(obj)
         THEN /\ buf' = buf \o sep \o <<obj>>
              /\ written' = written + 1
              /\ UNCHANGED <<status, stdout>>
         ELSE status' = "error" /\ UNCHANGED writing
  /\ UNCHANGED <<inputs, loading, reading, converting>>

Output ==
  /\ status = "write"
  /\ written = Len(convertedData)
  /\ stdout' = buf
  /\ status' = "done"
  /\ UNCHANGED <<inputs, loading, reading, converting, buf, written>>

-----------------------------------------------------------------------------
Next ==
  \/ Validate \/ Load \/ ConvertModule \/ ModulesConverted
  \/ ReadFile \/ AllRead \/ PickFile \/ ConvertDocument \/ FileConverted \/ AllConverted
  \/ WriteObject \/ Output

\* One goroutine: as long as it has a step to take, it takes it.
Spec == Init /\ [][Next]_vars /\ WF_vars(Next)
-----------------------------------------------------------------------------
(***************************************************************************)
(* Properties                                                              *)
(***************************************************************************)
\* Type correctness: loop indexes stay in range and only files that are
\* named, or the standard input, are read and converted.
TypeOK ==
  /\ cmd \in Commands
  /\ disk \in Disks
  /\ status \in {"validate", "load", "modules", "read", "convert", "write"} \cup Ended
  /\ fileIx \in 1..Len(ToRead) + 1
  /\ DOMAIN fileDatas \subseteq Range(ToRead)
  /\ remaining \subseteq DOMAIN fileDatas
  /\ current # None => current.file \in DOMAIN fileDatas \ remaining
  /\ written \in 0..Len(convertedData)

Results(docs) == [i \in DOMAIN docs |-> Converted(docs[i])]

\* Objects with a separator between any two of them.
Framed(objs) ==
  [i \in 1..2 * Len(objs) - 1 |-> IF i % 2 = 1 THEN objs[(i + 1) \div 2] ELSE Separator]

\* What may be printed: with imports, the documents in the order of the
\* command line; without, those of a file in their order, but the files in
\* any order, each of them once.
MayPrint(out) ==
  IF cmd.kubeNative /\ ~UseStdin THEN out = Framed(Results(Wanted))
  ELSE \E order \in SetToSeqs(Range(ToRead)) :
         out = Framed(Results(FlattenSeq([i \in DOMAIN order |-> SectionsOf(order[i])])))

\* Nothing is printed unless everything can be, and then nothing is missing,
\* torn apart or out of its file's order: no error, in whatever step, leaves
\* part of the output behind.
AllOrNothing ==
  IF status = "done" THEN MayPrint(stdout) ELSE stdout = <<>>

UsageError ==
  \/ \E i \in DOMAIN cmd.args : cmd.args[i] # "-"
  \/ Len(cmd.args) > 1
  \/ cmd.args # <<>> /\ cmd.filenames # <<>>
  \/ ToLower(cmd.output) \notin {"yaml", "json"}

Faulty(d) == ~Parses(From, d) \/ Extraneous(From, d) \/ ~Converts(From, d) \/ ~Marshals(Converted(d))

\* Something is wrong with what short has been given.
Cause ==
  \/ UsageError
  \/ \E i \in DOMAIN ToRead :
       \/ disk[ToRead[i]] = Unreadable
       \/ \E j \in DOMAIN disk[ToRead[i]] : Faulty(disk[ToRead[i]][j])

\* No error is swallowed, however late it is met and however many documents
\* were converted before it; and without imports, which may fail for reasons
\* of their own, short fails for no other reason.
FailsWithCause ==
  /\ status = "done" => ~Cause
  /\ status = "error" /\ outcome # "failed" => Cause

\* short ends.
Termination == <>(status \in Ended)
=============================================================================
