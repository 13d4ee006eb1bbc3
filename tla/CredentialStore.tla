--------------------------- MODULE CredentialStore ---------------------------
(***************************************************************************)
(* The three secret files of a trader: import_demo_credentials, which      *)
(* writes them once from a dotenv file, and what okx-client reads back     *)
(* (CredentialFiles, read_credential, Credentials::new).  A secret is      *)
(* abstracted to the import it came from and its kind, a file to how much  *)
(* of its secret it holds.  The importer may fail or be killed anywhere    *)
(* and the machine may crash; the operator may then remove the directory   *)
(* and import again.                                                       *)
(***************************************************************************)
EXTENDS Integers, Sequences

CONSTANTS
    Sources,        \* dotenv files to import from
    MaxImports      \* bound on the number of imports

\* The order in which importer and loader visit the files.
FIELDS == <<"key", "secret", "passphrase">>
Fields == {FIELDS[i] : i \in DOMAIN FIELDS}

\* A secret is a "line", or "lines" that end in line breaks, has "breaks"
\* inside, consists of them ("blank"), or has more than 1024 bytes ("long").
Kinds == {"line", "lines", "breaks", "blank", "long"}
Parts == {"none", "some", "all"}

\* A dotenv file; "absent" and "empty" stand for no value.
Source == [protected : BOOLEAN, parses : BOOLEAN, duplicate : BOOLEAN,
           values : [Fields -> Kinds \cup {"absent", "empty"}]]

ASSUME StoreAssumption == Sources \subseteq Source /\ MaxImports \in Nat

\* A file: whose secret, of which import (0: of the operator), how much of it,
\* whether it is on disk, whether it is a regular file only its owner can read.
File == [field : Fields, attempt : 0..MaxImports, kind : Kinds, part : Parts,
         synced : BOOLEAN, protected : BOOLEAN]
NoFile == [part |-> "gone"]

VARIABLES
    directory,  \* the destination exists
    files,      \* per field: its file, or NoFile
    importer    \* where the import stands, and its number

storeVars == <<directory, files, importer>>

NoFiles == [f \in Fields |-> NoFile]

ImporterRuns == importer.at \in {"ready", "create", "write", "sync"}

StoreTypeOK ==
    /\ directory \in BOOLEAN
    /\ files \in [Fields -> File \cup {NoFile}]
    /\ importer \in [at : {"ready", "create", "write", "sync", "done", "failed"},
                     attempt : 0..MaxImports, next : 1..3, values : [Fields -> Kinds]]
    /\ ~directory => files = NoFiles

NoValues == [f \in Fields |-> "line"]

\* No import yet; the operator may have made files by hand, good or bad ones.
StoreInit ==
    /\ importer = [at |-> "failed", attempt |-> 0, next |-> 1, values |-> NoValues]
    /\ \/ directory = FALSE /\ files = NoFiles
       \/ /\ directory = TRUE
          /\ \E protected \in BOOLEAN, kind \in Kinds :
                files = [f \in Fields |-> [field |-> f, attempt |-> 0, kind |-> kind,
                            part |-> "all", synced |-> TRUE, protected |-> protected]]

\* The checks of import() on its source.
Acceptable(source) ==
    /\ source.protected /\ source.parses /\ ~source.duplicate
    /\ \A f \in Fields : source.values[f] \in Kinds

\* The source is read and checked before anything is made.
StartImport(source) ==
    /\ ~ImporterRuns /\ importer.attempt < MaxImports
    /\ importer' = IF Acceptable(source)
                   THEN [at |-> "ready", attempt |-> importer.attempt + 1, next |-> 1,
                         values |-> source.values]
                   ELSE [importer EXCEPT !.at = "failed", !.attempt = @ + 1]
    /\ UNCHANGED <<directory, files>>

\* Mutant: create_dir_all() in place of create().
MakeDirectoryIfNone ==
    /\ importer.at = "ready"
    /\ directory' = TRUE
    /\ importer' = [importer EXCEPT !.at = "create"]
    /\ UNCHANGED files

\* The destination must not exist.
MakeDirectory ==
    /\ importer.at = "ready"
    /\ directory' = TRUE
    /\ importer' = [importer EXCEPT !.at = IF directory THEN "failed" ELSE "create"]
    /\ UNCHANGED files

Field == FIELDS[importer.next]

\* Mutant: the mode of the file is left to the umask.
CreateFileWithoutMode ==
    /\ importer.at = "create" /\ files[Field] = NoFile
    /\ files' = [files EXCEPT ![Field] =
                    [field |-> Field, attempt |-> importer.attempt,
                     kind |-> importer.values[Field], part |-> "none",
                     synced |-> FALSE, protected |-> FALSE]]
    /\ importer' = [importer EXCEPT !.at = "write"]
    /\ UNCHANGED directory

\* create_new() with mode 600; an existing file is an error (FailImport).
CreateFile ==
    /\ importer.at = "create" /\ files[Field] = NoFile
    /\ files' = [files EXCEPT ![Field] =
                    [field |-> Field, attempt |-> importer.attempt,
                     kind |-> importer.values[Field], part |-> "none",
                     synced |-> FALSE, protected |-> TRUE]]
    /\ importer' = [importer EXCEPT !.at = "write"]
    /\ UNCHANGED directory

\* write_all() may need several writes.
WriteFile(part) ==
    /\ importer.at = "write" /\ part # "none" /\ files[Field].part # part
    /\ files' = [files EXCEPT ![Field].part = part]
    /\ importer' = [importer EXCEPT !.at = IF part = "all" THEN "sync" ELSE "write"]
    /\ UNCHANGED directory

\* Mutant: one field too many.
NextFieldPast == IF importer.next > Len(FIELDS) THEN [importer EXCEPT !.at = "done"]
                 ELSE [importer EXCEPT !.at = "create", !.next = @ + 1]

NextField == IF importer.next = Len(FIELDS) THEN [importer EXCEPT !.at = "done"]
             ELSE [importer EXCEPT !.at = "create", !.next = @ + 1]

\* Mutant: the file is only flushed, which does nothing.
SyncFileNot ==
    /\ importer.at = "sync"
    /\ importer' = NextField
    /\ UNCHANGED <<directory, files>>

SyncFile ==
    /\ importer.at = "sync"
    /\ files' = [files EXCEPT ![Field].synced = TRUE]
    /\ importer' = NextField
    /\ UNCHANGED directory

\* An error of the file system, or the importer is killed; nothing is undone.
FailImport ==
    /\ ImporterRuns
    /\ importer' = [importer EXCEPT !.at = "failed"]
    /\ UNCHANGED <<directory, files>>

\* What a file may be after a crash.  The directory is never synced: any file
\* may be gone.  One that was not synced may hold any beginning of its secret.
AfterCrash(file) ==
    IF file = NoFile THEN {NoFile}
    ELSE {NoFile} \cup {[file EXCEPT !.part = part, !.synced = TRUE] :
            part \in IF file.synced THEN {file.part}
                     ELSE {p \in Parts : p = "none" \/ file.part = "all" \/ p = file.part}}

CrashMachine ==
    /\ \E left \in [Fields -> UNION {AfterCrash(files[f]) : f \in Fields}] :
            /\ \A f \in Fields : left[f] \in AfterCrash(files[f])
            /\ files' = left
    /\ directory' \in BOOLEAN
    /\ directory' => directory
    /\ files' # NoFiles => directory'
    /\ importer' = [importer EXCEPT !.at = IF ImporterRuns THEN "failed" ELSE @]

\* The operator removes the directory, to import again.
Discard ==
    /\ ~ImporterRuns /\ directory
    /\ directory' = FALSE /\ files' = NoFiles
    /\ importer' = [importer EXCEPT !.at = "failed"]

StoreNext ==
    \/ \E source \in Sources : StartImport(source)
    \/ MakeDirectory \/ CreateFile \/ SyncFile \/ FailImport
    \/ \E part \in Parts : WriteFile(part)
    \/ CrashMachine \/ Discard

-----------------------------------------------------------------------------
(* The reader's side *)

\* CredentialFiles::new on the paths of the three files
PathsUsable(paths) == \A f \in Fields : paths[f].absolute /\ ~paths[f].parent

\* The outcomes of the checks of read_credential on a file's metadata: a part
\* of a long secret has any length.
CheckOutcomes(file) ==
    IF file = NoFile \/ ~file.protected THEN {"refused"}
    ELSE IF file.kind # "long" \/ file.part = "none" THEN {"ok"}
    ELSE IF file.part = "all" THEN {"refused"} ELSE {"ok", "refused"}

\* What the text of a file may be once its line breaks at the end are trimmed.
Texts(file) ==
    CASE file.part = "none" \/ file.kind = "blank" -> {"empty"}
      [] file.part = "some" -> IF file.kind = "breaks" THEN {"cut", "broken"} ELSE {"cut"}
      [] file.part = "all" -> IF file.kind = "breaks" THEN {"broken"} ELSE {"whole"}

\* Credentials::new: each is nonempty and one line.
CredentialsValid(secrets) ==
    \A i \in DOMAIN secrets : secrets[i].text \in {"cut", "whole"}
=============================================================================
