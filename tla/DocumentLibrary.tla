-------------------------- MODULE DocumentLibrary --------------------------
(***************************************************************************)
(* Stored files, the library rows that name them and the worker that reads *)
(* them (endpoints/documents.py, services/document_registry.py,            *)
(* services/document_index.py, core/storage.py, and the handlers that      *)
(* attach a file to a row of their own).                                   *)
(*                                                                         *)
(* A file is saved before the transaction that names it commits, and a     *)
(* replaced one is removed before or after: neither is undone with the     *)
(* transaction.  Whatever row names a file, a hook on the session          *)
(* registers the file in the library in the same transaction.  The worker  *)
(* claims a row in one transaction, reads the file without a lock and      *)
(* writes what it found in another.  Requests and workers die at any step. *)
(***************************************************************************)
EXTENDS Integers, Sequences, FiniteSets

CONSTANTS
    Docs,        \* rows that name a file, each with its row of the library
    Requests,    \* uploads under way
    Indexers,    \* the workers, one in every process
    MaxFiles,    \* bound: files ever saved, one of before the library among them
    MaxReindex,  \* bound: reindex requests
    MaxDeaths    \* bound: workers that die holding a document

ASSUME LibraryAssumption ==
    MaxFiles \in Nat \ {0} /\ MaxReindex \in Nat /\ MaxDeaths \in Nat

VARIABLES
    kind,        \* which handler uploads the file of a document
    files,       \* the files storage holds; names are never used again
    saved,       \* how many were ever saved
    column,      \* the file the row of the handler names
    lib,         \* the row of the library
    born,        \* the documents in the library, oldest first
    upload,      \* by request: what it has done
    holding,     \* by worker: the document it claimed
    reindexed, deaths

libraryVars == <<kind, files, saved, column, lib, born, upload, holding, reindexed, deaths>>
rowVars == <<kind, column, lib, born>>
workerVars == <<holding, reindexed, deaths>>

(***************************************************************************)
(* How each handler treats its file.  listed: the row it fills is one of   *)
(* the library, one the hook lists there, or neither; old: what becomes of *)
(* a file it replaces, dropped BEFORE or AFTER the commit, or KEPT; locks: *)
(* it holds the row while it saves; cleans: what it saved is removed when  *)
(* something fails; answers: that includes what follows the commit.        *)
(***************************************************************************)
Saves(listed, cleans) ==
    [listed |-> listed, old |-> "KEPT", locks |-> FALSE, cleans |-> cleans, answers |-> FALSE]

\* documents.upload, of an import that may be there already.
ImportUpload == [Saves("SELF", TRUE) EXCEPT !.old = "AFTER"]
\* inventory.import_preview and the evidence of hse.legacy_create_incident.
InventoryImport == Saves("SELF", TRUE)
IncidentEvidence == Saves("SELF", FALSE)

\* Files that belong to a record and come and go with it.
EmployeeDocument == Saves("HOOK", FALSE)
EmployeeResume == Saves("HOOK", FALSE)
AssetDocument == Saves("HOOK", FALSE)
StoreFile == Saves("HOOK", FALSE)
ItemFile == Saves("HOOK", FALSE)
ItemPhoto == Saves("HOOK", FALSE)
ExpenseInvoice == Saves("HOOK", FALSE)
LogFile == Saves("HOOK", TRUE)
ProjectFile == Saves("HOOK", TRUE)
LeaveLetter == Saves("HOOK", TRUE)
CompletionEvidence == Saves("HOOK", TRUE)
MachinePhoto == Saves("NONE", TRUE)

\* Files that are replaced.
ClientLogo == [Saves("NONE", TRUE) EXCEPT !.old = "AFTER"]
FuelReceipt == [Saves("HOOK", FALSE) EXCEPT !.old = "AFTER", !.locks = TRUE]
OrderAttachment == [Saves("HOOK", FALSE) EXCEPT !.old = "BEFORE"]
NewReport == [Saves("HOOK", TRUE) EXCEPT !.answers = TRUE]
EditedReport == Saves("HOOK", FALSE)

\* What uploads the first file of a row, and what replaces it, if anything does.
Refused == [Saves("NONE", FALSE) EXCEPT !.old = "NEVER"]
Once(how) == [first |-> how, again |-> Refused]
Replaced(how) == [first |-> how, again |-> how]

Papers == Once(EmployeeDocument)
UploadKinds ==
    {Once(how) : how \in {InventoryImport, IncidentEvidence, EmployeeDocument, EmployeeResume,
                          AssetDocument, StoreFile, ItemFile, ItemPhoto, ExpenseInvoice, LogFile,
                          ProjectFile, LeaveLetter, CompletionEvidence, MachinePhoto}}
    \cup {Replaced(how) : how \in {ImportUpload, ClientLogo, FuelReceipt, OrderAttachment}}
    \cup {[first |-> NewReport, again |-> EditedReport]}

\* The hook lists the rows of their own tables, and says when a file has changed.
Source(d) == kind[d].first.listed = "HOOK"

NoFile == 0
Unlisted == [there |-> FALSE, path |-> NoFile, status |-> "NONE", of |-> NoFile]
Settled == {"READY", "UNSUPPORTED", "FAILED"}

Waiting == [step |-> "NONE"]
Free == [doc |-> "NONE"]

-----------------------------------------------------------------------------
(* Uploads. *)

Locked(d) == \E r \in Requests : upload[r].step = "SAVED" /\ upload[r].doc = d

Handler(d) == IF column[d] = NoFile THEN kind[d].first ELSE kind[d].again

\* What is uploaded once is a row of the request that inserts it.
Held(d) == Handler(d).locks \/ kind[d].again = Refused

\* Storage.save: a name nothing else has.
SaveFile(r, d) ==
    /\ upload[r] = Waiting
    /\ saved < MaxFiles
    /\ Handler(d) # Refused
    /\ Held(d) => ~Locked(d)
    /\ saved' = saved + 1
    /\ files' = files \cup {saved'}
    /\ upload' = [upload EXCEPT ![r] = [step |-> "SAVED", doc |-> d, by |-> Handler(d),
                                       new |-> saved', old |-> column[d]]]
    /\ UNCHANGED <<rowVars, workerVars>>

\* Mutant of DropFirst: every replaced file is dropped first.
DropFirstAlways(r) ==
    /\ upload[r].step = "SAVED"
    /\ files' = files \ {upload[r].old}
    /\ upload' = [upload EXCEPT ![r].step = IF upload[r].by.old = "BEFORE"
                                            THEN "CLEARED" ELSE "SAVED"]
    /\ UNCHANGED <<saved, rowVars, workerVars>>

\* A purchase order drops the old attachment before it names the new one.
DropFirst(r) ==
    /\ upload[r].step = "SAVED" /\ upload[r].by.old = "BEFORE"
    /\ files' = files \ {upload[r].old}
    /\ upload' = [upload EXCEPT ![r].step = "CLEARED"]
    /\ UNCHANGED <<saved, rowVars, workerVars>>

\* register_sources, or the handler when the row is the library's own: a changed
\* file is to be read again, unless it is an import.
Registered(d, path) ==
    CASE kind[d].first.listed = "NONE" -> lib[d]
      [] lib[d].there /\ (~Source(d) \/ lib[d].path = path) -> [lib[d] EXCEPT !.path = path]
      [] OTHER -> [there |-> TRUE, path |-> path, status |-> "PENDING", of |-> NoFile]

\* Mutant of Listed: a row is added for every upload.
ListedAlways(d) == Append(born, d)
Listed(d) == IF lib[d].there \/ kind[d].first.listed = "NONE" THEN born ELSE Append(born, d)

Replaces(r) == upload[r].old # NoFile

\* Two first uploads of one import insert the row twice; the second is refused.
Taken(r) == upload[r].by.listed = "SELF" /\ ~Replaces(r) /\ lib[upload[r].doc].there

AfterCommit(r) ==
    CASE upload[r].by.old = "AFTER" /\ Replaces(r) -> "OLD"
      [] upload[r].by.answers -> "ANSWER"
      [] OTHER -> "NONE"

\* The transaction commits: the row names the new file, the library lists it.
CommitUpload(r) ==
    /\ upload[r].step \in {"SAVED", "CLEARED"}
    /\ LET d == upload[r].doc
       IN
       /\ upload[r].by.old = "BEFORE" => upload[r].step = "CLEARED"
       /\ ~Taken(r)
       /\ column' = [column EXCEPT ![d] = upload[r].new]
       /\ lib' = [lib EXCEPT ![d] = Registered(d, upload[r].new)]
       /\ born' = Listed(d)
       /\ upload' = [upload EXCEPT ![r] =
                        IF AfterCommit(r) = "NONE" THEN Waiting
                        ELSE [upload[r] EXCEPT !.step = AfterCommit(r)]]
       /\ UNCHANGED <<kind, files, saved, workerVars>>

\* What is left to do after the commit: the old file is removed, or the answer
\* put together.
DropOld(r) ==
    /\ upload[r].step = "OLD"
    /\ files' = files \ {upload[r].old}
    /\ upload' = [upload EXCEPT ![r] = Waiting]
    /\ UNCHANGED <<saved, rowVars, workerVars>>

Answer(r) ==
    /\ upload[r].step = "ANSWER"
    /\ upload' = [upload EXCEPT ![r] = Waiting]
    /\ UNCHANGED <<files, saved, rowVars, workerVars>>

\* An exception before the commit is done; the row keeps what it named.
FailUpload(r) ==
    /\ upload[r].step \in {"SAVED", "CLEARED"}
    /\ files' = IF upload[r].by.cleans THEN files \ {upload[r].new} ELSE files
    /\ upload' = [upload EXCEPT ![r] = Waiting]
    /\ UNCHANGED <<saved, rowVars, workerVars>>

\* create_report cleans up even when it fails after the commit.
FailAnswer(r) ==
    /\ upload[r].step = "ANSWER"
    /\ files' = files \ {upload[r].new}
    /\ upload' = [upload EXCEPT ![r] = Waiting]
    /\ UNCHANGED <<saved, rowVars, workerVars>>

\* The process dies; what was saved stays, nothing else happens.
LoseUpload(r) ==
    /\ upload[r] # Waiting
    /\ upload' = [upload EXCEPT ![r] = Waiting]
    /\ UNCHANGED <<files, saved, rowVars, workerVars>>

\* backfill_registry, when a process starts: rows the library does not list.
Backfill(d) ==
    /\ Source(d) /\ column[d] # NoFile /\ ~lib[d].there
    /\ lib' = [lib EXCEPT ![d] = Registered(d, column[d])]
    /\ born' = Listed(d)
    /\ UNCHANGED <<kind, column, files, saved, upload, workerVars>>

-----------------------------------------------------------------------------
(* The index. *)

Reindex(d) ==
    /\ lib[d].there
    /\ reindexed < MaxReindex
    /\ reindexed' = reindexed + 1
    /\ lib' = [lib EXCEPT ![d].status = "PENDING"]
    /\ UNCHANGED <<kind, column, born, files, saved, upload, holding, deaths>>

Pending(d) == lib[d].there /\ lib[d].status = "PENDING"

\* index_one takes the oldest row nobody has locked and commits the claim.
ClaimDocument(w) ==
    /\ holding[w] = Free
    /\ \E n \in DOMAIN born :
        /\ Pending(born[n])
        /\ \A m \in 1..(n - 1) : ~Pending(born[m])
        /\ lib' = [lib EXCEPT ![born[n]].status = "PROCESSING"]
        /\ holding' = [holding EXCEPT ![w] =
                          [doc |-> born[n], path |-> lib[born[n]].path, found |-> "NONE"]]
    /\ UNCHANGED <<kind, column, born, files, saved, upload, reindexed, deaths>>

\* build_index in a thread: text, none that can be read, or an error or timeout.
ReadFile(w) ==
    /\ holding[w] # Free /\ holding[w].found = "NONE"
    /\ \E found \in Settled :
        /\ holding[w].path \notin files => found = "FAILED"
        /\ holding' = [holding EXCEPT ![w].found = found]
    /\ UNCHANGED <<files, saved, rowVars, upload, reindexed, deaths>>

\* Mutant of Indexed: what failed is tried again.
IndexedOrRetried(d, path, found) ==
    CASE found = "READY"       -> [lib[d] EXCEPT !.status = found, !.of = path]
      [] found = "UNSUPPORTED" -> [lib[d] EXCEPT !.status = found, !.of = NoFile]
      [] found = "FAILED"      -> [lib[d] EXCEPT !.status = "PENDING"]

Indexed(d, path, found) ==
    CASE found = "READY"       -> [lib[d] EXCEPT !.status = found, !.of = path]
      [] found = "UNSUPPORTED" -> [lib[d] EXCEPT !.status = found, !.of = NoFile]
      [] found = "FAILED"      -> [lib[d] EXCEPT !.status = found]

\* The second transaction, whatever has happened to the row since the first.
WriteIndex(w) ==
    /\ holding[w] # Free /\ holding[w].found # "NONE"
    /\ lib' = [lib EXCEPT ![holding[w].doc] =
                  Indexed(holding[w].doc, holding[w].path, holding[w].found)]
    /\ holding' = [holding EXCEPT ![w] = Free]
    /\ UNCHANGED <<kind, column, born, files, saved, upload, reindexed, deaths>>

\* The process stops, or the database refuses the second transaction.
DieIndexing(w) ==
    /\ holding[w] # Free
    /\ deaths < MaxDeaths
    /\ deaths' = deaths + 1
    /\ holding' = [holding EXCEPT ![w] = Free]
    /\ UNCHANGED <<files, saved, rowVars, upload, reindexed>>

-----------------------------------------------------------------------------

\* A file of before the library may be named already.
LibraryInit ==
    /\ kind \in [Docs -> UploadKinds]
    /\ column \in [Docs -> {NoFile, 1}]
    /\ \A d \in Docs : column[d] # NoFile => kind[d] \in {Papers, Replaced(FuelReceipt)}
    /\ \A c, d \in Docs : column[c] # NoFile /\ column[d] # NoFile => c = d
    /\ saved = 1
    /\ files = {1}
    /\ lib = [d \in Docs |-> Unlisted]
    /\ born = <<>>
    /\ upload = [r \in Requests |-> Waiting]
    /\ holding = [w \in Indexers |-> Free]
    /\ reindexed = 0 /\ deaths = 0

UploadStep(r) ==
    \/ \E d \in Docs : SaveFile(r, d)
    \/ DropFirst(r) \/ CommitUpload(r) \/ DropOld(r) \/ Answer(r)
    \/ FailUpload(r) \/ FailAnswer(r) \/ LoseUpload(r)

IndexStep(w) == ClaimDocument(w) \/ ReadFile(w) \/ WriteIndex(w)

LibraryNext ==
    \/ \E r \in Requests : UploadStep(r)
    \/ \E d \in Docs : Backfill(d) \/ Reindex(d)
    \/ \E w \in Indexers : IndexStep(w) \/ DieIndexing(w)

LibrarySpec == LibraryInit /\ [][LibraryNext]_libraryVars

-----------------------------------------------------------------------------

LibraryTypeOK ==
    /\ files \subseteq 1..saved /\ saved \in 0..MaxFiles
    /\ column \in [Docs -> 0..MaxFiles]
    /\ lib \in [Docs -> [there : BOOLEAN, path : 0..MaxFiles, of : 0..MaxFiles,
                         status : {"NONE", "PENDING", "PROCESSING"} \cup Settled]]
    /\ \A d \in Docs : lib[d].there <=> \E n \in DOMAIN born : born[n] = d
    /\ Len(born) = Cardinality({d \in Docs : lib[d].there})

Careful(d) == kind[d].first.old # "BEFORE" /\ ~kind[d].first.answers

\* Whatever uploads of one document cross, fail or are cut short, the file that its
\* row names is in storage and the library names the same one (documents.upload,
\* upload_fuel_delivery_receipt, register_sources).  Orders and reports are left
\* out: theirs is removed before the commit, or after a failure behind it.
NamedFilesExist ==
    \A d \in Docs :
        /\ lib[d].there => lib[d].path = column[d]
        /\ column[d] # NoFile /\ Careful(d) => column[d] \in files

\* "a crash rolls the job back to PENDING" (docs/document-library.md): a document
\* that is being read has a worker that reads it.
CrashRollsBack ==
    \A d \in Docs : lib[d].status = "PROCESSING" => \E w \in Indexers : holding[w].doc = d

\* "invalidate indexes when a source file changes" (docs/document-library.md):
\* what a search finds is text of the file that the document names.
IndexMatchesFile ==
    \A d \in Docs : lib[d].status = "READY" => lib[d].of = lib[d].path

\* Unless its worker dies, a document that is to be read is read, refused or given
\* up in the end, however many are older (worker, index_one).
EveryIndexed ==
    \A d \in Docs : Pending(d) ~> lib[d].status \in Settled \/ deaths > 0
=============================================================================
