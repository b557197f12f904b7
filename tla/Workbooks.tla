----------------------------- MODULE Workbooks -----------------------------
(***************************************************************************)
(* Workbooks that several devices and people edit (endpoints/              *)
(* workbook_sync.py, workbook_shares.py and what documents.py does with    *)
(* Field Workbooks).  A save adds a version of its workbook, under the     *)
(* advisory lock of the workbook and only if the device has seen the       *)
(* latest version; a shared copy is one row with a revision.  There is one *)
(* workbook here: workbooks share neither locks nor rows.                  *)
(***************************************************************************)
EXTENDS RowStore, Sequences

Users == Employees

\* Operation identifiers, and the contents of a shared copy.
Operations == Names
Contents == Names

\* The version a device has seen: one of the workbook, or none yet.
Bases == Table("versions") \cup {NoRef}

(***************************************************************************)
(* Versions.  created_at is the clock at the insert, so a version is newer *)
(* than the rows of lower numbers.  member says whether category and tags  *)
(* still put the file in the workbook.                                     *)
(***************************************************************************)
VersionRows ==
    [there : {TRUE}, owner : Users, base : Bases, saves : Operations \cup {"upload"},
     active : BOOLEAN, member : BOOLEAN]

Members(all) == {r \in Table("versions") : all[r].there /\ all[r].member}

\* latest, deleted versions included.
LatestVersion(all) ==
    IF Members(all) = {} THEN NoRef
    ELSE CHOOSE r \in Members(all) : \A x \in Members(all) : x[2] <= r[2]

\* Mutant of BookLock: the check and the insert are not serialized.
NoBookLock == {}
\* lock_workbook.
BookLock == {<<"workbook", n>> : n \in Names}

\* check_revision.
SeenLatest(base) ==
    /\ LatestVersion(rows) = base
    /\ base # NoRef => rows[base].active

Version(who, base, saves) ==
    Insert("versions", [owner |-> who, base |-> base, saves |-> saves,
                        active |-> TRUE, member |-> TRUE])

\* save_workbook.  A repeated operation answers with the version it made.
SaveWorkbook(s) ==
    \E who \in Users, base \in Bases, op \in Operations :
        /\ Spare("versions") # {}
        /\ \A r \in Live("versions") : rows[r].saves # op
        /\ base # NoRef => rows[base].there /\ rows[base].owner = who
        /\ SeenLatest(base)
        /\ StageLocked(s, BookLock, Version(who, base, op))

\* documents.upload of a Field Workbook: the lock, but no look at the versions.
UploadWorkbook(s) ==
    \E who \in Users :
        /\ Spare("versions") # {}
        /\ StageLocked(s, BookLock, Version(who, LatestVersion(rows), "upload"))

\* delete_workbook: every version the caller manages, or nothing.
DeleteWorkbook(s) ==
    LET all == {r \in Members(rows) : rows[r].active}
    IN /\ all # {}
       /\ StageLocked(s, BookLock, SetAll(all, [active |-> FALSE]))

\* documents.edit of category or tags takes a file out of the workbook, without the
\* lock; a bound: once, and putting one in is left to the upload.
EditTags(s) ==
    \E r \in Live("versions") :
        /\ rows[r].active
        /\ \A x \in Live("versions") : rows[x].member
        /\ Stage(s, Set(r, [member |-> FALSE]))

VersionStep(s) ==
    SaveWorkbook(s) \/ UploadWorkbook(s) \/ DeleteWorkbook(s) \/ EditTags(s)

(***************************************************************************)
(* Shared copies.  One that has expired only refuses more than here.       *)
(***************************************************************************)
MaxRevision == 3   \* bound: revisions of a shared copy
KeptRevisions == 5

ShareRows ==
    [there : {TRUE}, workbook : Contents, revision : 1..MaxRevision, revoked : BOOLEAN,
     history : UNION {[1..n -> Contents] : n \in 0..(MaxRevision - 1)}]

CreateShare(s) ==
    \E book \in Contents :
        /\ Spare("shares") # {}
        /\ Stage(s, Insert("shares", [workbook |-> book, revision |-> 1, revoked |-> FALSE,
                                      history |-> <<>>]))

\* lookup, for an update.
Shared(r) == There(r) /\ ~rows[r].revoked

Earlier(row) ==
    LET all == <<row.workbook>> \o row.history
    IN IF Len(all) > KeptRevisions THEN SubSeq(all, 1, KeptRevisions) ELSE all

UpdateShare(s) ==
    \E r \in Live("shares"), book \in Contents, revision \in 1..MaxRevision :
        /\ Shared(r)
        /\ rows[r].revision = revision
        /\ revision < MaxRevision
        /\ StageLocked(s, {r}, Set(r, [workbook |-> book, revision |-> revision + 1,
                                       history |-> Earlier(rows[r])]))

RevokeShare(s) ==
    \E r \in Live("shares") : StageLocked(s, {r}, Set(r, [revoked |-> TRUE]))

ShareStep(s) == CreateShare(s) \/ UpdateShare(s) \/ RevokeShare(s)

-----------------------------------------------------------------------------

WorkbookDesks == {"versions", "shares"}

WorkbookInit ==
    /\ desk \in WorkbookDesks
    /\ rows = [r \in {desk} \X (1..(IF desk = "versions" THEN 3 ELSE 1)) |-> Absent]
    /\ StoreInit

WorkbookRequest(s) ==
    \/ desk = "versions" /\ VersionStep(s)
    \/ desk = "shares" /\ ShareStep(s)

WorkbookNext ==
    /\ desk \in WorkbookDesks
    /\ \E s \in Sessions : WorkbookRequest(s) \/ Commit(s, TRUE) \/ Abort(s)

WorkbookSpec == WorkbookInit /\ [][WorkbookNext]_storeVars

-----------------------------------------------------------------------------

WorkbookTypeOK ==
    desk \in WorkbookDesks =>
        /\ \A r \in Live("versions") : rows[r] \in VersionRows
        /\ \A r \in Live("shares") : rows[r] \in ShareRows

\* A save lands on the version its device had seen: as long as nobody edits files in
\* or out of the workbook, what is the latest when the save commits is its base
\* (save_workbook).  A shared copy that changes goes one revision up and keeps what
\* it replaced (workbook_shares.update).
NothingOverwritten ==
    [][/\ \A r \in Table("versions") :
           /\ ~rows[r].there /\ rows'[r].there /\ rows'[r].saves # "upload"
           /\ \A x \in Live("versions") : rows[x].member
           => rows'[r].base = LatestVersion(rows)
       /\ \A r \in Live("shares") :
           rows'[r].workbook # rows[r].workbook =>
               /\ rows'[r].revision = rows[r].revision + 1
               /\ rows'[r].history = Earlier(rows[r])]_rows
=============================================================================
