------------------------------ MODULE MCOffice ------------------------------
(***************************************************************************)
(* Everything the office keeps about people, the workbooks they edit and   *)
(* what the head office adds, on small tables.  Each initial state opens   *)
(* one desk; the desks share no rows.                                      *)
(***************************************************************************)
EXTENDS Personnel, Rostering, Bookings, Accounts, Workbooks, Administration, TLC

OfficeInit ==
    \/ PersonnelInit \/ RosterInit \/ BookingInit
    \/ AccountInit \/ WorkbookInit \/ AdministrationInit
OfficeNext ==
    \/ PersonnelNext \/ RosterNext \/ BookingNext
    \/ AccountsNext \/ WorkbookNext \/ AdministrationNext
OfficeSpec == OfficeInit /\ [][OfficeNext]_storeVars

Twins == Permutations(Sessions) \cup Permutations(Employees)
             \cup Permutations(Names)

\* Every row of every desk is one its table can hold, and what a request has
\* staged or locked is in the tables (the models' columns).
OfficeTypeOK ==
    /\ StoreTypeOK /\ PersonnelTypeOK /\ RosterTypeOK /\ BookingTypeOK
    /\ AccountsTypeOK /\ WorkbookTypeOK /\ AdministrationTypeOK

\* The records of each desk fit together as long as no request committed on rows
\* that had changed since it read them, and nobody is told anything twice:
\* RecordsAreSound, RosterIsSound, SignsInWithWorkMail and TellsOnce.
OfficeIsSound == RecordsAreSound /\ RosterIsSound /\ SignsInWithWorkMail /\ TellsOnce

\* Where a race left two current rows, one request that promotes or opens one,
\* overlapped by nothing, puts it right: PromotionSettles and OpensOnlyOne.
PrimariesSettle == PromotionSettles /\ OpensOnlyOne
=============================================================================
