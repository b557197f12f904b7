----------------------------- MODULE MCBusiness -----------------------------
(***************************************************************************)
(* The register of machines, the drilling done with them, what is bought   *)
(* and paid for it, what is recorded at the sites and in the workshop, and *)
(* the serials of the stock, on small tables, one desk to a behaviour.     *)
(***************************************************************************)
EXTENDS AssetRegister, Drilling, Purchasing, Workshop, Serials, TLC

BusinessInit ==
    \/ RegisterInit \/ DrillingInit \/ PurchaseInit
    \/ VendorInit \/ SiteInit \/ WorkshopInit \/ SerialInit
BusinessNext ==
    \/ RegisterNext \/ DrillingNext \/ PurchaseNext
    \/ VendorNext \/ SiteNext \/ WorkshopNext \/ SerialNext
BusinessSpec == BusinessInit /\ [][BusinessNext]_storeVars

TwinSessions == Permutations(Sessions) \cup Permutations(Names)

\* Every row is one its table can hold, and what a request has staged or locked
\* is in the tables (the models' columns).
BusinessTypeOK ==
    /\ StoreTypeOK /\ RegisterTypeOK /\ DrillingTypeOK /\ PurchaseTypeOK
    /\ VendorTypeOK /\ SiteTypeOK /\ WorkshopTypeOK /\ SerialTypeOK

\* As long as no request committed on rows that had changed since it read them,
\* categories are trees, intervals are at the site of their hole, mobilization is
\* charged once, projects end after they start and reports cover a period that
\* does; a machine has at most one current owner and one main photo, a completed
\* card the time it was; and, whatever runs into what, the stock of a store is the
\* serials in it: CategoriesAreTrees, DrillingIsSound, SitesAreSound,
\* WorkshopIsSound, OneOwnerOnePhoto and SerialsFit.
BusinessIsSound ==
    /\ CategoriesAreTrees /\ DrillingIsSound /\ SitesAreSound
    /\ WorkshopIsSound /\ OneOwnerOnePhoto /\ SerialsFit

\* What an order has received and an invoice been paid is what its receipts and
\* payments say: ReceiptsAddUp and PaymentsFit.
PurchasesAddUp == ReceiptsAddUp /\ PaymentsFit

\* No number is drawn and no submission issued twice: NumbersDiffer and IssuedOnce.
DrawnOnce == NumbersDiffer /\ IssuedOnce

\* What is approved or retired is not changed by what runs into it: ApprovalIsFinal
\* and RetiredIsSilent.
ClosedStaysClosed == ApprovalIsFinal /\ RetiredIsSilent
=============================================================================
