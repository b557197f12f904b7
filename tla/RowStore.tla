------------------------------ MODULE RowStore ------------------------------
(***************************************************************************)
(* The tables the office records live in, and the requests that change     *)
(* them.  Every handler of the services has the same shape: it reads the   *)
(* rows it needs, refuses what does not fit them, assigns columns, flushes *)
(* and commits.  The database runs at READ COMMITTED and the session sends *)
(* only the columns whose value changed, so what a handler has read may be *)
(* out of date by the time its columns are written.  A request is          *)
(* therefore two steps: the handler, an action that checks the committed   *)
(* rows and stages its writes (Stage), and Commit, that applies them to    *)
(* the rows as they are by then.  A request that fails leaves nothing      *)
(* behind (Abort).                                                         *)
(***************************************************************************)
EXTENDS Integers, FiniteSets

CONSTANTS
    Sessions,    \* the requests that may be under way at a time
    Employees,   \* the employees of the organization
    Days,        \* calendar days
    Today,       \* the day the requests are made
    Names,       \* names, codes and numbers that tell records apart
    Numbers      \* how many rows a table may hold

ASSUME RowStoreAssumption ==
    /\ Days \subseteq Nat \ {0} /\ Today \in Days
    /\ Numbers \subseteq Nat /\ IsFiniteSet(Numbers)
    /\ Names # {}

VARIABLES
    desk,   \* the service the requests of this behaviour go to
    rows,   \* the committed rows: a function from row ids to records
    open,   \* by session: the columns staged, the rows locked, and fresh
    torn    \* history: a request committed on rows that had changed under it

storeVars == <<desk, rows, open, torn>>

\* A row id is its table's name and a number.
Table(name) == {r \in DOMAIN rows : r[1] = name}

\* A row nobody has inserted, or that was deleted.
Absent == [there |-> FALSE]

There(r) == rows[r].there

Live(name) == {r \in Table(name) : There(r)}

\* Columns laid over a row (or rows over a table).
Over(new, old) ==
    [c \in DOMAIN new \cup DOMAIN old |-> IF c \in DOMAIN new THEN new[c] ELSE old[c]]

Written(r, cols) == LET row == Over(cols, r) IN IF row.there THEN row ELSE Absent

\* The columns a flush sends: those assigned a value that is not the loaded one.
Dirty(r, cols) ==
    LET changed == {c \in DOMAIN cols :
                        c \notin DOMAIN rows[r] \/ rows[r][c] # cols[c]}
    IN [c \in changed |-> cols[c]]

\* A column that holds no date, or no reference.
NoDay == 0
Dates == Days \cup {NoDay}
NoRef == <<"none", 0>>

\* The two dates of a row, if both are set, are not reversed.
InOrder(row) == row.from = NoDay \/ row.until = NoDay \/ row.from <= row.until

\* A reference, if set, is to a row that is there.
Known(ref) == ref # NoRef => There(ref)

Idle == [writes |-> <<>>, locks |-> {}, fresh |-> TRUE]

\* Writes to one row, to every row of a set, to both.
Set(r, cols) == [x \in {r} |-> cols]
SetAll(S, cols) == [x \in S |-> cols]

(***************************************************************************)
(* A new row takes a number no row and no pending insert has.              *)
(***************************************************************************)
Spare(name) == {r \in Table(name) :
                   /\ ~There(r)
                   /\ \A t \in Sessions : r \notin DOMAIN open[t].writes}

NewRow(name) == CHOOSE r \in Spare(name) : \A x \in Spare(name) : r[2] <= x[2]

Insert(name, cols) == Set(NewRow(name), Over([there |-> TRUE], cols))

\* An advisory lock, or one on an employee, is on a row that no table here has.
Advisory ==
    ({"account", "workbook", "usage", "alerts"} \X Names) \cup ({"employee"} \X Employees)

\* SELECT ... FOR UPDATE waits for the request that holds the row.
Lockable(S) == \A t \in Sessions : open[t].locks \cap S = {}

(***************************************************************************)
(* The handler has read and checked: its columns are staged, the rows it   *)
(* selected FOR UPDATE are locked until it ends.                           *)
(***************************************************************************)
StageLocked(s, locked, writes) ==
    LET sent == [r \in DOMAIN writes |-> Dirty(r, writes[r])]
        hit == {r \in DOMAIN sent : DOMAIN sent[r] # {}}
    IN /\ open[s] = Idle
       /\ hit # {}
       /\ Lockable(locked)
       /\ open' = [open EXCEPT ![s] = [writes |-> [r \in hit |-> sent[r]],
                                       locks |-> locked, fresh |-> TRUE]]
       /\ UNCHANGED <<desk, rows, torn>>

Stage(s, writes) == StageLocked(s, {}, writes)

\* The rows as they will be once the session has committed.
After(s) ==
    [r \in DOMAIN rows |->
        IF r \in DOMAIN open[s].writes THEN Written(rows[r], open[s].writes[r])
                                       ELSE rows[r]]

\* An UPDATE or a DELETE of a row that is gone fails the request.
Lands(s) == \A r \in DOMAIN open[s].writes :
                There(r) \/ open[s].writes[r] = Written(Absent, open[s].writes[r])

\* A write waits while another request holds the row.
Unblocked(s) == \A t \in Sessions \ {s} :
                    DOMAIN open[s].writes \cap open[t].locks = {}

(***************************************************************************)
(* The writes reach the rows.  accepted says whether the unique indexes    *)
(* and CHECK constraints of the tables hold afterwards; if they do not,    *)
(* the request fails and is rolled back.                                   *)
(***************************************************************************)
Commit(s, accepted) ==
    /\ open[s] # Idle
    /\ Unblocked(s)
    /\ Lands(s) /\ accepted
    /\ rows' = After(s)
    /\ torn' = (torn \/ ~open[s].fresh)
    /\ open' = [t \in Sessions |->
                   IF t = s THEN Idle
                   ELSE IF open[t] = Idle THEN Idle
                   ELSE [open[t] EXCEPT !.fresh = FALSE]]
    /\ UNCHANGED desk

\* An error, a refused constraint, a deadlock or a lost client: rolled back.
Abort(s) ==
    /\ open[s] # Idle
    /\ open' = [open EXCEPT ![s] = Idle]
    /\ UNCHANGED <<desk, rows, torn>>

\* Two rows of a table have the same key.
Clash(after, name, key(_)) ==
    \E r, q \in {x \in DOMAIN after : x[1] = name /\ after[x].there} :
        r # q /\ key(after[r]) = key(after[q])

StoreInit ==
    /\ open = [s \in Sessions |-> Idle]
    /\ torn = FALSE

StoreTypeOK ==
    /\ torn \in BOOLEAN
    /\ \A s \in Sessions :
        /\ open[s].fresh \in BOOLEAN
        /\ open[s].locks \subseteq DOMAIN rows \cup Advisory
        /\ DOMAIN open[s].writes \subseteq DOMAIN rows
=============================================================================
