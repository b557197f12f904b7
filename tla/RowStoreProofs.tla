--------------------------- MODULE RowStoreProofs ---------------------------
(***************************************************************************)
(* Lemmas about RowStore: what staging, committing and giving up do to the *)
(* rows and to the other requests, for any number of sessions and rows.  A *)
(* handler that looks under a lock finds at its commit what it saw (Kept); *)
(* one that took no lock is judged by the rows as its commit would leave   *)
(* them, had nothing changed (After).                                      *)
(***************************************************************************)
EXTENDS RowStore, SumTheorems

-----------------------------------------------------------------------------
(* The store. *)

\* What a session may be doing, and what holds of any table.
Shape ==
    /\ rows = [r \in DOMAIN rows |-> rows[r]]
    /\ \A r \in DOMAIN rows : There(r) \/ rows[r] = Absent
    /\ open = [s \in Sessions |-> open[s]]
    /\ \A s \in Sessions :
          /\ open[s] = [writes |-> open[s].writes, locks |-> open[s].locks,
                        fresh |-> open[s].fresh]
          /\ DOMAIN open[s].writes \subseteq DOMAIN rows
    /\ \A s, t \in Sessions : s # t => open[s].locks \cap open[t].locks = {}

\* Nobody is at the desk.
LEMMA InitShape ==
    ASSUME StoreInit, rows = [r \in DOMAIN rows |-> rows[r]],
           \A r \in DOMAIN rows : There(r) \/ rows[r] = Absent
    PROVE  /\ Shape
           /\ \A s \in Sessions : open[s] = Idle /\ DOMAIN open[s].writes = {}
  BY DEF Shape, StoreInit, Idle

\* What the other sessions have staged and locked stays.
OthersStay(s) ==
    \A t \in Sessions \ {s} : /\ open'[t].writes = open[t].writes
                              /\ open'[t].locks = open[t].locks

\* A handler stages the columns that differ, under locks that nobody has.
LEMMA StageShape ==
    ASSUME Shape, NEW s \in Sessions, NEW locked, NEW writes, DOMAIN writes \subseteq DOMAIN rows,
           StageLocked(s, locked, writes)
    PROVE  /\ Shape' /\ OthersStay(s)
           /\ UNCHANGED <<desk, rows, torn>>
           /\ open'[s].locks = locked
           /\ DOMAIN open'[s].writes
                = {r \in DOMAIN writes : DOMAIN Dirty(r, writes[r]) # {}}
           /\ \A r \in DOMAIN open'[s].writes : open'[s].writes[r] = Dirty(r, writes[r])
           /\ Lockable(locked)
<1> DEFINE sent == [r \in DOMAIN writes |-> Dirty(r, writes[r])]
           hit == {r \in DOMAIN sent : DOMAIN sent[r] # {}}
           now == [writes |-> [r \in hit |-> sent[r]], locks |-> locked, fresh |-> TRUE]
<1>1. /\ open' = [open EXCEPT ![s] = now]
      /\ UNCHANGED <<desk, rows, torn>>
      /\ Lockable(locked)
  BY DEF StageLocked
<1>2. /\ open' = [t \in Sessions |-> open'[t]]
      /\ open'[s] = now
      /\ \A t \in Sessions \ {s} : open'[t] = open[t]
  BY <1>1 DEF Shape
<1>3. /\ DOMAIN now.writes = {r \in DOMAIN writes : DOMAIN Dirty(r, writes[r]) # {}}
      /\ \A r \in DOMAIN now.writes : now.writes[r] = Dirty(r, writes[r])
      /\ now.locks = locked
      /\ now = [writes |-> now.writes, locks |-> now.locks, fresh |-> now.fresh]
  OBVIOUS
<1> HIDE DEF now
<1>4. \A t, u \in Sessions : t # u => open'[t].locks \cap open'[u].locks = {}
  BY <1>1, <1>2, <1>3 DEF Shape, Lockable
<1>5. \A t \in Sessions :
          /\ open'[t] = [writes |-> open'[t].writes, locks |-> open'[t].locks,
                         fresh |-> open'[t].fresh]
          /\ DOMAIN open'[t].writes \subseteq DOMAIN rows'
  BY <1>1, <1>2, <1>3 DEF Shape
<1>6. Shape'
  BY <1>1, <1>2, <1>4, <1>5 DEF Shape, There
<1> QED BY <1>1, <1>2, <1>3, <1>6 DEF OthersStay

\* A commit lays what is staged over the rows as they are, and only where no
\* other session has a lock.
LEMMA CommitShape ==
    ASSUME Shape, NEW s \in Sessions, NEW accepted, Commit(s, accepted)
    PROVE  /\ Shape' /\ OthersStay(s)
           /\ DOMAIN rows' = DOMAIN rows /\ desk' = desk
           /\ \A r \in DOMAIN rows :
                 /\ r \in DOMAIN open[s].writes
                      => rows'[r] = Written(rows[r], open[s].writes[r])
                 /\ r \notin DOMAIN open[s].writes => rows'[r] = rows[r]
           /\ DOMAIN open'[s].writes = {} /\ open'[s].locks = {}
           /\ \A t \in Sessions \ {s} : DOMAIN open[s].writes \cap open[t].locks = {}
           /\ Lands(s) /\ accepted
<1>1. /\ rows' = After(s)
      /\ open' = [t \in Sessions |->
                     IF t = s THEN Idle
                     ELSE IF open[t] = Idle THEN Idle
                     ELSE [open[t] EXCEPT !.fresh = FALSE]]
      /\ UNCHANGED desk
      /\ Unblocked(s) /\ Lands(s) /\ accepted
  BY DEF Commit
<1>2. /\ open' = [t \in Sessions |-> open'[t]]
      /\ open'[s] = Idle
      /\ \A t \in Sessions \ {s} :
            open'[t] = IF open[t] = Idle THEN Idle ELSE [open[t] EXCEPT !.fresh = FALSE]
  BY <1>1
<1>3. ASSUME NEW t \in Sessions \ {s}
      PROVE  /\ open'[t].writes = open[t].writes
             /\ open'[t].locks = open[t].locks
             /\ open'[t] = [writes |-> open'[t].writes, locks |-> open'[t].locks,
                            fresh |-> open'[t].fresh]
  BY <1>2 DEF Shape
<1>4. /\ DOMAIN open'[s].writes = {} /\ open'[s].locks = {}
      /\ open'[s] = [writes |-> open'[s].writes, locks |-> open'[s].locks,
                     fresh |-> open'[s].fresh]
  BY <1>2 DEF Idle
<1>5. /\ DOMAIN rows' = DOMAIN rows
      /\ rows' = [r \in DOMAIN rows' |-> rows'[r]]
      /\ \A r \in DOMAIN rows :
            /\ r \in DOMAIN open[s].writes
                 => rows'[r] = Written(rows[r], open[s].writes[r])
            /\ r \notin DOMAIN open[s].writes => rows'[r] = rows[r]
  BY <1>1 DEF After
<1>6. \A r \in DOMAIN rows' : rows'[r].there \/ rows'[r] = Absent
  BY <1>5 DEF Shape, There, Written
<1>7. Shape'
  BY <1>2, <1>3, <1>4, <1>5, <1>6 DEF Shape, There
<1> QED BY <1>1, <1>3, <1>4, <1>5, <1>7 DEF OthersStay, Unblocked

\* A request that fails leaves nothing.
LEMMA AbortShape ==
    ASSUME Shape, NEW s \in Sessions, Abort(s)
    PROVE  /\ Shape' /\ OthersStay(s)
           /\ UNCHANGED <<desk, rows, torn>>
           /\ DOMAIN open'[s].writes = {} /\ open'[s].locks = {}
<1>1. open' = [open EXCEPT ![s] = Idle] /\ UNCHANGED <<desk, rows, torn>>
  BY DEF Abort
<1>2. /\ open' = [t \in Sessions |-> open'[t]]
      /\ open'[s] = Idle
      /\ \A t \in Sessions \ {s} : open'[t] = open[t]
  BY <1>1 DEF Shape
<1>3. /\ DOMAIN open'[s].writes = {} /\ open'[s].locks = {}
      /\ open'[s] = [writes |-> open'[s].writes, locks |-> open'[s].locks,
                     fresh |-> open'[s].fresh]
  BY <1>2 DEF Idle
<1>4. Shape'
  BY <1>1, <1>2, <1>3 DEF Shape, There
<1> QED BY <1>1, <1>2, <1>3, <1>4 DEF OthersStay

\* So does nothing.
LEMMA StutterShape ==
    ASSUME Shape, UNCHANGED storeVars
    PROVE  Shape' /\ \A s \in Sessions : open'[s] = open[s]
  BY DEF Shape, storeVars, There

\* A new row takes a number that is spare.
LEMMA NewRowIsSpare ==
    ASSUME NEW name, Spare(name) # {}, \A r \in Table(name) : r[2] \in Nat
    PROVE  /\ NewRow(name) \in Spare(name)
           /\ NewRow(name) \in Table(name) /\ ~There(NewRow(name))
           /\ \A t \in Sessions : NewRow(name) \notin DOMAIN open[t].writes
<1> DEFINE N == {r[2] : r \in Spare(name)}
<1>1. Spare(name) \subseteq Table(name)
  BY DEF Spare
<1>2. N \in SUBSET Nat /\ N # {}
  BY <1>1
<1>3. \E n \in N : \A m \in N : n <= m
  <2> HIDE DEF N
  <2> QED BY <1>2, SmallestNumber
<1>4. \E r \in Spare(name) : \A x \in Spare(name) : r[2] <= x[2]
  BY <1>3
<1>5. NewRow(name) \in Spare(name)
  BY <1>4 DEF NewRow
<1> QED BY <1>5 DEF Spare

\* All columns of a row that is not there differ from what is written.
LEMMA NewRowDirty ==
    ASSUME NEW r, rows[r] = Absent, NEW cols, cols.there = TRUE,
           cols = [c \in DOMAIN cols |-> cols[c]], "there" \in DOMAIN cols
    PROVE  /\ Dirty(r, cols) = cols
           /\ DOMAIN Dirty(r, cols) # {}
           /\ Written(Absent, cols) = cols
  BY DEF Absent, Dirty, Over, Written

\* A handler that inserts one row stages the whole of it.
LEMMA StageInsert ==
    ASSUME Shape, NEW s \in Sessions, NEW locked, NEW name, NEW cols,
           Spare(name) # {}, \A r \in Table(name) : r[2] \in Nat,
           StageLocked(s, locked, Insert(name, cols))
    PROVE  LET r == NewRow(name)
               row == Over([there |-> TRUE], cols)
           IN /\ r \in Table(name) /\ ~There(r)
              /\ \A t \in Sessions : r \notin DOMAIN open[t].writes
              /\ DOMAIN open'[s].writes = {r} /\ open'[s].writes[r] = row
              /\ open'[s].locks = locked /\ Lockable(locked)
              /\ Shape' /\ OthersStay(s) /\ UNCHANGED <<desk, rows, torn>>
<1> DEFINE r == NewRow(name)
           row == Over([there |-> TRUE], cols)
<1>1. /\ r \in Table(name) /\ ~There(r)
      /\ \A t \in Sessions : r \notin DOMAIN open[t].writes
  BY NewRowIsSpare
<1>2. /\ Insert(name, cols) = Set(r, row)
      /\ DOMAIN Set(r, row) = {r} /\ Set(r, row)[r] = row
  BY DEF Insert, Set
<1>3. rows[r] = Absent /\ r \in DOMAIN rows
  BY <1>1 DEF Shape, Table
<1>4. row = [c \in DOMAIN row |-> row[c]] /\ row.there = TRUE /\ "there" \in DOMAIN row
  BY DEF Over
<1> HIDE DEF row, r
<1>5. Dirty(r, row) = row /\ DOMAIN Dirty(r, row) # {}
  BY <1>3, <1>4, NewRowDirty
<1>6. DOMAIN Insert(name, cols) \subseteq DOMAIN rows
  BY <1>2, <1>3
<1>7. /\ Shape' /\ OthersStay(s)
      /\ UNCHANGED <<desk, rows, torn>>
      /\ open'[s].locks = locked
      /\ DOMAIN open'[s].writes
           = {x \in DOMAIN Insert(name, cols) : DOMAIN Dirty(x, Insert(name, cols)[x]) # {}}
      /\ \A x \in DOMAIN open'[s].writes : open'[s].writes[x] = Dirty(x, Insert(name, cols)[x])
      /\ Lockable(locked)
  BY <1>6, StageShape
<1>8. DOMAIN open'[s].writes = {r} /\ open'[s].writes[r] = row
  BY <1>2, <1>5, <1>7
<1> QED BY <1>1, <1>7, <1>8 DEF r, row

\* Columns none of which is in the row already.
Differ(r, cols) ==
    /\ r \in DOMAIN rows
    /\ cols = [c \in DOMAIN cols |-> cols[c]]
    /\ \A c \in DOMAIN cols : rows[r][c] # cols[c]

\* A handler that sets a column of a row to what it is not stages that column.
LEMMA StageSet ==
    ASSUME Shape, NEW s \in Sessions, NEW locked, NEW r, NEW cols, Differ(r, cols),
           StageLocked(s, locked, Set(r, cols))
    PROVE  /\ DOMAIN open'[s].writes = {r} /\ open'[s].writes[r] = cols
           /\ open'[s].locks = locked /\ Lockable(locked)
           /\ Shape' /\ OthersStay(s) /\ UNCHANGED <<desk, rows, torn>>
<1>1. DOMAIN Set(r, cols) = {r} /\ Set(r, cols)[r] = cols
  BY DEF Set
<1>2. Dirty(r, cols) = cols
  BY DEF Dirty, Differ
<1>5. r \in DOMAIN rows
  BY DEF Differ
<1>3. /\ Shape' /\ OthersStay(s)
      /\ UNCHANGED <<desk, rows, torn>>
      /\ open'[s].locks = locked
      /\ DOMAIN open'[s].writes
           = {x \in DOMAIN Set(r, cols) : DOMAIN Dirty(x, Set(r, cols)[x]) # {}}
      /\ \A x \in DOMAIN open'[s].writes : open'[s].writes[x] = Dirty(x, Set(r, cols)[x])
      /\ Lockable(locked)
  BY <1>1, <1>5, StageShape
<1>4. {x \in DOMAIN Set(r, cols) : DOMAIN Dirty(x, Set(r, cols)[x]) # {}} # {}
  BY <1>1, <1>2 DEF StageLocked
<1> QED BY <1>1, <1>2, <1>3, <1>4

-----------------------------------------------------------------------------
(* Handlers that stage all they write, and rows nobody else inserts. *)

\* What a request stages when every column it names differs from the row.
LEMMA StageAll ==
    ASSUME Shape, NEW s \in Sessions, NEW locked, NEW writes, DOMAIN writes \subseteq DOMAIN rows,
           \A r \in DOMAIN writes :
               Dirty(r, writes[r]) = writes[r] /\ DOMAIN writes[r] # {},
           StageLocked(s, locked, writes)
    PROVE  /\ Shape' /\ OthersStay(s) /\ UNCHANGED <<desk, rows, torn>>
           /\ open'[s].locks = locked /\ Lockable(locked)
           /\ DOMAIN open'[s].writes = DOMAIN writes
           /\ \A r \in DOMAIN writes : open'[s].writes[r] = writes[r]
<1>1. /\ Shape' /\ OthersStay(s) /\ UNCHANGED <<desk, rows, torn>>
      /\ open'[s].locks = locked /\ Lockable(locked)
      /\ DOMAIN open'[s].writes = {r \in DOMAIN writes : DOMAIN Dirty(r, writes[r]) # {}}
      /\ \A r \in DOMAIN open'[s].writes : open'[s].writes[r] = Dirty(r, writes[r])
  BY StageShape
<1>2. DOMAIN open'[s].writes = DOMAIN writes
  BY <1>1
<1> QED BY <1>1, <1>2

\* A row that only this session will insert.
Fresh(s, r) ==
    /\ r \in DOMAIN rows /\ ~There(r)
    /\ \A t \in Sessions \ {s} : r \notin DOMAIN open[t].writes

\* Whoever inserts takes a row nobody else does.
TakesSpare(s) ==
    \A t \in Sessions \ {s} : \A r \in DOMAIN open[t].writes :
        ~There(r) => r \notin DOMAIN open'[s].writes

\* A row that one request is about to insert is not written by one that begins later.
LEMMA FreshStays ==
    ASSUME NEW s \in Sessions, OthersStay(s), TakesSpare(s), UNCHANGED rows,
           NEW t \in Sessions \ {s}, NEW r \in DOMAIN open[t].writes, Fresh(t, r)
    PROVE  Fresh(t, r)'
  BY DEF TakesSpare, Fresh, OthersStay, There

\* Nor by the commit of another.
LEMMA FreshLands ==
    ASSUME Shape, NEW s \in Sessions, NEW accepted, Commit(s, accepted),
           NEW t \in Sessions \ {s}, NEW r, Fresh(t, r)
    PROVE  Fresh(t, r)' /\ rows'[r] = rows[r]
  BY CommitShape DEF Fresh, OthersStay, There

\* Nor by its end without a commit.
LEMMA FreshAborts ==
    ASSUME Shape, NEW s \in Sessions, Abort(s), NEW t \in Sessions \ {s}, NEW r, Fresh(t, r)
    PROVE  Fresh(t, r)'
  BY AbortShape DEF OthersStay, Fresh, There

\* What a session holds nobody else writes.
LEMMA HeldStays ==
    ASSUME Shape, NEW s \in Sessions, NEW accepted, Commit(s, accepted),
           NEW t \in Sessions \ {s}, NEW r \in DOMAIN rows, r \in open[t].locks
    PROVE  rows'[r] = rows[r] /\ r \notin DOMAIN open[s].writes
  BY CommitShape

\* The number a new row takes.
TakesRow(s, name, r) ==
    /\ r \in Table(name) /\ r = NewRow(name) /\ Fresh(s, r) /\ rows[r] = Absent
    /\ \A t \in Sessions : r \notin DOMAIN open[t].writes

\* An insert finds a row that nobody has taken.
LEMMA NewRowTaken ==
    ASSUME Shape, NEW name, Spare(name) # {}, \A r \in Table(name) : r[2] \in Nat, NEW s \in Sessions
    PROVE  \E r : TakesRow(s, name, r)
  BY NewRowIsSpare DEF Table, Shape, Fresh, TakesRow

\* The session inserts the row, whole.
Inserts(s, r) ==
    LET w == open[s].writes[r]
    IN /\ Fresh(s, r)
       /\ w = [a \in DOMAIN w |-> w[a]] /\ "there" \in DOMAIN w /\ w.there = TRUE

\* A row that is inserted is, after the commit, what was staged for it.
LEMMA InsertLands ==
    ASSUME Shape, NEW s \in Sessions, NEW accepted, Commit(s, accepted),
           NEW r \in DOMAIN open[s].writes, Inserts(s, r)
    PROVE  rows'[r] = open[s].writes[r] /\ rows'[r].there
<1>1. rows[r] = Absent /\ r \in DOMAIN rows
  BY DEF Inserts, Fresh, Shape
<1>2. rows'[r] = Written(Absent, open[s].writes[r])
  BY <1>1, CommitShape
<1>3. PICK w : w = open[s].writes[r]
  OBVIOUS
<1>4. w = [a \in DOMAIN w |-> w[a]] /\ "there" \in DOMAIN w /\ w.there = TRUE
  BY <1>3 DEF Inserts
<1>5. Written(Absent, w) = w
  BY <1>1, <1>4, NewRowDirty
<1> QED BY <1>2, <1>3, <1>4, <1>5

\* A handler that inserts a row.
LEMMA StageNew ==
    ASSUME Shape, NEW s \in Sessions, NEW name, NEW r, TakesRow(s, name, r),
           NEW locked, NEW cols, StageLocked(s, locked, Insert(name, cols))
    PROVE  /\ Shape' /\ OthersStay(s) /\ UNCHANGED <<desk, rows, torn>> /\ TakesSpare(s)
           /\ open'[s].locks = locked /\ Lockable(locked)
           /\ DOMAIN open'[s].writes = {r} /\ Inserts(s, r)'
           /\ open'[s].writes[r] = Over([there |-> TRUE], cols)
<1>1. PICK w, sent :
          /\ w = Over([there |-> TRUE], cols) /\ sent = Set(r, w)
          /\ StageLocked(s, locked, sent)
  BY DEF Insert, TakesRow
<1>2. /\ w = [a \in DOMAIN w |-> w[a]] /\ "there" \in DOMAIN w /\ w.there = TRUE
      /\ Dirty(r, w) = w /\ DOMAIN w # {}
  <2>1. w = [a \in DOMAIN w |-> w[a]] /\ "there" \in DOMAIN w /\ w.there = TRUE
    BY <1>1 DEF Over
  <2>2. Dirty(r, w) = w
    BY <2>1, NewRowDirty DEF TakesRow
  <2> QED BY <2>1, <2>2
<1>3. DOMAIN sent = {r} /\ sent[r] = w /\ r \in DOMAIN rows
  BY <1>1 DEF Set, Table, TakesRow
<1>4. \A x \in DOMAIN sent : Dirty(x, sent[x]) = sent[x] /\ DOMAIN sent[x] # {}
  BY <1>2, <1>3
<1>5. /\ Shape' /\ OthersStay(s) /\ UNCHANGED <<desk, rows, torn>>
      /\ open'[s].locks = locked /\ Lockable(locked)
      /\ DOMAIN open'[s].writes = DOMAIN sent
      /\ \A x \in DOMAIN sent : open'[s].writes[x] = sent[x]
  BY <1>1, <1>3, <1>4, StageAll
<1>6. TakesSpare(s)
  BY <1>3, <1>5 DEF TakesSpare, TakesRow
<1>7. Fresh(s, r)'
  BY <1>3, <1>5 DEF Fresh, OthersStay, There, TakesRow
<1>8. Inserts(s, r)'
  BY <1>2, <1>3, <1>5, <1>7 DEF Inserts
<1> QED BY <1>1, <1>3, <1>5, <1>6, <1>8

\* A handler that writes a row and inserts one of another table.
WritesWith(s, locked, c, change, name, cols) ==
    /\ c \in DOMAIN rows /\ c[1] # name /\ Dirty(c, change) = change /\ DOMAIN change # {}
    /\ There(c) \/ \A t \in Sessions : c \notin DOMAIN open[t].writes
    /\ StageLocked(s, locked, Over(Set(c, change), Insert(name, cols)))

\* A request that changes one row and inserts another stages both, and both are its own.
LEMMA StageWith ==
    ASSUME Shape, NEW s \in Sessions, NEW name, NEW r, TakesRow(s, name, r),
           NEW locked, NEW c, NEW change, NEW cols, WritesWith(s, locked, c, change, name, cols)
    PROVE  /\ Shape' /\ OthersStay(s) /\ UNCHANGED <<desk, rows, torn>> /\ TakesSpare(s)
           /\ open'[s].locks = locked /\ Lockable(locked)
           /\ DOMAIN open'[s].writes = {c, r} /\ open'[s].writes[c] = change
           /\ Inserts(s, r)' /\ open'[s].writes[r] = Over([there |-> TRUE], cols)
<1>1. PICK w, sent :
          /\ w = Over([there |-> TRUE], cols) /\ sent = Over(Set(c, change), Set(r, w))
          /\ StageLocked(s, locked, sent)
  BY DEF Insert, TakesRow, WritesWith
<1>2. /\ w = [a \in DOMAIN w |-> w[a]] /\ "there" \in DOMAIN w /\ w.there = TRUE
      /\ Dirty(r, w) = w /\ DOMAIN w # {}
  <2>1. w = [a \in DOMAIN w |-> w[a]] /\ "there" \in DOMAIN w /\ w.there = TRUE
    BY <1>1 DEF Over
  <2>2. Dirty(r, w) = w
    BY <2>1, NewRowDirty DEF TakesRow
  <2> QED BY <2>1, <2>2
<1>3. r # c /\ r \in DOMAIN rows /\ c \in DOMAIN rows
  BY DEF Table, TakesRow, WritesWith
<1>4. DOMAIN sent = {c, r} /\ sent[c] = change /\ sent[r] = w
  BY <1>1, <1>3 DEF Over, Set
<1>5. \A x \in DOMAIN sent : Dirty(x, sent[x]) = sent[x] /\ DOMAIN sent[x] # {}
  BY <1>2, <1>4 DEF WritesWith
<1>6. /\ Shape' /\ OthersStay(s) /\ UNCHANGED <<desk, rows, torn>>
      /\ open'[s].locks = locked /\ Lockable(locked)
      /\ DOMAIN open'[s].writes = DOMAIN sent
      /\ \A x \in DOMAIN sent : open'[s].writes[x] = sent[x]
  BY <1>1, <1>3, <1>4, <1>5, StageAll
<1>7. TakesSpare(s)
  BY <1>4, <1>6 DEF TakesSpare, TakesRow, WritesWith
<1>8. Fresh(s, r)'
  BY <1>6 DEF Fresh, OthersStay, There, TakesRow
<1>9. Inserts(s, r)'
  BY <1>2, <1>4, <1>6, <1>8 DEF Inserts
<1> QED BY <1>1, <1>4, <1>6, <1>7, <1>9

\* What a session has staged stands as long as what it holds is left alone and
\* nobody else takes its new rows.
Kept(t) ==
    /\ DOMAIN rows' = DOMAIN rows
    /\ open'[t].writes = open[t].writes /\ open'[t].locks = open[t].locks
    /\ \A r \in DOMAIN rows : r \in open[t].locks => rows'[r] = rows[r]
    /\ \A r \in DOMAIN open[t].writes : Fresh(t, r) => Fresh(t, r)'

\* A request keeps what it holds and inserts while another begins,
LEMMA StageLeaves ==
    ASSUME NEW s \in Sessions, OthersStay(s), TakesSpare(s), UNCHANGED rows,
           NEW t \in Sessions \ {s}
    PROVE  Kept(t)
  BY FreshStays DEF Kept, OthersStay

\* while another commits,
LEMMA CommitLeaves ==
    ASSUME Shape, NEW s \in Sessions, NEW accepted, Commit(s, accepted), NEW t \in Sessions \ {s}
    PROVE  Kept(t)
  BY CommitShape, FreshLands, HeldStays DEF Kept, OthersStay

\* while another ends without a commit,
LEMMA AbortLeaves ==
    ASSUME Shape, NEW s \in Sessions, Abort(s), NEW t \in Sessions \ {s}
    PROVE  Kept(t)
  BY AbortShape, FreshAborts DEF Kept, OthersStay

\* and while nothing happens.
LEMMA StutterLeaves ==
    ASSUME Shape, UNCHANGED storeVars, NEW t \in Sessions
    PROVE  Kept(t)
  BY DEF storeVars, Kept, Fresh, There

\* A handler that writes rows that are there.
LEMMA StageThere ==
    ASSUME Shape, NEW s \in Sessions, NEW locked, NEW writes,
           \A r \in DOMAIN writes : r \in DOMAIN rows /\ There(r),
           StageLocked(s, locked, writes)
    PROVE  /\ Shape' /\ OthersStay(s) /\ UNCHANGED <<desk, rows, torn>> /\ TakesSpare(s)
           /\ open'[s].locks = locked /\ DOMAIN open'[s].writes \subseteq DOMAIN writes
  BY StageShape DEF TakesSpare

\* Every behaviour has one desk and the rows it began with.
Alike == desk' = desk /\ DOMAIN rows' = DOMAIN rows

-----------------------------------------------------------------------------
(* Requests that commit on the rows they have read. *)

\* A row once columns are laid over it, whichever of them are sent.
LaidRow(new, cols, old) ==
    IF IF "there" \in DOMAIN cols THEN cols.there ELSE old.there
    THEN /\ new.there
         /\ DOMAIN new = DOMAIN cols \cup DOMAIN old
         /\ \A c \in DOMAIN cols : new[c] = cols[c]
         /\ \A c \in DOMAIN old \ DOMAIN cols : new[c] = old[c]
    ELSE new = Absent

Laid(tab, now, writes) ==
    /\ DOMAIN now = DOMAIN tab
    /\ \A r \in DOMAIN tab :
          /\ r \in DOMAIN writes => LaidRow(now[r], writes[r], tab[r])
          /\ r \notin DOMAIN writes => now[r] = tab[r]

\* Every row says whether it is there.
Told(tab) == \A r \in DOMAIN tab : "there" \in DOMAIN tab[r]

\* A handler alone lays its writes over the rows it read.
LEMMA StagedLaid ==
    ASSUME Shape, Told(rows), NEW s \in Sessions, NEW locked, NEW writes,
           DOMAIN writes \subseteq DOMAIN rows, StageLocked(s, locked, writes)
    PROVE  Laid(rows, After(s)', writes)
<1>1. /\ UNCHANGED <<desk, rows, torn>>
      /\ DOMAIN open'[s].writes = {r \in DOMAIN writes : DOMAIN Dirty(r, writes[r]) # {}}
      /\ \A r \in DOMAIN open'[s].writes : open'[s].writes[r] = Dirty(r, writes[r])
  BY StageShape
<1>2. PICK now : now = After(s)'
  OBVIOUS
<1>3. /\ DOMAIN now = DOMAIN rows
      /\ \A r \in DOMAIN rows :
            now[r] = IF r \in DOMAIN open'[s].writes THEN Written(rows[r], open'[s].writes[r])
                     ELSE rows[r]
  BY <1>1, <1>2 DEF After
<1>4. ASSUME NEW r \in DOMAIN writes
      PROVE  LaidRow(now[r], writes[r], rows[r])
  <2>1. PICK old, cols, dirty :
            old = rows[r] /\ cols = writes[r] /\ dirty = Dirty(r, writes[r])
    OBVIOUS
  <2>2. /\ DOMAIN dirty = {c \in DOMAIN cols : c \notin DOMAIN old \/ old[c] # cols[c]}
        /\ \A c \in DOMAIN dirty : dirty[c] = cols[c]
    BY <2>1 DEF Dirty
  <2>3. "there" \in DOMAIN old /\ (old.there \/ old = Absent)
    BY <2>1 DEF Told, Shape, There
  <2>4. CASE DOMAIN dirty = {}
    BY <1>1, <1>3, <2>1, <2>2, <2>4, <2>3 DEF LaidRow
  <2>5. CASE DOMAIN dirty # {}
    <3>1. now[r] = Written(old, dirty)
      BY <1>1, <1>3, <2>1, <2>5
    <3>2. PICK row : row = Over(dirty, old)
      OBVIOUS
    <3>3. /\ DOMAIN row = DOMAIN cols \cup DOMAIN old
          /\ \A c \in DOMAIN cols : row[c] = cols[c]
          /\ \A c \in DOMAIN old \ DOMAIN cols : row[c] = old[c]
      BY <2>2, <3>2 DEF Over
    <3>4. row.there = IF "there" \in DOMAIN cols THEN cols.there ELSE old.there
      BY <2>3, <3>3
    <3>5. now[r] = IF row.there THEN row ELSE Absent
      BY <3>1, <3>2 DEF Written
    <3> QED BY <2>1, <3>3, <3>4, <3>5 DEF LaidRow
  <2> QED BY <2>4, <2>5
<1>5. \A r \in DOMAIN rows : r \notin DOMAIN writes => now[r] = rows[r]
  BY <1>1, <1>3
<1> QED BY <1>2, <1>3, <1>4, <1>5 DEF Laid

\* Rows keep their tables when columns are laid over them.
LEMMA LaidTold ==
    ASSUME NEW tab, NEW now, NEW writes, Told(tab), Laid(tab, now, writes)
    PROVE  Told(now)
  BY DEF Told, Laid, LaidRow, Absent

\* What the rows will be changes with a handler for the session it serves.
LEMMA StageAfter ==
    ASSUME Shape, NEW s \in Sessions, NEW locked, NEW writes, StageLocked(s, locked, writes)
    PROVE  \A t \in Sessions \ {s} : open'[t] = open[t] /\ After(t)' = After(t)
  BY DEF StageLocked, Shape, After

\* After a commit a session that is still fresh has staged nothing.
LEMMA CommitAfter ==
    ASSUME Shape, NEW s \in Sessions, NEW accepted, Commit(s, accepted)
    PROVE  /\ rows' = After(s) /\ torn' = (torn \/ ~open[s].fresh)
           /\ \A t \in Sessions : open'[t].fresh => After(t)' = rows'
  BY CommitShape DEF Commit, Shape, Idle, After

\* A request that ends without a commit changes nothing for the others.
LEMMA AbortAfter ==
    ASSUME Shape, NEW s \in Sessions, Abort(s)
    PROVE  /\ After(s)' = rows
           /\ \A t \in Sessions \ {s} : open'[t] = open[t] /\ After(t)' = After(t)
  BY DEF Abort, Shape, After, Idle

-----------------------------------------------------------------------------
(* Rows of the types of their tables. *)

\* A row has the columns of its table, each with a value of its type: types is a
\* record of sets.
IsRow(row, types) ==
    /\ DOMAIN row = DOMAIN types /\ row = [c \in DOMAIN row |-> row[c]]
    /\ \A c \in DOMAIN types : row[c] \in types[c]

\* Columns that may be written to a row of these types, whatever it is by then: some
\* of them, without a word on whether it is there; the whole row; or a deletion.
MayWrite(cols, types) ==
    \/ /\ DOMAIN cols \subseteq DOMAIN types \ {"there"}
       /\ \A c \in DOMAIN cols : cols[c] \in types[c]
    \/ IsRow(cols, types)
    \/ DOMAIN cols = {"there"} /\ cols.there = FALSE

\* Rows, columns staged and locks are what the tables can hold; types gives every id
\* the types of its columns.
Typed(types) ==
    /\ \A r \in DOMAIN rows :
          /\ "there" \in DOMAIN types[r] /\ types[r].there = {TRUE}
          /\ rows[r] = Absent \/ IsRow(rows[r], types[r])
    /\ torn \in BOOLEAN
    /\ \A s \in Sessions :
          /\ \A r \in DOMAIN open[s].writes : MayWrite(open[s].writes[r], types[r])
          /\ open[s].locks \subseteq DOMAIN rows \cup Advisory
          /\ open[s].fresh \in BOOLEAN

\* Some columns laid over a row leave a row of its types.
LEMMA LaidIsRow ==
    ASSUME NEW types, "there" \in DOMAIN types, types.there = {TRUE},
           NEW old, old = Absent \/ IsRow(old, types), NEW cols, MayWrite(cols, types)
    PROVE  Written(old, cols) = Absent \/ IsRow(Written(old, cols), types)
  BY DEF Over, Written, Absent, IsRow, MayWrite

\* The columns that differ may be written if all may.
LEMMA DirtyMayWrite ==
    ASSUME NEW types, "there" \in DOMAIN types, types.there = {TRUE}, NEW r,
           rows[r] = Absent \/ IsRow(rows[r], types), NEW cols, MayWrite(cols, types)
    PROVE  MayWrite(Dirty(r, cols), types)
<1>1. PICK old, w : old = rows[r] /\ w = Dirty(r, cols)
  OBVIOUS
<1>2. /\ DOMAIN w = {c \in DOMAIN cols : c \notin DOMAIN old \/ old[c] # cols[c]}
      /\ \A c \in DOMAIN w : w[c] = cols[c]
      /\ w = [c \in DOMAIN w |-> cols[c]]
  BY <1>1 DEF Dirty
<1>3. DOMAIN Absent = {"there"} /\ Absent.there = FALSE
  BY DEF Absent
<1>4. CASE DOMAIN cols = {"there"} /\ cols.there = FALSE
  BY <1>2, <1>3, <1>4, <1>1 DEF MayWrite
<1>5. CASE IsRow(cols, types)
  <2>1. cols.there = TRUE /\ DOMAIN cols = DOMAIN types
    BY <1>5 DEF IsRow
  <2>2. CASE old = Absent
    BY <1>2, <1>3, <2>1, <2>2, <1>5, <1>1 DEF IsRow, MayWrite
  <2>3. CASE IsRow(old, types)
    <3>1. old.there = TRUE /\ DOMAIN old = DOMAIN types
      BY <2>3 DEF IsRow
    <3>2. "there" \notin DOMAIN w /\ DOMAIN w \subseteq DOMAIN types
      BY <1>2, <2>1, <3>1
    <3>3. \A c \in DOMAIN w : w[c] \in types[c]
      BY <1>2, <1>5 DEF IsRow
    <3> QED BY <1>1, <3>2, <3>3 DEF MayWrite
  <2> QED BY <1>1, <2>2, <2>3
<1>6. CASE /\ DOMAIN cols \subseteq DOMAIN types \ {"there"}
           /\ \A c \in DOMAIN cols : cols[c] \in types[c]
  BY <1>1, <1>2, <1>6 DEF MayWrite
<1> QED BY <1>4, <1>5, <1>6 DEF MayWrite

\* All that is written may be.
Proper(writes, types) ==
    /\ DOMAIN writes \subseteq DOMAIN rows
    /\ \A r \in DOMAIN writes : MayWrite(writes[r], types[r])

\* A handler keeps the types if what it writes may be written,
LEMMA TypedStages ==
    ASSUME Shape, NEW types, Typed(types), NEW s \in Sessions, NEW locked, NEW writes,
           locked \subseteq DOMAIN rows \cup Advisory, Proper(writes, types),
           StageLocked(s, locked, writes)
    PROVE  Typed(types)'
<1>0. /\ DOMAIN writes \subseteq DOMAIN rows
      /\ \A r \in DOMAIN writes : MayWrite(writes[r], types[r])
  BY DEF Proper
<1>1. /\ UNCHANGED <<desk, rows, torn>> /\ open'[s].locks = locked
      /\ DOMAIN open'[s].writes = {r \in DOMAIN writes : DOMAIN Dirty(r, writes[r]) # {}}
      /\ \A r \in DOMAIN open'[s].writes : open'[s].writes[r] = Dirty(r, writes[r])
  BY <1>0, StageShape
<1>2. \A r \in DOMAIN open'[s].writes : MayWrite(open'[s].writes[r], types[r])
  <2> SUFFICES ASSUME NEW r \in DOMAIN writes PROVE MayWrite(Dirty(r, writes[r]), types[r])
    BY <1>1
  <2>1. PICK ty, cols : ty = types[r] /\ cols = writes[r]
    OBVIOUS
  <2>2. /\ "there" \in DOMAIN ty /\ ty.there = {TRUE}
        /\ rows[r] = Absent \/ IsRow(rows[r], ty)
        /\ MayWrite(cols, ty)
    BY <1>0, <2>1 DEF Typed
  <2> QED BY <2>1, <2>2, DirtyMayWrite
<1>3. open'[s].fresh \in BOOLEAN /\ \A t \in Sessions \ {s} : open'[t] = open[t]
  BY DEF StageLocked, Shape
<1>4. \A t \in Sessions :
          /\ \A r \in DOMAIN open'[t].writes : MayWrite(open'[t].writes[r], types[r])
          /\ open'[t].locks \subseteq DOMAIN rows \cup Advisory
          /\ open'[t].fresh \in BOOLEAN
  BY <1>1, <1>2, <1>3 DEF Typed
<1> QED BY <1>1, <1>4 DEF Typed, Advisory

\* and a commit,
LEMMA TypedCommits ==
    ASSUME Shape, NEW types, Typed(types), NEW s \in Sessions, NEW accepted, Commit(s, accepted)
    PROVE  Typed(types)'
<1>1. /\ DOMAIN rows' = DOMAIN rows
      /\ \A r \in DOMAIN rows :
            /\ r \in DOMAIN open[s].writes => rows'[r] = Written(rows[r], open[s].writes[r])
            /\ r \notin DOMAIN open[s].writes => rows'[r] = rows[r]
  BY CommitShape
<1>2. ASSUME NEW r \in DOMAIN rows
      PROVE  rows'[r] = Absent \/ IsRow(rows'[r], types[r])
  <2>1. CASE r \in DOMAIN open[s].writes
    <3>1. PICK ty, old, cols : ty = types[r] /\ old = rows[r] /\ cols = open[s].writes[r]
      OBVIOUS
    <3>2. /\ "there" \in DOMAIN ty /\ ty.there = {TRUE}
          /\ old = Absent \/ IsRow(old, ty)
          /\ MayWrite(cols, ty)
      BY <2>1, <3>1 DEF Typed
    <3>3. Written(old, cols) = Absent \/ IsRow(Written(old, cols), ty)
      BY <3>2, LaidIsRow
    <3> QED BY <1>1, <2>1, <3>1, <3>3
  <2>2. CASE r \notin DOMAIN open[s].writes
    BY <1>1, <2>2 DEF Typed
  <2> QED BY <2>1, <2>2
<1>3. /\ torn' = (torn \/ ~open[s].fresh)
      /\ open' = [t \in Sessions |->
                     IF t = s THEN Idle
                     ELSE IF open[t] = Idle THEN Idle
                     ELSE [open[t] EXCEPT !.fresh = FALSE]]
  BY DEF Commit
<1>4. ASSUME NEW t \in Sessions
      PROVE  /\ \A r \in DOMAIN open'[t].writes : MayWrite(open'[t].writes[r], types[r])
             /\ open'[t].locks \subseteq DOMAIN rows \cup Advisory
             /\ open'[t].fresh \in BOOLEAN
  BY <1>3 DEF Idle, Shape, Typed
<1>5. torn' \in BOOLEAN
  BY <1>3 DEF Typed
<1> QED BY <1>1, <1>2, <1>4, <1>5 DEF Typed, Advisory

\* a request that fails,
LEMMA TypedAborts ==
    ASSUME Shape, NEW types, Typed(types), NEW s \in Sessions, Abort(s)
    PROVE  Typed(types)'
<1>1. UNCHANGED <<rows, torn>> /\ open' = [t \in Sessions |-> IF t = s THEN Idle ELSE open[t]]
  BY DEF Abort, Shape
<1>2. \A t \in Sessions :
          /\ \A r \in DOMAIN open'[t].writes : MayWrite(open'[t].writes[r], types[r])
          /\ open'[t].locks \subseteq DOMAIN rows \cup Advisory
          /\ open'[t].fresh \in BOOLEAN
  <2> SUFFICES ASSUME NEW t \in Sessions
               PROVE  /\ \A r \in DOMAIN open'[t].writes : MayWrite(open'[t].writes[r], types[r])
                      /\ open'[t].locks \subseteq DOMAIN rows \cup Advisory
                      /\ open'[t].fresh \in BOOLEAN
    OBVIOUS
  <2>1. CASE t = s
    <3>1. DOMAIN open'[t].writes = {} /\ open'[t].locks = {} /\ open'[t].fresh = TRUE
      BY <1>1, <2>1 DEF Idle
    <3> QED BY <3>1
  <2>2. CASE t # s
    BY <1>1, <2>2 DEF Typed
  <2> QED BY <2>1, <2>2
<1> QED BY <1>1, <1>2 DEF Typed, Advisory

\* and nothing at all keep them.
LEMMA TypedStutters ==
    ASSUME NEW types, Typed(types), UNCHANGED storeVars
    PROVE  Typed(types)'
  BY DEF storeVars, Typed, Advisory

\* They hold of the first rows.
LEMMA TypedStarts ==
    ASSUME StoreInit, NEW types,
           \A r \in DOMAIN rows :
               /\ "there" \in DOMAIN types[r] /\ types[r].there = {TRUE}
               /\ rows[r] = Absent \/ IsRow(rows[r], types[r])
    PROVE  Typed(types)
<1>1. /\ torn = FALSE
      /\ \A s \in Sessions : /\ DOMAIN open[s].writes = {} /\ open[s].locks = {}
                               /\ open[s].fresh = TRUE
  BY DEF StoreInit, Idle
<1> QED BY <1>1 DEF Typed

\* What the store keeps of any request.
LEMMA TypedStore ==
    ASSUME Shape, NEW types, Typed(types)
    PROVE  StoreTypeOK
  BY DEF Shape, Typed, StoreTypeOK

\* A new row of the types of its table may be written.
LEMMA MayInsert ==
    ASSUME NEW types, "there" \in DOMAIN types, types.there = {TRUE}, NEW given,
           DOMAIN types = {"there"} \cup DOMAIN given,
           \A c \in DOMAIN given \ {"there"} : given[c] \in types[c]
    PROVE  MayWrite(Over([there |-> TRUE], given), types)
<1>0. PICK new : new = [there |-> TRUE]
  OBVIOUS
<1>1. PICK row : row = Over(new, given)
  OBVIOUS
<1>2. /\ DOMAIN row = DOMAIN types /\ row = [c \in DOMAIN row |-> row[c]]
      /\ \A c \in DOMAIN types : row[c] = IF c = "there" THEN TRUE ELSE given[c]
  <2>1. DOMAIN new = {"there"} /\ new.there = TRUE
    BY <1>0
  <2>2. DOMAIN new \cup DOMAIN given = DOMAIN types
    BY <2>1
  <2>3. row = [c \in DOMAIN types |-> IF c \in DOMAIN new THEN new[c] ELSE given[c]]
    BY <1>1, <2>2 DEF Over
  <2> QED BY <2>1, <2>3
<1>3. \A c \in DOMAIN types : row[c] \in types[c]
  BY <1>2
<1>4. IsRow(row, types)
  BY <1>2, <1>3 DEF IsRow
<1> QED BY <1>0, <1>1, <1>4 DEF MayWrite

\* So may some columns of a row, of many rows, of rows of several tables,
LEMMA ProperSet ==
    ASSUME NEW types, NEW r \in DOMAIN rows, NEW cols, MayWrite(cols, types[r])
    PROVE  Proper(Set(r, cols), types)
  BY DEF Proper, Set

LEMMA ProperSetAll ==
    ASSUME NEW types, NEW S \in SUBSET DOMAIN rows, NEW cols,
           \A r \in S : MayWrite(cols, types[r])
    PROVE  Proper(SetAll(S, cols), types)
  BY DEF Proper, SetAll

LEMMA ProperOver ==
    ASSUME NEW types, NEW a, NEW b, Proper(a, types), Proper(b, types)
    PROVE  Proper(Over(a, b), types)
  BY DEF Over, Proper

\* and a row that is inserted.
LEMMA ProperInsert ==
    ASSUME NEW types, Typed(types), NEW name, Spare(name) # {},
           \A r \in Table(name) : r[2] \in Nat, NEW ty, \A r \in Table(name) : types[r] = ty,
           NEW given, DOMAIN ty = {"there"} \cup DOMAIN given,
           \A c \in DOMAIN given \ {"there"} : given[c] \in ty[c]
    PROVE  Proper(Insert(name, given), types)
<1>1. NewRow(name) \in Table(name)
  BY NewRowIsSpare
<1>2. PICK r \in Table(name) : r = NewRow(name)
  BY <1>1
<1>3. r \in DOMAIN rows /\ types[r] = ty /\ "there" \in DOMAIN ty /\ ty.there = {TRUE}
  BY DEF Table, Typed
<1>4. MayWrite(Over([there |-> TRUE], given), ty)
  BY <1>3, MayInsert
<1>5. Proper(Set(r, Over([there |-> TRUE], given)), types)
  BY <1>3, <1>4, ProperSet
<1> QED BY <1>2, <1>5 DEF Insert

-----------------------------------------------------------------------------
(* Rows that are as they should be. *)

\* Every row is one of its good ones, or none.
AllGood(tab, good) == \A r \in DOMAIN tab : tab[r] = Absent \/ tab[r] \in good[r]

\* So are the rows as long as no request committed on what had changed, and so they
\* will be when one commits that nothing has overtaken.
StayGood(good) ==
    /\ ~torn => AllGood(rows, good)
    /\ \A s \in Sessions : open[s].fresh /\ AllGood(rows, good) => AllGood(After(s), good)

\* A row has the columns it was given and keeps the others.
Carries(new, cols, old) ==
    /\ \A c \in DOMAIN cols : new[c] = cols[c]
    /\ \A c \in DOMAIN old \ DOMAIN cols : new[c] = old[c]

\* What is laid over a good row leaves a good one.
KeepsGood(writes, types, good) ==
    \A r \in DOMAIN writes : \A new :
        /\ IsRow(new, types[r]) /\ Carries(new, writes[r], rows[r])
        /\ rows[r] = Absent \/ rows[r] \in good[r]
        => new \in good[r]

\* Rows of their types say whether they are there.
LEMMA TypedTold ==
    ASSUME NEW types, Typed(types)
    PROVE  Told(rows)
<1>1. "there" \in DOMAIN Absent
  BY DEF Absent
<1> QED BY <1>1 DEF Typed, Told, IsRow

\* A handler whose writes do that,
LEMMA GoodStages ==
    ASSUME Shape, NEW types, Typed(types), NEW good, StayGood(good), NEW s \in Sessions,
           NEW locked, NEW writes, Proper(writes, types), KeepsGood(writes, types, good),
           locked \subseteq DOMAIN rows \cup Advisory, StageLocked(s, locked, writes)
    PROVE  StayGood(good)'
<1>1. Told(rows) /\ DOMAIN writes \subseteq DOMAIN rows
  BY TypedTold DEF Proper
<1>2. Laid(rows, After(s)', writes)
  BY <1>1, StagedLaid
<1>3. UNCHANGED <<rows, torn>>
  BY DEF StageLocked
<1>4. \A t \in Sessions \ {s} : open'[t] = open[t] /\ After(t)' = After(t)
  BY StageAfter
<1>5. PICK now : now = After(s)'
  OBVIOUS
<1>6. ASSUME AllGood(rows, good) PROVE AllGood(now, good)
  <2> SUFFICES ASSUME NEW r \in DOMAIN rows, now[r] # Absent PROVE now[r] \in good[r]
    BY <1>2, <1>5 DEF AllGood, Laid
  <2>1. CASE r \in DOMAIN writes
    <3>1. LaidRow(now[r], writes[r], rows[r])
      BY <1>2, <1>5, <2>1 DEF Laid
    <3>2. PICK ty, old, cols, new :
              ty = types[r] /\ old = rows[r] /\ cols = writes[r] /\ new = now[r]
      OBVIOUS
    <3>3. IsRow(new, ty)
      <4>1. /\ "there" \in DOMAIN ty /\ ty.there = {TRUE} /\ MayWrite(cols, ty)
            /\ old = Absent \/ IsRow(old, ty)
        BY <2>1, <3>2 DEF Typed, Proper
      <4>2. After(s)'[r] = IF r \in DOMAIN open'[s].writes THEN Written(old, open'[s].writes[r])
                           ELSE old
        BY <1>3, <3>2 DEF After
      <4>3. /\ DOMAIN open'[s].writes = {x \in DOMAIN writes : DOMAIN Dirty(x, writes[x]) # {}}
            /\ \A x \in DOMAIN open'[s].writes : open'[s].writes[x] = Dirty(x, writes[x])
        BY <1>1, StageShape
      <4>4. MayWrite(Dirty(r, cols), ty)
        BY <3>2, <4>1, DirtyMayWrite
      <4>5. Written(old, Dirty(r, cols)) = Absent \/ IsRow(Written(old, Dirty(r, cols)), ty)
        BY <4>1, <4>4, LaidIsRow
      <4>6. new = old \/ new = Written(old, Dirty(r, cols))
        BY <1>5, <2>1, <3>2, <4>2, <4>3
      <4> QED BY <3>2, <4>1, <4>5, <4>6
    <3>4. Carries(new, cols, old)
      BY <3>1, <3>2 DEF LaidRow, Carries
    <3> QED BY <1>6, <2>1, <3>2, <3>3, <3>4 DEF KeepsGood, AllGood
  <2>2. CASE r \notin DOMAIN writes
    BY <1>2, <1>5, <1>6, <2>2 DEF Laid, AllGood
  <2> QED BY <2>1, <2>2
<1>7. ASSUME NEW t \in Sessions, open'[t].fresh, AllGood(rows, good)
      PROVE  AllGood(After(t)', good)
  BY <1>5, <1>6, <1>7, <1>4 DEF StayGood
<1> QED BY <1>3, <1>7 DEF StayGood

\* a commit,
LEMMA GoodCommits ==
    ASSUME Shape, NEW types, Typed(types), NEW good, StayGood(good), NEW s \in Sessions,
           NEW accepted, Commit(s, accepted)
    PROVE  StayGood(good)'
  BY CommitAfter DEF Typed, StayGood

\* a request that fails,
LEMMA GoodAborts ==
    ASSUME Shape, NEW good, StayGood(good), NEW s \in Sessions, Abort(s)
    PROVE  StayGood(good)'
  BY AbortAfter DEF Abort, StayGood

\* and nothing at all keep the rows good.
LEMMA GoodStutters ==
    ASSUME NEW good, StayGood(good), UNCHANGED storeVars
    PROVE  StayGood(good)'
  BY DEF storeVars, After, StayGood

\* They are if the first ones are.
LEMMA GoodStarts ==
    ASSUME Shape, StoreInit, NEW good, AllGood(rows, good)
    PROVE  StayGood(good)
  BY InitShape DEF After, StoreInit, Idle, Shape, StayGood

\* Some columns of a row, of many rows, of rows of several tables, and a new row
\* keep them good if each does.
LEMMA GoodSet ==
    ASSUME NEW types, NEW good, NEW r, NEW cols,
           \A new : /\ IsRow(new, types[r]) /\ Carries(new, cols, rows[r])
                    /\ rows[r] = Absent \/ rows[r] \in good[r]
                    => new \in good[r]
    PROVE  KeepsGood(Set(r, cols), types, good)
  BY DEF KeepsGood, Set

LEMMA GoodSetAll ==
    ASSUME NEW types, NEW good, NEW S, NEW cols,
           \A r \in S : \A new :
               /\ IsRow(new, types[r]) /\ Carries(new, cols, rows[r])
               /\ rows[r] = Absent \/ rows[r] \in good[r]
               => new \in good[r]
    PROVE  KeepsGood(SetAll(S, cols), types, good)
  BY DEF KeepsGood, SetAll

LEMMA GoodOver ==
    ASSUME NEW types, NEW good, NEW a, NEW b,
           KeepsGood(a, types, good), KeepsGood(b, types, good)
    PROVE  KeepsGood(Over(a, b), types, good)
  BY DEF Over, KeepsGood

LEMMA GoodInsert ==
    ASSUME Shape, NEW types, NEW good, NEW name, Spare(name) # {},
           \A r \in Table(name) : r[2] \in Nat, NEW given,
           \A r \in Table(name) : \A new :
               /\ IsRow(new, types[r])
               /\ \A c \in DOMAIN given \ {"there"} : new[c] = given[c]
               => new \in good[r]
    PROVE  KeepsGood(Insert(name, given), types, good)
  BY NewRowIsSpare, GoodSet DEF Over, Carries, Insert

\* What a row carries is what the columns laid over it make.
LEMMA CarriedOver ==
    ASSUME NEW new, NEW cols, NEW old, Carries(new, cols, old)
    PROVE  \A c \in DOMAIN cols \cup DOMAIN old : new[c] = Over(cols, old)[c]
  BY DEF Over, Carries

-----------------------------------------------------------------------------
(* Requests of a desk, whatever they are about. *)

\* A handler that writes what may be written.
Writes(s, types) ==
    \E locked, writes :
        /\ locked \subseteq DOMAIN rows \cup Advisory
        /\ Proper(writes, types) /\ StageLocked(s, locked, writes)

\* Somebody writes, commits or gives up, or nobody does.
Moves(types) ==
    \/ \E s \in Sessions : Writes(s, types)
    \/ \E s \in Sessions : \E accepted : Commit(s, accepted)
    \/ \E s \in Sessions : Abort(s)
    \/ UNCHANGED storeVars

\* Whoever moves, rows and writes keep their types.
LEMMA TypedMoves ==
    ASSUME Shape, NEW types, Typed(types), Moves(types)
    PROVE  Shape' /\ Typed(types)' /\ Alike
<1>1. ASSUME NEW s \in Sessions, Writes(s, types) PROVE Shape' /\ Typed(types)' /\ Alike
  BY <1>1, StageShape, TypedStages DEF Writes, Proper, Alike
<1>2. ASSUME NEW s \in Sessions, NEW accepted, Commit(s, accepted)
      PROVE  Shape' /\ Typed(types)' /\ Alike
  BY <1>2, CommitShape, TypedCommits DEF Alike
<1>3. ASSUME NEW s \in Sessions, Abort(s) PROVE Shape' /\ Typed(types)' /\ Alike
  BY <1>3, AbortShape, TypedAborts DEF Alike
<1>4. CASE UNCHANGED storeVars
  BY <1>4, StutterShape, TypedStutters DEF Alike, storeVars
<1> QED BY <1>1, <1>2, <1>3, <1>4 DEF Moves

\* The tables that rows of these types make, and what a request makes of them.
IsTable(tab, types) ==
    /\ tab = [r \in DOMAIN rows |-> tab[r]]
    /\ \A r \in DOMAIN rows : tab[r] = Absent \/ IsRow(tab[r], types[r])

LEMMA TypedTables ==
    ASSUME Shape, NEW types, Typed(types)
    PROVE  IsTable(rows, types) /\ \A s \in Sessions : IsTable(After(s), types)
<1>1. IsTable(rows, types)
  BY DEF IsTable, Typed, Shape
<1>2. ASSUME NEW s \in Sessions PROVE IsTable(After(s), types)
  <2>1. PICK now : now = After(s)
    OBVIOUS
  <2>2. /\ now = [r \in DOMAIN rows |-> now[r]]
        /\ \A r \in DOMAIN rows :
              now[r] = IF r \in DOMAIN open[s].writes THEN Written(rows[r], open[s].writes[r])
                       ELSE rows[r]
    BY <2>1 DEF After
  <2>3. ASSUME NEW r \in DOMAIN rows PROVE now[r] = Absent \/ IsRow(now[r], types[r])
    <3>1. PICK ty, old : ty = types[r] /\ old = rows[r]
      OBVIOUS
    <3>2. /\ "there" \in DOMAIN ty /\ ty.there = {TRUE}
          /\ old = Absent \/ IsRow(old, ty)
      BY <3>1 DEF Typed
    <3>3. CASE r \in DOMAIN open[s].writes
      <4>1. PICK cols : cols = open[s].writes[r]
        OBVIOUS
      <4>2. MayWrite(cols, ty)
        BY <3>1, <3>3, <4>1 DEF Typed
      <4>3. Written(old, cols) = Absent \/ IsRow(Written(old, cols), ty)
        BY <3>2, <4>2, LaidIsRow
      <4> QED BY <2>2, <3>1, <3>3, <4>1, <4>3
    <3>4. CASE r \notin DOMAIN open[s].writes
      BY <2>2, <3>1, <3>2, <3>4
    <3> QED BY <3>3, <3>4
  <2> QED BY <2>1, <2>2, <2>3 DEF IsTable
<1> QED BY <1>1, <1>2

\* Tables stay sound as long as no request commits on what had changed: sound is a set of
\* tables, those of what the rows say of one another.
StaySound(sound) ==
    /\ ~torn => rows \in sound
    /\ \A s \in Sessions : open[s].fresh /\ rows \in sound => After(s) \in sound

\* What the handler lays over a sound table makes a sound table.
LaysSound(writes, types, sound) ==
    rows \in sound => \A now : IsTable(now, types) /\ Laid(rows, now, writes) => now \in sound

WritesSound(s, types, sound) ==
    \E locked, writes :
        /\ locked \subseteq DOMAIN rows \cup Advisory
        /\ Proper(writes, types) /\ LaysSound(writes, types, sound)
        /\ StageLocked(s, locked, writes)

SoundMove(types, sound) ==
    \/ \E s \in Sessions : WritesSound(s, types, sound)
    \/ \E s \in Sessions : \E accepted : Commit(s, accepted)
    \/ \E s \in Sessions : Abort(s)
    \/ UNCHANGED storeVars

LEMMA SoundMoves ==
    ASSUME Shape, NEW types, Typed(types), NEW sound, StaySound(sound), SoundMove(types, sound)
    PROVE  Shape' /\ Typed(types)' /\ StaySound(sound)' /\ Alike
<1>1. Moves(types)
  BY DEF Moves, SoundMove, Writes, WritesSound
<1>2. Shape' /\ Typed(types)' /\ Alike
  BY <1>1, TypedMoves
<1>3. ASSUME NEW s \in Sessions, WritesSound(s, types, sound) PROVE StaySound(sound)'
  <2>1. PICK locked, writes :
            /\ Proper(writes, types) /\ LaysSound(writes, types, sound)
            /\ StageLocked(s, locked, writes)
    BY <1>3 DEF WritesSound
  <2>2. Told(rows) /\ DOMAIN writes \subseteq DOMAIN rows
    BY <2>1, TypedTold DEF Proper
  <2>3. Laid(rows, After(s)', writes)
    BY <2>1, <2>2, StagedLaid
  <2>4. UNCHANGED <<rows, torn>>
    BY <2>1 DEF StageLocked
  <2>5. \A t \in Sessions \ {s} : open'[t] = open[t] /\ After(t)' = After(t)
    BY <2>1, StageAfter
  <2>6. PICK now : now = After(s)'
    OBVIOUS
  <2>7. IsTable(now, types)
    <3>1. now = [r \in DOMAIN rows |-> now[r]]
      BY <2>4, <2>6 DEF After
    <3>2. ASSUME NEW r \in DOMAIN rows PROVE now[r] = Absent \/ IsRow(now[r], types[r])
      <4>1. PICK ty, old : ty = types[r] /\ old = rows[r]
        OBVIOUS
      <4>2. /\ "there" \in DOMAIN ty /\ ty.there = {TRUE}
            /\ old = Absent \/ IsRow(old, ty)
        BY <4>1 DEF Typed
      <4>3. now[r] = IF r \in DOMAIN open'[s].writes THEN Written(old, open'[s].writes[r])
                     ELSE old
        BY <2>4, <2>6, <4>1 DEF After
      <4>4. CASE r \in DOMAIN open'[s].writes
        <5>1. r \in DOMAIN writes /\ open'[s].writes[r] = Dirty(r, writes[r])
          BY <2>1, <2>2, <4>4, StageShape
        <5>2. PICK cols : cols = writes[r]
          OBVIOUS
        <5>3. MayWrite(cols, ty)
          BY <2>1, <4>1, <5>1, <5>2 DEF Proper
        <5>4. MayWrite(Dirty(r, cols), ty)
          BY <4>1, <4>2, <5>3, DirtyMayWrite
        <5>5. Written(old, Dirty(r, cols)) = Absent \/ IsRow(Written(old, Dirty(r, cols)), ty)
          BY <4>2, <5>4, LaidIsRow
        <5> QED BY <4>1, <4>3, <4>4, <5>1, <5>2, <5>5
      <4>5. CASE r \notin DOMAIN open'[s].writes
        BY <4>1, <4>2, <4>3, <4>5
      <4> QED BY <4>4, <4>5
    <3> QED BY <3>1, <3>2 DEF IsTable
  <2>8. rows \in sound => now \in sound
    BY <2>1, <2>3, <2>6, <2>7 DEF LaysSound
  <2>9. ASSUME NEW t \in Sessions, open'[t].fresh, rows \in sound PROVE After(t)' \in sound
    BY <2>6, <2>8, <2>9, <2>5 DEF StaySound
  <2> QED BY <2>4, <2>9 DEF StaySound
<1>4. ASSUME NEW s \in Sessions, NEW accepted, Commit(s, accepted) PROVE StaySound(sound)'
  BY <1>4, CommitAfter DEF Typed, StaySound
<1>5. ASSUME NEW s \in Sessions, Abort(s) PROVE StaySound(sound)'
  BY <1>5, AbortAfter DEF Abort, StaySound
<1>6. CASE UNCHANGED storeVars
  BY <1>6, <1>2 DEF storeVars, After, StaySound
<1> QED BY <1>2, <1>3, <1>4, <1>5, <1>6 DEF SoundMove

\* Tables are sound if the first one is.
LEMMA SoundStarts ==
    ASSUME Shape, StoreInit, NEW sound, rows \in sound
    PROVE  StaySound(sound)
  BY InitShape DEF After, StoreInit, Idle, Shape, StaySound

\* The tables that rows of these types make, as a set.
Tables(types) ==
    {tab \in [DOMAIN rows -> {Absent} \cup UNION {[DOMAIN types[r] -> UNION {types[r][c] :
                                                       c \in DOMAIN types[r]}] : r \in DOMAIN rows}] :
        IsTable(tab, types)}

LEMMA TablesAre ==
    ASSUME NEW types, NEW tab
    PROVE  tab \in Tables(types) <=> IsTable(tab, types)
<1> SUFFICES ASSUME IsTable(tab, types)
             PROVE  tab \in [DOMAIN rows -> {Absent} \cup UNION {[DOMAIN types[r] ->
                        UNION {types[r][c] : c \in DOMAIN types[r]}] : r \in DOMAIN rows}]
  BY DEF Tables
<1>1. ASSUME NEW r \in DOMAIN rows, IsRow(tab[r], types[r])
      PROVE  tab[r] \in [DOMAIN types[r] -> UNION {types[r][c] : c \in DOMAIN types[r]}]
  BY <1>1 DEF IsRow
<1>2. \A r \in DOMAIN rows :
          tab[r] \in {Absent} \cup UNION {[DOMAIN types[q] ->
                         UNION {types[q][c] : c \in DOMAIN types[q]}] : q \in DOMAIN rows}
  BY <1>1 DEF IsTable
<1> QED BY <1>2 DEF IsTable

LEMMA TablesStay ==
    ASSUME NEW types, DOMAIN rows' = DOMAIN rows
    PROVE  Tables(types)' = Tables(types)
  BY DEF IsTable, Absent, IsRow, Tables

\* Some columns of a row, or of many rows, and a new row may be written.
LEMMA WritesSet ==
    ASSUME NEW types, NEW s \in Sessions, NEW r \in DOMAIN rows, NEW cols,
           MayWrite(cols, types[r]), NEW locked, locked \subseteq DOMAIN rows \cup Advisory,
           StageLocked(s, locked, Set(r, cols))
    PROVE  Writes(s, types)
  BY ProperSet DEF Writes

LEMMA WritesSetAll ==
    ASSUME NEW types, NEW s \in Sessions, NEW S \in SUBSET DOMAIN rows, NEW cols,
           \A r \in S : MayWrite(cols, types[r]),
           NEW locked, locked \subseteq DOMAIN rows \cup Advisory,
           StageLocked(s, locked, SetAll(S, cols))
    PROVE  Writes(s, types)
  BY ProperSetAll DEF Writes

LEMMA WritesInsert ==
    ASSUME NEW types, Typed(types), NEW s \in Sessions, NEW name, Spare(name) # {},
           \A r \in Table(name) : r[2] \in Nat, NEW ty, \A r \in Table(name) : types[r] = ty,
           NEW given, DOMAIN ty = {"there"} \cup DOMAIN given,
           \A c \in DOMAIN given \ {"there"} : given[c] \in ty[c],
           Stage(s, Insert(name, given))
    PROVE  Writes(s, types)
  BY ProperInsert DEF Writes, Stage

\* Where every table is sound nothing else is asked of a handler.
LEMMA AllSound ==
    ASSUME NEW types, NEW sound, \A now : IsTable(now, types) => now \in sound,
           NEW s \in Sessions, Writes(s, types)
    PROVE  WritesSound(s, types, sound)
  BY DEF Writes, WritesSound, LaysSound

-----------------------------------------------------------------------------
(* Rows that nobody takes away. *)

\* What a session sends.
Sends(s, r, c) == r \in DOMAIN open[s].writes /\ c \in DOMAIN open[s].writes[r]

NeverRemoves ==
    \A s \in Sessions : \A r \in DOMAIN open[s].writes :
        Sends(s, r, "there") => open[s].writes[r].there

\* A handler sends what differs.
LEMMA StageSends ==
    ASSUME Shape, NEW s \in Sessions, NEW locked, NEW writes, DOMAIN writes \subseteq DOMAIN rows,
           StageLocked(s, locked, writes)
    PROVE  /\ \A r, c : /\ Sends(s, r, c)' <=> /\ r \in DOMAIN writes /\ c \in DOMAIN writes[r]
                                               /\ c \in DOMAIN rows[r] => rows[r][c] # writes[r][c]
                        /\ Sends(s, r, c)' => open'[s].writes[r][c] = writes[r][c]
           /\ \A t \in Sessions \ {s} : \A r, c : Sends(t, r, c)' <=> Sends(t, r, c)
           /\ OthersStay(s) /\ open'[s].locks = locked /\ UNCHANGED <<desk, rows, torn>>
<1>1. /\ OthersStay(s) /\ open'[s].locks = locked /\ UNCHANGED <<desk, rows, torn>>
      /\ DOMAIN open'[s].writes = {r \in DOMAIN writes : DOMAIN Dirty(r, writes[r]) # {}}
      /\ \A r \in DOMAIN open'[s].writes : open'[s].writes[r] = Dirty(r, writes[r])
  BY StageShape
<1>2. \A r : /\ DOMAIN Dirty(r, writes[r])
                   = {c \in DOMAIN writes[r] : c \notin DOMAIN rows[r] \/ rows[r][c] # writes[r][c]}
             /\ \A c \in DOMAIN Dirty(r, writes[r]) : Dirty(r, writes[r])[c] = writes[r][c]
  BY DEF Dirty
<1>3. ASSUME NEW r, NEW c
      PROVE  /\ Sends(s, r, c)' <=> /\ r \in DOMAIN writes /\ c \in DOMAIN writes[r]
                                    /\ c \in DOMAIN rows[r] => rows[r][c] # writes[r][c]
             /\ Sends(s, r, c)' => open'[s].writes[r][c] = writes[r][c]
  <2>1. Sends(s, r, c)' <=> r \in DOMAIN open'[s].writes /\ c \in DOMAIN open'[s].writes[r]
    BY DEF Sends
  <2>2. PICK cols : cols = Dirty(r, writes[r])
    OBVIOUS
  <2>3. /\ \A a : a \in DOMAIN cols <=>
                     a \in DOMAIN writes[r] /\ (a \in DOMAIN rows[r] => rows[r][a] # writes[r][a])
        /\ \A a \in DOMAIN cols : cols[a] = writes[r][a]
    BY <1>2, <2>2
  <2>4. r \in DOMAIN open'[s].writes => r \in DOMAIN writes /\ open'[s].writes[r] = cols
    BY <1>1, <2>2
  <2>5. r \in DOMAIN writes /\ c \in DOMAIN cols => r \in DOMAIN open'[s].writes
    BY <1>1, <2>2
  <2>6. Sends(s, r, c)' <=> r \in DOMAIN writes /\ c \in DOMAIN cols
    BY <2>1, <2>4, <2>5
  <2>7. Sends(s, r, c)' => open'[s].writes[r][c] = writes[r][c]
    BY <2>1, <2>3, <2>4
  <2> QED BY <2>3, <2>6, <2>7
<1>4. \A t \in Sessions \ {s} : \A r, c : Sends(t, r, c)' <=> Sends(t, r, c)
  BY <1>1 DEF OthersStay, Sends
<1> QED BY <1>1, <1>3, <1>4

\* A commit brings it to the rows.
LEMMA CommitSends ==
    ASSUME Shape, NEW types, Typed(types), NeverRemoves, NEW s \in Sessions, NEW accepted,
           Commit(s, accepted)
    PROVE  /\ \A r \in DOMAIN rows : There(r)' <=> There(r) \/ Sends(s, r, "there")
           /\ \A r \in DOMAIN rows : \A c : There(r)' =>
                 /\ Sends(s, r, c) => rows'[r][c] = open[s].writes[r][c]
                 /\ c \in DOMAIN rows[r] /\ ~Sends(s, r, c) => rows'[r][c] = rows[r][c]
           /\ \A r, c : ~Sends(s, r, c)'
           /\ \A t \in Sessions \ {s} : \A r, c : Sends(t, r, c)' <=> Sends(t, r, c)
           /\ OthersStay(s) /\ Alike
<1>1. /\ OthersStay(s) /\ DOMAIN rows' = DOMAIN rows /\ desk' = desk
      /\ \A r \in DOMAIN rows :
            /\ r \in DOMAIN open[s].writes => rows'[r] = Written(rows[r], open[s].writes[r])
            /\ r \notin DOMAIN open[s].writes => rows'[r] = rows[r]
      /\ DOMAIN open'[s].writes = {}
  BY CommitShape
<1>2. ASSUME NEW r \in DOMAIN rows
      PROVE  /\ There(r)' <=> There(r) \/ Sends(s, r, "there")
             /\ \A c : There(r)' =>
                   /\ Sends(s, r, c) => rows'[r][c] = open[s].writes[r][c]
                   /\ c \in DOMAIN rows[r] /\ ~Sends(s, r, c) => rows'[r][c] = rows[r][c]
  <2>1. There(r) = rows[r].there /\ There(r)' = rows'[r].there
    BY DEF There
  <2>2. CASE r \notin DOMAIN open[s].writes
    BY <1>1, <2>1, <2>2 DEF Sends
  <2>3. CASE r \in DOMAIN open[s].writes
    <3>1. PICK old, cols, row : old = rows[r] /\ cols = open[s].writes[r] /\ row = Over(cols, old)
      OBVIOUS
    <3>2. /\ DOMAIN row = DOMAIN cols \cup DOMAIN old
          /\ \A c \in DOMAIN row : row[c] = IF c \in DOMAIN cols THEN cols[c] ELSE old[c]
      BY <3>1 DEF Over
    <3>3. rows'[r] = IF row.there THEN row ELSE Absent
      BY <1>1, <2>3, <3>1 DEF Written
    <3>4. "there" \in DOMAIN old
      BY <3>1, TypedTold DEF Told
    <3>5. "there" \in DOMAIN cols => cols.there
      BY <2>3, <3>1 DEF NeverRemoves, Sends
    <3>6. \A c : Sends(s, r, c) <=> c \in DOMAIN cols
      BY <2>3, <3>1 DEF Sends
    <3>7. row.there <=> old.there \/ "there" \in DOMAIN cols
      BY <3>2, <3>4, <3>5
    <3>8. ~Absent.there
      BY DEF Absent
    <3>9. rows'[r].there <=> row.there
      BY <3>3, <3>8
    <3>10. ASSUME rows'[r].there, NEW c
           PROVE  /\ c \in DOMAIN cols => rows'[r][c] = cols[c]
                  /\ c \in DOMAIN old /\ c \notin DOMAIN cols => rows'[r][c] = old[c]
      BY <3>2, <3>3, <3>9, <3>10
    <3> QED BY <2>1, <3>1, <3>6, <3>7, <3>9, <3>10
  <2> QED BY <2>2, <2>3
<1>3. \A r, c : ~Sends(s, r, c)'
  BY <1>1 DEF Sends
<1>4. \A t \in Sessions \ {s} : \A r, c : Sends(t, r, c)' <=> Sends(t, r, c)
  BY <1>1 DEF OthersStay, Sends
<1> QED BY <1>1, <1>2, <1>3, <1>4 DEF Alike

\* A request that fails sends nothing, and nothing happens to the others.
LEMMA AbortSends ==
    ASSUME Shape, NEW s \in Sessions, Abort(s)
    PROVE  /\ \A r, c : ~Sends(s, r, c)'
           /\ \A t \in Sessions \ {s} : \A r, c : Sends(t, r, c)' <=> Sends(t, r, c)
           /\ OthersStay(s) /\ UNCHANGED <<desk, rows, torn>>
  BY AbortShape DEF OthersStay, Sends

\* Nor if nothing happens at all.
LEMMA StutterSends ==
    ASSUME UNCHANGED storeVars
    PROVE  /\ \A t \in Sessions : \A r, c : Sends(t, r, c)' <=> Sends(t, r, c)
           /\ UNCHANGED <<desk, rows, open, torn>>
  BY DEF storeVars, Sends

\* What a handler never takes away is never taken away.
LEMMA NeverRemovesStages ==
    ASSUME Shape, NeverRemoves, NEW s \in Sessions, NEW locked, NEW writes,
           DOMAIN writes \subseteq DOMAIN rows, StageLocked(s, locked, writes),
           \A r \in DOMAIN writes : "there" \in DOMAIN writes[r] => writes[r].there
    PROVE  NeverRemoves'
  BY StageSends DEF OthersStay, NeverRemoves, Sends

LEMMA NeverRemovesEnds ==
    ASSUME Shape, NeverRemoves, NEW s \in Sessions,
           (\E accepted : Commit(s, accepted)) \/ Abort(s)
    PROVE  NeverRemoves'
  BY CommitShape, AbortShape DEF OthersStay, Sends, NeverRemoves

\* A set with one element at most.
LEMMA OneAtMost ==
    ASSUME NEW S, \A a, b \in S : a = b
    PROVE  Cardinality(S) = (IF S = {} THEN 0 ELSE 1)
<1>1. CASE S = {}
  BY <1>1, FS_EmptySet
<1>2. CASE S # {}
  BY <1>2, FS_Singleton
<1> QED BY <1>1, <1>2

-----------------------------------------------------------------------------
(* Writes, table by table. *)

\* Some columns of a row may be written, and a row may be deleted.
LEMMA MaySet ==
    ASSUME NEW types, NEW cols, DOMAIN cols \subseteq DOMAIN types \ {"there"},
           \A c \in DOMAIN cols : cols[c] \in types[c]
    PROVE  MayWrite(cols, types)
  BY DEF MayWrite

LEMMA MayDelete == ASSUME NEW types PROVE MayWrite(Absent, types)
  BY DEF Absent, MayWrite

LEMMA ProperNothing ==
    ASSUME NEW types
    PROVE  Proper(<<>>, types) /\ DOMAIN <<>> = {}
  BY DEF Proper

\* A handler that sets some columns of a row of a table,
LEMMA SetWrites ==
    ASSUME NEW types, NEW s \in Sessions, NEW r \in DOMAIN rows, NEW ty, types[r] = ty, NEW cols,
           DOMAIN cols \subseteq DOMAIN ty \ {"there"}, \A c \in DOMAIN cols : cols[c] \in ty[c],
           NEW locked, locked \subseteq DOMAIN rows \cup Advisory,
           StageLocked(s, locked, Set(r, cols))
    PROVE  Writes(s, types)
  BY MaySet, WritesSet

\* and one that inserts a row and writes others with it.
LEMMA InsertWrites ==
    ASSUME NEW types, Typed(types), NEW s \in Sessions, NEW name, Spare(name) # {},
           \A r \in Table(name) : r[2] \in Nat, NEW ty, \A r \in Table(name) : types[r] = ty,
           NEW given, DOMAIN ty = {"there"} \cup DOMAIN given,
           \A c \in DOMAIN given \ {"there"} : given[c] \in ty[c],
           NEW others, Proper(others, types),
           NEW locked, locked \subseteq DOMAIN rows \cup Advisory,
           StageLocked(s, locked, Over(Insert(name, given), others))
    PROVE  Writes(s, types)
  BY ProperInsert, ProperOver DEF Writes

\* A handler that inserts a row under a lock.
LEMMA InsertHeld ==
    ASSUME NEW types, Typed(types), NEW s \in Sessions, NEW name, Spare(name) # {},
           \A r \in Table(name) : r[2] \in Nat, NEW ty, \A r \in Table(name) : types[r] = ty,
           NEW given, DOMAIN ty = {"there"} \cup DOMAIN given,
           \A c \in DOMAIN given \ {"there"} : given[c] \in ty[c],
           NEW locked, locked \subseteq DOMAIN rows \cup Advisory,
           StageLocked(s, locked, Insert(name, given))
    PROVE  Writes(s, types)
  BY ProperInsert DEF Writes


\* Columns laid over the rows of a table leave a table.
LEMMA WrittenTable ==
    ASSUME NEW types, \A r \in DOMAIN rows : "there" \in DOMAIN types[r] /\ types[r].there = {TRUE},
           NEW tab, IsTable(tab, types),
           NEW writes, \A r \in DOMAIN writes : MayWrite(writes[r], types[r]),
           NEW now, now = [r \in DOMAIN rows |->
                              IF r \in DOMAIN writes THEN Written(tab[r], writes[r]) ELSE tab[r]]
    PROVE  IsTable(now, types)
  BY LaidIsRow DEF IsTable

\* Two tables that differ in columns nothing is asked of.
SameRow(a, b, free) ==
    /\ a = Absent <=> b = Absent
    /\ \A c : c \notin free => /\ c \in DOMAIN a <=> c \in DOMAIN b
                               /\ c \in DOMAIN a => a[c] = b[c]

Same(a, b, free) == \A r \in DOMAIN rows : SameRow(a[r], b[r], free)

Insensitive(types, sound, free) ==
    /\ "there" \notin free
    /\ \A a, b : IsTable(a, types) /\ IsTable(b, types) /\ Same(a, b, free) /\ a \in sound
                     => b \in sound

\* A row with some of those columns written, and the same columns written to two.
LEMMA FreeRow ==
    ASSUME NEW free, "there" \notin free, NEW types, "there" \in DOMAIN types, types.there = {TRUE},
           NEW old, old = Absent \/ IsRow(old, types), NEW cols, DOMAIN cols \subseteq free,
           NEW new, new = Written(old, cols)
    PROVE  SameRow(old, new, free)
<1>1. PICK row : row = Over(cols, old)
  OBVIOUS
<1>2. /\ DOMAIN row = DOMAIN cols \cup DOMAIN old
      /\ \A c \in DOMAIN row : row[c] = IF c \in DOMAIN cols THEN cols[c] ELSE old[c]
  BY <1>1 DEF Over
<1>3. new = IF row.there THEN row ELSE Absent
  BY <1>1 DEF Written
<1>4. DOMAIN Absent = {"there"} /\ Absent.there = FALSE
  BY DEF Absent
<1>5. "there" \in DOMAIN old /\ (old.there = TRUE \/ old = Absent)
  BY <1>4 DEF IsRow
<1>6. row.there = old.there
  BY <1>2, <1>5
<1>7. CASE old = Absent
  BY <1>3, <1>4, <1>6, <1>7 DEF SameRow
<1>8. CASE old.there = TRUE
  BY <1>3, <1>4, <1>6, <1>8, <1>2 DEF SameRow
<1> QED BY <1>5, <1>7, <1>8

LEMMA SameWritten ==
    ASSUME NEW free, "there" \notin free, NEW types, "there" \in DOMAIN types, types.there = {TRUE},
           NEW a, a = Absent \/ IsRow(a, types), NEW b, b = Absent \/ IsRow(b, types),
           SameRow(a, b, free),
           NEW cols, NEW x, x = Written(a, cols), NEW y, y = Written(b, cols)
    PROVE  SameRow(x, y, free)
  BY DEF Over, Written, IsRow, Absent, SameRow

\* Requests that all hold the same rows, but for columns nothing is asked of, are made
\* one at a time: the rows stay sound, and so does what a request will make of them,
\* whatever it has read.
Only(s, free) == \A r \in DOMAIN open[s].writes : DOMAIN open[s].writes[r] \subseteq free

StayAlone(lock, free, sound) ==
    /\ \A s \in Sessions : lock \subseteq open[s].locks \/ Only(s, free)
    /\ rows \in sound
    /\ \A s \in Sessions : After(s) \in sound

AloneWrites(s, types, lock, free, sound) ==
    \E locked, writes :
        /\ locked \subseteq DOMAIN rows \cup Advisory
        /\ Proper(writes, types) /\ StageLocked(s, locked, writes)
        /\ \/ lock \subseteq locked /\ LaysSound(writes, types, sound)
           \/ \A r \in DOMAIN writes : DOMAIN writes[r] \subseteq free

AloneMove(types, lock, free, sound) ==
    \/ \E s \in Sessions : AloneWrites(s, types, lock, free, sound)
    \/ \E s \in Sessions : \E accepted : Commit(s, accepted)
    \/ \E s \in Sessions : Abort(s)
    \/ UNCHANGED storeVars

\* A request that writes only those columns leaves the tables as they are.
LEMMA FreeSame ==
    ASSUME NEW types, \A r \in DOMAIN rows : "there" \in DOMAIN types[r] /\ types[r].there = {TRUE},
           NEW free, "there" \notin free, NEW tab, IsTable(tab, types),
           NEW writes, \A r \in DOMAIN writes : DOMAIN writes[r] \subseteq free,
           NEW now, now = [r \in DOMAIN rows |->
                              IF r \in DOMAIN writes THEN Written(tab[r], writes[r]) ELSE tab[r]]
    PROVE  Same(tab, now, free)
<1>1. ASSUME NEW r \in DOMAIN rows
      PROVE  SameRow(tab[r], now[r], free)
  <2>1. CASE r \notin DOMAIN writes
    BY <2>1 DEF SameRow
  <2>2. CASE r \in DOMAIN writes
    BY <2>2, FreeRow DEF IsTable
  <2> QED BY <2>1, <2>2
<1> QED BY <1>1 DEF Same

LEMMA FreeTable ==
    ASSUME NEW types, Typed(types), NEW free, NEW sound, Insensitive(types, sound, free),
           NEW tab, IsTable(tab, types), tab \in sound,
           NEW writes, \A r \in DOMAIN writes : MayWrite(writes[r], types[r]),
           \A r \in DOMAIN writes : DOMAIN writes[r] \subseteq free,
           NEW now, now = [r \in DOMAIN rows |->
                              IF r \in DOMAIN writes THEN Written(tab[r], writes[r]) ELSE tab[r]]
    PROVE  now \in sound
  BY WrittenTable, FreeSame DEF Typed, Insensitive

\* Two tables that differ in those columns, once the same is written to both.
LEMMA SameTable ==
    ASSUME NEW types, Typed(types), NEW free, "there" \notin free,
           NEW a, IsTable(a, types), NEW b, IsTable(b, types), Same(a, b, free), NEW writes,
           NEW x, x = [r \in DOMAIN rows |->
                          IF r \in DOMAIN writes THEN Written(a[r], writes[r]) ELSE a[r]],
           NEW y, y = [r \in DOMAIN rows |->
                          IF r \in DOMAIN writes THEN Written(b[r], writes[r]) ELSE b[r]]
    PROVE  Same(x, y, free)
  BY SameWritten DEF Typed, IsTable, Same

LEMMA AloneStages ==
    ASSUME Shape, NEW types, Typed(types), NEW lock, NEW free, NEW sound,
           Insensitive(types, sound, free), StayAlone(lock, free, sound),
           NEW s \in Sessions, AloneWrites(s, types, lock, free, sound)
    PROVE  StayAlone(lock, free, sound)'
<1>1. PICK locked, writes :
          /\ Proper(writes, types) /\ StageLocked(s, locked, writes)
          /\ \/ lock \subseteq locked /\ LaysSound(writes, types, sound)
             \/ \A r \in DOMAIN writes : DOMAIN writes[r] \subseteq free
  BY DEF AloneWrites
<1>2. Told(rows) /\ DOMAIN writes \subseteq DOMAIN rows
  BY <1>1, TypedTold DEF Proper
<1>3. /\ Laid(rows, After(s)', writes)
      /\ UNCHANGED <<desk, rows, torn>> /\ open'[s].locks = locked
      /\ \A r \in DOMAIN open'[s].writes : r \in DOMAIN writes /\ open'[s].writes[r] = Dirty(r, writes[r])
  BY <1>1, <1>2, StagedLaid, StageShape
<1>4. \A t \in Sessions \ {s} : open'[t] = open[t] /\ After(t)' = After(t)
  BY <1>1, StageAfter
<1>5. PICK now, sent : now = After(s)' /\ sent = open'[s].writes
  OBVIOUS
<1>6. now = [r \in DOMAIN rows |->
                IF r \in DOMAIN sent THEN Written(rows[r], sent[r]) ELSE rows[r]]
  BY <1>3, <1>5 DEF After
<1>7. IsTable(rows, types) /\ rows \in sound
  BY TypedTables DEF StayAlone
<1>8. ASSUME NEW r \in DOMAIN sent PROVE MayWrite(sent[r], types[r])
  <2>1. PICK ty, old, cols : ty = types[r] /\ old = rows[r] /\ cols = writes[r]
    OBVIOUS
  <2>2. /\ "there" \in DOMAIN ty /\ ty.there = {TRUE}
        /\ old = Absent \/ IsRow(old, ty)
        /\ MayWrite(cols, ty) /\ sent[r] = Dirty(r, cols)
    BY <1>1, <1>2, <1>3, <1>5, <1>8, <2>1 DEF Typed, Proper
  <2>3. MayWrite(Dirty(r, cols), ty)
    BY <2>1, <2>2, DirtyMayWrite
  <2> QED BY <2>1, <2>2, <2>3
<1>9. /\ now \in sound
      /\ (lock \subseteq open'[s].locks) \/ Only(s, free)'
  <2>1. CASE lock \subseteq locked /\ LaysSound(writes, types, sound)
    <3>1. \A r \in DOMAIN rows : "there" \in DOMAIN types[r] /\ types[r].there = {TRUE}
      BY DEF Typed
    <3>2. IsTable(now, types)
      BY <1>6, <1>7, <1>8, <3>1, WrittenTable
    <3>3. now \in sound
      BY <1>3, <1>5, <1>7, <2>1, <3>2 DEF LaysSound
    <3> QED BY <1>3, <2>1, <3>3
  <2>2. CASE \A r \in DOMAIN writes : DOMAIN writes[r] \subseteq free
    <3>1. \A r \in DOMAIN sent : DOMAIN sent[r] \subseteq free
      BY <1>3, <1>5, <2>2 DEF Dirty
    <3>2. now \in sound
      BY <1>6, <1>7, <1>8, <3>1, FreeTable
    <3> QED BY <1>5, <3>1, <3>2 DEF Only
  <2> QED BY <1>1, <2>1, <2>2
<1>10. ASSUME NEW t \in Sessions
       PROVE  (lock \subseteq open'[t].locks \/ Only(t, free)') /\ After(t)' \in sound
  BY <1>5, <1>9, <1>4 DEF StayAlone, Only
<1> QED BY <1>3, <1>7, <1>10 DEF StayAlone

LEMMA AloneCommits ==
    ASSUME Shape, NEW types, Typed(types), NEW lock, lock # {}, NEW free, NEW sound,
           Insensitive(types, sound, free), StayAlone(lock, free, sound),
           NEW s \in Sessions, NEW accepted, Commit(s, accepted)
    PROVE  StayAlone(lock, free, sound)'
<1>1. /\ OthersStay(s) /\ DOMAIN rows' = DOMAIN rows
      /\ DOMAIN open'[s].writes = {}
      /\ rows' = After(s)
  BY CommitShape, CommitAfter
<1>2. PICK old, new : old = rows /\ new = rows'
  OBVIOUS
<1>3. /\ IsTable(old, types) /\ IsTable(new, types)
      /\ old \in sound /\ new \in sound
  BY <1>1, <1>2, TypedTables DEF StayAlone
<1>4. \A r \in DOMAIN rows : "there" \in DOMAIN types[r] /\ types[r].there = {TRUE}
  BY DEF Typed
<1>5. After(s)' \in sound
  BY <1>1, <1>2, <1>3 DEF After
<1>6. ASSUME NEW t \in Sessions \ {s} PROVE After(t)' \in sound
  <2>1. PICK w, will, now : w = open[t].writes /\ will = After(t) /\ now = After(t)'
    OBVIOUS
  <2>2. /\ will = [r \in DOMAIN rows |-> IF r \in DOMAIN w THEN Written(old[r], w[r]) ELSE old[r]]
        /\ now = [r \in DOMAIN rows |-> IF r \in DOMAIN w THEN Written(new[r], w[r]) ELSE new[r]]
    BY <1>1, <1>2, <2>1 DEF After, OthersStay
  <2>3. \A r \in DOMAIN w : MayWrite(w[r], types[r])
    BY <2>1 DEF Typed
  <2>4. IsTable(will, types) /\ IsTable(now, types)
    BY <1>3, <1>4, <2>2, <2>3, WrittenTable
  <2>5. will \in sound
    BY <2>1 DEF StayAlone
  <2>6. CASE Only(t, free)
    BY <2>1, <2>6, <1>3, <2>2, <2>3, FreeTable DEF Only
  <2>7. CASE lock \subseteq open[t].locks
    <3>1. open[s].locks \cap open[t].locks = {}
      BY DEF Shape
    <3>2. Only(s, free)
      BY <2>7, <3>1 DEF StayAlone
    <3>3. new = [r \in DOMAIN rows |-> IF r \in DOMAIN open[s].writes
                                       THEN Written(old[r], open[s].writes[r]) ELSE old[r]]
      BY <1>1, <1>2 DEF After
    <3>4. /\ \A r \in DOMAIN open[s].writes : DOMAIN open[s].writes[r] \subseteq free
          /\ "there" \notin free
      BY <3>2 DEF Only, Insensitive
    <3>5. Same(old, new, free)
      BY <1>3, <1>4, <3>3, <3>4, FreeSame
    <3>6. Same(will, now, free)
      BY <1>3, <2>2, <3>4, <3>5, SameTable
    <3> QED BY <2>1, <2>4, <2>5, <3>6 DEF Insensitive
  <2> QED BY <2>6, <2>7 DEF StayAlone
<1>7. ASSUME NEW t \in Sessions
      PROVE  (lock \subseteq open'[t].locks \/ Only(t, free)') /\ After(t)' \in sound
  BY <1>1, <1>5, <1>6 DEF Only, StayAlone, OthersStay
<1> QED BY <1>2, <1>3, <1>7 DEF StayAlone

LEMMA AloneAborts ==
    ASSUME Shape, NEW lock, NEW free, NEW sound, StayAlone(lock, free, sound),
           NEW s \in Sessions, Abort(s)
    PROVE  StayAlone(lock, free, sound)'
  BY AbortAfter, AbortShape DEF StayAlone, Only

\* Whoever moves, the rows stay sound.
LEMMA AloneMoves ==
    ASSUME Shape, NEW types, Typed(types), NEW lock, lock # {}, NEW free, NEW sound,
           Insensitive(types, sound, free), StayAlone(lock, free, sound),
           AloneMove(types, lock, free, sound)
    PROVE  Shape' /\ Typed(types)' /\ StayAlone(lock, free, sound)' /\ Alike
<1>1. Moves(types)
  BY DEF Moves, AloneMove, Writes, AloneWrites
<1>2. Shape' /\ Typed(types)' /\ Alike
  BY <1>1, TypedMoves
<1>3. CASE UNCHANGED storeVars
  BY <1>3, <1>2 DEF storeVars, StayAlone, Only, After
<1> QED BY <1>2, <1>3, AloneStages, AloneCommits, AloneAborts DEF AloneMove

LEMMA AloneStarts ==
    ASSUME Shape, StoreInit, NEW lock, NEW free, NEW sound, rows \in sound
    PROVE  StayAlone(lock, free, sound)
  BY DEF StoreInit, Idle, After, Shape, StayAlone, Only

\* What columns laid over the tables make of a row that is there, of one that is not, and
\* of a new one.
LEMMA LaidLive ==
    ASSUME NEW now, NEW writes, Laid(rows, now, writes), NEW r \in DOMAIN rows, rows[r].there,
           r \in DOMAIN writes => "there" \notin DOMAIN writes[r]
    PROVE  /\ now[r].there
           /\ r \in DOMAIN writes => \A c \in DOMAIN writes[r] : now[r][c] = writes[r][c]
           /\ \A c \in DOMAIN rows[r] :
                 r \notin DOMAIN writes \/ c \notin DOMAIN writes[r] => now[r][c] = rows[r][c]
  BY DEF Laid, LaidRow

LEMMA LaidAbsent ==
    ASSUME NEW now, NEW writes, Laid(rows, now, writes), NEW r \in DOMAIN rows, rows[r] = Absent,
           r \in DOMAIN writes => "there" \notin DOMAIN writes[r]
    PROVE  now[r] = Absent /\ ~now[r].there
  BY DEF Absent, Laid, LaidRow

LEMMA LaidNew ==
    ASSUME NEW now, NEW writes, Laid(rows, now, writes), NEW r \in DOMAIN rows, r \in DOMAIN writes,
           NEW given, writes[r] = Over([there |-> TRUE], given)
    PROVE  now[r].there /\ \A c \in DOMAIN given \ {"there"} : now[r][c] = given[c]
  BY DEF Over, Laid, LaidRow

\* What an insert writes.
LEMMA InsertIs ==
    ASSUME NEW name, NEW given
    PROVE  /\ DOMAIN Insert(name, given) = {NewRow(name)}
           /\ Insert(name, given)[NewRow(name)] = Over([there |-> TRUE], given)
  BY DEF Insert, Set

\* Only the row written changes.
LEMMA SetLaid ==
    ASSUME NEW r, NEW cols, NEW writes, writes = Set(r, cols), NEW now, Laid(rows, now, writes)
    PROVE  /\ r \in DOMAIN writes /\ writes[r] = cols /\ DOMAIN writes = {r}
           /\ \A x \in DOMAIN rows : x # r => now[x] = rows[x]
  BY DEF Set, Laid

LEMMA InsertLaid ==
    ASSUME Shape, NEW name, Spare(name) # {}, \A r \in Table(name) : r[2] \in Nat, NEW given,
           NEW writes, writes = Insert(name, given), NEW now, Laid(rows, now, writes)
    PROVE  \E r \in Table(name) :
              /\ r \in DOMAIN rows /\ rows[r] = Absent /\ ~rows[r].there
              /\ now[r].there /\ \A c \in DOMAIN given \ {"there"} : now[r][c] = given[c]
              /\ \A x \in DOMAIN rows : x # r => now[x] = rows[x]
<1>1. PICK r : r = NewRow(name)
  OBVIOUS
<1>2. r \in Table(name) /\ ~There(r)
  BY <1>1, NewRowIsSpare
<1>3. r \in DOMAIN rows /\ rows[r] = Absent /\ ~rows[r].there
  BY <1>2 DEF Table, Shape, There
<1>4. DOMAIN writes = {r} /\ writes[r] = Over([there |-> TRUE], given)
  BY <1>1, InsertIs
<1>5. now[r].there /\ \A c \in DOMAIN given \ {"there"} : now[r][c] = given[c]
  BY <1>3, <1>4, LaidNew
<1>6. \A x \in DOMAIN rows : x # r => now[x] = rows[x]
  BY <1>4 DEF Laid
<1> QED BY <1>2, <1>3, <1>5, <1>6

-----------------------------------------------------------------------------
(* Rows that are marked when they are done. *)

\* What a handler writes takes no row away, makes none that is done, and marks those it is
\* done with, if they are not marked.
Marking(writes, name, done, mark, unset) ==
    \A r \in DOMAIN writes :
        /\ "there" \in DOMAIN writes[r] =>
              /\ writes[r].there
              /\ r \in Table(name) => /\ ~There(r) /\ \A t \in Sessions : r \notin DOMAIN open[t].writes
                                      /\ "status" \in DOMAIN writes[r] /\ writes[r].status # done
        /\ "there" \notin DOMAIN writes[r] /\ r \in Table(name) =>
              /\ There(r)
              /\ mark \in DOMAIN writes[r] => writes[r][mark] # unset
              /\ "status" \in DOMAIN writes[r] /\ writes[r].status = done =>
                    mark \in DOMAIN writes[r] \/ rows[r][mark] # unset

\* Of a row, of what a session sends of it,
MarkedRow(r, done, mark, unset) ==
    There(r) /\ rows[r].status = done => rows[r][mark] # unset

MarkedSent(s, r, done, mark, unset) ==
    /\ Sends(s, r, "there") =>
          /\ ~There(r) /\ \A t \in Sessions \ {s} : \A c : ~Sends(t, r, c)
          /\ Sends(s, r, "status") /\ open[s].writes[r].status # done
    /\ ~Sends(s, r, "there") =>
          /\ \A c : Sends(s, r, c) => There(r)
          /\ Sends(s, r, mark) => open[s].writes[r][mark] # unset
          /\ Sends(s, r, "status") /\ open[s].writes[r].status = done =>
                Sends(s, r, mark) \/ rows[r][mark] # unset

\* and of all.
Marked(name, done, mark, unset) ==
    /\ NeverRemoves
    /\ \A r \in Table(name) : /\ MarkedRow(r, done, mark, unset)
                              /\ \A s \in Sessions : MarkedSent(s, r, done, mark, unset)

LEMMA MarkedStages ==
    ASSUME Shape, NEW types, Typed(types), NEW name, NEW done, NEW mark, mark # "there", NEW unset,
           Marked(name, done, mark, unset), \A r \in Table(name) : {"status", mark} \subseteq DOMAIN types[r],
           NEW s \in Sessions, NEW locked, NEW writes, DOMAIN writes \subseteq DOMAIN rows,
           StageLocked(s, locked, writes), Marking(writes, name, done, mark, unset)
    PROVE  Marked(name, done, mark, unset)'
<1>1. /\ \A r, c : /\ Sends(s, r, c)' <=> /\ r \in DOMAIN writes /\ c \in DOMAIN writes[r]
                                          /\ c \in DOMAIN rows[r] => rows[r][c] # writes[r][c]
                   /\ Sends(s, r, c)' => open'[s].writes[r][c] = writes[r][c]
      /\ \A t \in Sessions \ {s} : \A r, c : Sends(t, r, c)' <=> Sends(t, r, c)
      /\ OthersStay(s) /\ UNCHANGED <<desk, rows, torn>>
  BY StageSends
<1>2. \A r : There(r)' = There(r)
  BY <1>1 DEF There
<1>3. NeverRemoves'
  BY NeverRemovesStages DEF Marked, Marking
<1>4. ASSUME NEW r \in Table(name)
      PROVE  /\ r \in DOMAIN rows /\ "there" \in DOMAIN rows[r]
             /\ There(r) => {"status", mark} \subseteq DOMAIN rows[r]
             /\ ~There(r) => DOMAIN rows[r] = {"there"} /\ rows[r].there = FALSE
  <2>1. r \in DOMAIN rows /\ "there" \in DOMAIN types[r] /\ types[r].there = {TRUE}
    BY DEF Table, Typed
  <2>2. CASE rows[r] = Absent
    BY <2>1, <2>2 DEF Absent, There
  <2>3. CASE IsRow(rows[r], types[r])
    BY <2>1, <2>3 DEF IsRow, There
  <2> QED BY <2>1, <2>2, <2>3 DEF Typed
<1>5. ASSUME NEW r \in Table(name), r \in DOMAIN writes
      PROVE  MarkedSent(s, r, done, mark, unset)' /\ \A t \in Sessions \ {s} : ~Sends(t, r, "there")
  <2>1. CASE "there" \in DOMAIN writes[r]
    <3>1. /\ writes[r].there /\ ~There(r) /\ \A t \in Sessions : r \notin DOMAIN open[t].writes
          /\ "status" \in DOMAIN writes[r] /\ writes[r].status # done
      BY <1>5, <2>1 DEF Marking
    <3>2. DOMAIN rows[r] = {"there"} /\ rows[r].there = FALSE
      BY <1>4, <3>1
    <3>3. Sends(s, r, "there")' /\ Sends(s, r, "status")'
      BY <1>1, <1>5, <2>1, <3>1, <3>2
    <3>4. \A t \in Sessions : \A c : ~Sends(t, r, c)
      BY <3>1 DEF Sends
    <3>5. open'[s].writes[r].status # done
      BY <1>1, <3>1, <3>3
    <3>6. /\ ~There(r)' /\ \A t \in Sessions \ {s} : \A c : ~Sends(t, r, c)'
      BY <1>1, <1>2, <3>1, <3>4
    <3> QED BY <3>3, <3>4, <3>5, <3>6 DEF MarkedSent
  <2>2. CASE "there" \notin DOMAIN writes[r]
    BY <1>5, <2>2, <1>4, <1>1, <1>2 DEF Marking, MarkedSent, Marked
  <2> QED BY <2>1, <2>2
<1>6. ASSUME NEW r \in Table(name), NEW t \in Sessions
      PROVE  MarkedSent(t, r, done, mark, unset)'
  BY <1>5, <1>1, <1>2 DEF MarkedSent, OthersStay, Marked
<1>7. Table(name)' = Table(name) /\ \A r \in Table(name) : MarkedRow(r, done, mark, unset)'
  BY <1>1, <1>2 DEF Table, Marked, MarkedRow
<1> QED BY <1>3, <1>6, <1>7 DEF Marked

LEMMA MarkedCommits ==
    ASSUME Shape, NEW types, Typed(types), NEW name, NEW done, NEW mark, mark # "there", NEW unset,
           Marked(name, done, mark, unset), \A r \in Table(name) : {"status", mark} \subseteq DOMAIN types[r],
           NEW s \in Sessions, NEW accepted, Commit(s, accepted)
    PROVE  Marked(name, done, mark, unset)'
<1>1. /\ \A r \in DOMAIN rows : There(r)' <=> There(r) \/ Sends(s, r, "there")
      /\ \A r \in DOMAIN rows : \A c : There(r)' =>
            /\ Sends(s, r, c) => rows'[r][c] = open[s].writes[r][c]
            /\ c \in DOMAIN rows[r] /\ ~Sends(s, r, c) => rows'[r][c] = rows[r][c]
      /\ \A r, c : ~Sends(s, r, c)'
      /\ \A t \in Sessions \ {s} : \A r, c : Sends(t, r, c)' <=> Sends(t, r, c)
      /\ OthersStay(s) /\ Alike
  BY CommitSends DEF Marked
<1>2. NeverRemoves'
  BY NeverRemovesEnds DEF Marked
<1>3. ASSUME NEW r \in Table(name)
      PROVE  /\ r \in DOMAIN rows /\ There(r) => {"status", mark} \subseteq DOMAIN rows[r]
             /\ MarkedSent(s, r, done, mark, unset) /\ MarkedRow(r, done, mark, unset)
  <2>1. r \in DOMAIN rows /\ (rows[r] = Absent \/ IsRow(rows[r], types[r]))
    BY DEF Table, Typed
  <2>2. ~Absent.there
    BY DEF Absent
  <2>3. There(r) => IsRow(rows[r], types[r])
    BY <2>1, <2>2 DEF There
  <2> QED BY <2>1, <2>3 DEF Marked, IsRow
<1>4. ASSUME NEW r \in Table(name) PROVE MarkedRow(r, done, mark, unset)'
  BY <1>3, <1>1 DEF MarkedRow, Table, MarkedSent
<1>5. ASSUME NEW r \in Table(name), NEW t \in Sessions
      PROVE  MarkedSent(t, r, done, mark, unset)'
  BY <1>1, <1>3 DEF MarkedSent, OthersStay, Marked, Table
<1>6. Table(name)' = Table(name)
  BY <1>1 DEF Table, Alike
<1> QED BY <1>2, <1>4, <1>5, <1>6 DEF Marked

LEMMA MarkedAborts ==
    ASSUME Shape, NEW name, NEW done, NEW mark, NEW unset, Marked(name, done, mark, unset),
           NEW s \in Sessions, Abort(s)
    PROVE  Marked(name, done, mark, unset)'
  BY AbortSends, NeverRemovesEnds DEF Marked, Table, There, MarkedRow, MarkedSent,
     OthersStay

LEMMA MarkedStutters ==
    ASSUME NEW name, NEW done, NEW mark, NEW unset, Marked(name, done, mark, unset),
           UNCHANGED storeVars
    PROVE  Marked(name, done, mark, unset)'
  BY DEF storeVars, Marked, MarkedRow, MarkedSent, NeverRemoves, Sends, There, Table

LEMMA MarkedStarts ==
    ASSUME StoreInit, NEW name, NEW done, NEW mark, NEW unset, Live(name) = {}
    PROVE  Marked(name, done, mark, unset)
  BY DEF StoreInit, Idle, Live, Marked, MarkedRow, MarkedSent, NeverRemoves, Sends
=============================================================================
