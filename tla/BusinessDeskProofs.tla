------------------------- MODULE BusinessDeskProofs -------------------------
(***************************************************************************)
(* The rows of every desk of the business have the columns of their tables *)
(* and fit together: the register, drilling, the sites and the workshop,   *)
(* purchases and the serials of the stock, however many sessions, rows,    *)
(* names and days there are.                                               *)
(***************************************************************************)
EXTENDS BusinessProofs

-----------------------------------------------------------------------------
(* The register of machines. *)

MachineTypes == [there |-> {TRUE}]
PhotoTypes ==
    [there |-> {TRUE}, active |-> BOOLEAN, primary |-> BOOLEAN, kind |-> {"PHOTO", "VIDEO"}]
OwnerTypes == [there |-> {TRUE}, from |-> Days, until |-> Dates]
CategoryTypes == [there |-> {TRUE}, active |-> BOOLEAN, parent |-> Parents("categories")]
ComponentTypes ==
    [there |-> {TRUE}, active |-> BOOLEAN, status |-> ComponentStatuses,
     parent |-> Parents("components")]
DefectTypes == [there |-> {TRUE}, status |-> DefectStatuses, severity |-> 1..2]
PaperTypes ==
    [there |-> {TRUE}, active |-> BOOLEAN, from |-> Dates, until |-> Dates,
     status |-> {"PENDING", "VERIFIED"}]

RegisterTypes ==
    [r \in DOMAIN rows |->
        IF r[1] = "machines" THEN MachineTypes
        ELSE IF r[1] = "photos" THEN PhotoTypes
        ELSE IF r[1] = "owners" THEN OwnerTypes
        ELSE IF r[1] = "categories" THEN CategoryTypes
        ELSE IF r[1] = "components" THEN ComponentTypes
        ELSE IF r[1] = "defects" THEN DefectTypes
        ELSE PaperTypes]

\* Their columns.
LEMMA MachineColumns ==
    /\ DOMAIN MachineTypes = {"there"}
    /\ MachineTypes.there = {TRUE}
  BY DEF MachineTypes

LEMMA PhotoColumns ==
    /\ DOMAIN PhotoTypes = {"there", "active", "primary", "kind"}
    /\ PhotoTypes.there = {TRUE} /\ PhotoTypes.active = BOOLEAN
    /\ PhotoTypes.primary = BOOLEAN /\ PhotoTypes.kind = {"PHOTO", "VIDEO"}
  BY DEF PhotoTypes

LEMMA OwnerColumns ==
    /\ DOMAIN OwnerTypes = {"there", "from", "until"}
    /\ OwnerTypes.there = {TRUE} /\ OwnerTypes.from = Days /\ OwnerTypes.until = Dates
  BY DEF OwnerTypes

LEMMA CategoryColumns ==
    /\ DOMAIN CategoryTypes = {"there", "active", "parent"}
    /\ CategoryTypes.there = {TRUE} /\ CategoryTypes.active = BOOLEAN
    /\ CategoryTypes.parent = Parents("categories")
  BY DEF CategoryTypes

LEMMA ComponentColumns ==
    /\ DOMAIN ComponentTypes = {"there", "active", "status", "parent"}
    /\ ComponentTypes.there = {TRUE} /\ ComponentTypes.active = BOOLEAN
    /\ ComponentTypes.status = ComponentStatuses
    /\ ComponentTypes.parent = Parents("components")
  BY DEF ComponentTypes

LEMMA DefectColumns ==
    /\ DOMAIN DefectTypes = {"there", "status", "severity"}
    /\ DefectTypes.there = {TRUE} /\ DefectTypes.status = DefectStatuses
    /\ DefectTypes.severity = 1..2
  BY DEF DefectTypes

LEMMA PaperColumns ==
    /\ DOMAIN PaperTypes = {"there", "active", "from", "until", "status"}
    /\ PaperTypes.there = {TRUE} /\ PaperTypes.active = BOOLEAN /\ PaperTypes.from = Dates
    /\ PaperTypes.until = Dates /\ PaperTypes.status = {"PENDING", "VERIFIED"}
  BY DEF PaperTypes

\* Every table says that its rows are there,
LEMMA RegisterThere ==
    ASSUME NEW r \in DOMAIN rows
    PROVE  "there" \in DOMAIN RegisterTypes[r] /\ RegisterTypes[r].there = {TRUE}
  BY MachineColumns, PhotoColumns, OwnerColumns, CategoryColumns, ComponentColumns,
     DefectColumns, PaperColumns DEF RegisterTypes

\* and has its types.
LEMMA RegisterTyping ==
    ASSUME NEW types, types = RegisterTypes
    PROVE  /\ \A r \in Table("machines") : types[r] = MachineTypes
           /\ \A r \in Table("photos") : types[r] = PhotoTypes
           /\ \A r \in Table("owners") : types[r] = OwnerTypes
           /\ \A r \in Table("categories") : types[r] = CategoryTypes
           /\ \A r \in Table("components") : types[r] = ComponentTypes
           /\ \A r \in Table("defects") : types[r] = DefectTypes
           /\ \A r \in Table("policies") : types[r] = PaperTypes
           /\ \A r \in Table("documents") : types[r] = PaperTypes
  BY DEF Table, RegisterTypes

\* Where the rows of a desk are.
LEMMA RegisterNames ==
    ASSUME desk \in DOMAIN RegisterTables, DOMAIN rows = RegisterIds
    PROVE  /\ \A name : \A r \in Table(name) : r \in DOMAIN rows /\ r[2] \in Nat /\ r[1] = name
           /\ \A r \in DOMAIN rows : r[1] \in RegisterTables[desk]
           /\ desk \notin {"categories", "papers"} => Machine \in DOMAIN rows
<1>1. \A r \in DOMAIN rows : r[1] \in RegisterTables[desk] /\ r[2] \in Numbers
  BY DEF RegisterIds
<1>2. \A r \in DOMAIN rows : r[2] \in Nat
  BY RowStoreAssumption, <1>1 DEF RowStoreAssumption
<1>3. ASSUME desk \notin {"categories", "papers"} PROVE Machine \in DOMAIN rows
  BY <1>3, MachineAssumption DEF RegisterTables, RegisterIds, Machine
<1> QED BY <1>1, <1>2, <1>3 DEF Table

\* No category is above itself: one that has a parent is outside some set that has its
\* parent and, with a category, the one above it.
LiveOf(tab, name) == {r \in Table(name) : tab[r].there}

Upward(tab, S) == \A r \in S : tab[r].parent \in S \cup {NoRef}

Trees(tab) ==
    \A c \in LiveOf(tab, "categories") :
        \/ tab[c].parent = NoRef
        \/ \E S \in SUBSET LiveOf(tab, "categories") :
              tab[c].parent \in S /\ c \notin S /\ Upward(tab, S)

RegisterSound == {tab \in Tables(RegisterTypes) : desk = "categories" => Trees(tab)}

\* At a desk of the register, rows and writes are typed and sound.
RegisterFits(types, sound) ==
    /\ Shape /\ desk \in DOMAIN RegisterTables /\ DOMAIN rows = RegisterIds
    /\ types = RegisterTypes /\ sound = RegisterSound
    /\ Typed(types) /\ StaySound(sound)

LEMMA RegisterHas ==
    ASSUME NEW types, NEW sound, RegisterFits(types, sound)
    PROVE  /\ Shape /\ Typed(types) /\ types = RegisterTypes /\ desk \in DOMAIN RegisterTables
           /\ \A name : \A r \in Table(name) : r \in DOMAIN rows /\ r[2] \in Nat /\ r[1] = name
           /\ \A name : Live(name) \subseteq Table(name) /\ Table(name) \subseteq DOMAIN rows
           /\ desk \notin {"categories", "papers"} => {Machine} \subseteq DOMAIN rows \cup Advisory
  BY RegisterNames DEF RegisterFits, Live, Table

\* A row that is there has the columns of its table.
LEMMA RegisterRow ==
    ASSUME NEW types, NEW sound, RegisterFits(types, sound), NEW name, NEW r \in Live(name)
    PROVE  r \in Table(name) /\ r \in DOMAIN rows /\ There(r) /\ IsRow(rows[r], types[r])
<1>1. r \in Table(name) /\ r \in DOMAIN rows /\ There(r)
  BY DEF Live, Table
<1>2. rows[r] # Absent
  BY <1>1 DEF There, Absent
<1> QED BY <1>1, <1>2 DEF RegisterFits, Typed

\* What is asked of the tables of a desk.
LEMMA RegisterAsks ==
    ASSUME NEW types, NEW sound, RegisterFits(types, sound), NEW tab, IsTable(tab, types)
    PROVE  /\ desk = "categories" => (tab \in sound <=> Trees(tab))
           /\ desk # "categories" => tab \in sound
  BY TablesAre DEF RegisterFits, RegisterSound

\* A row is added to a machine.
LEMMA RecordWrites ==
    ASSUME NEW types, NEW sound, RegisterFits(types, sound), NEW s \in Sessions,
           desk \notin {"categories", "papers"}, NEW name, NEW ty,
           \A r \in Table(name) : types[r] = ty, NEW given, DOMAIN ty = {"there"} \cup DOMAIN given,
           \A c \in DOMAIN given \ {"there"} : given[c] \in ty[c],
           NEW others, Proper(others, types), AddRecord(s, name, given, others)
    PROVE  Writes(s, types)
  BY RegisterHas, InsertWrites DEF AddRecord

\* Photos.
LEMMA PrimaryCleared ==
    ASSUME NEW types, NEW sound, RegisterFits(types, sound)
    PROVE  Proper(ClearPrimary, types)
<1>1. /\ types = RegisterTypes
      /\ \A name : Live(name) \subseteq Table(name) /\ Table(name) \subseteq DOMAIN rows
  BY RegisterHas
<1>2. \A r \in Table("photos") : types[r] = PhotoTypes
  BY <1>1, RegisterTyping
<1>3. PICK cols : cols = [primary |-> FALSE]
  OBVIOUS
<1>4. DOMAIN cols = {"primary"} /\ cols.primary \in BOOLEAN
  BY <1>3
<1>5. MayWrite(cols, PhotoTypes)
  BY <1>4, PhotoColumns, MaySet
<1>6. Live("photos") \in SUBSET DOMAIN rows
  BY <1>1
<1>7. \A r \in Live("photos") : MayWrite(cols, types[r])
  BY <1>1, <1>2, <1>5
<1>8. Proper(SetAll(Live("photos"), cols), types)
  BY <1>6, <1>7, ProperSetAll
<1> QED BY <1>3, <1>8 DEF ClearPrimary

\* What is laid over categories: the parents of those that are there.
LEMMA TreesKept ==
    ASSUME NEW tab, NEW now, Trees(tab), LiveOf(now, "categories") = LiveOf(tab, "categories"),
           \A c \in LiveOf(tab, "categories") : now[c].parent = tab[c].parent
    PROVE  Trees(now)
  BY DEF Trees, Upward

\* A category is put in a tree with nothing under it.
LEMMA TreesGrow ==
    ASSUME NEW tab, NEW now, Trees(tab), NEW r, r \notin LiveOf(tab, "categories"),
           LiveOf(now, "categories") = {r} \cup LiveOf(tab, "categories"),
           \A c \in LiveOf(tab, "categories") : now[c] = tab[c],
           now[r].parent \in {NoRef} \cup LiveOf(tab, "categories")
    PROVE  Trees(now)
  BY DEF Upward, Trees

\* A category is moved under one that is not below it.
LEMMA TreesMove ==
    ASSUME NEW tab, NEW now, Trees(tab), NEW c \in LiveOf(tab, "categories"),
           LiveOf(now, "categories") = LiveOf(tab, "categories"),
           \A d \in LiveOf(tab, "categories") \ {c} : now[d].parent = tab[d].parent,
           now[c].parent = NoRef
              \/ \E S \in SUBSET LiveOf(tab, "categories") :
                    now[c].parent \in S /\ c \notin S /\ Upward(tab, S)
    PROVE  Trees(now)
<1>1. CASE now[c].parent = NoRef
  BY <1>1 DEF Trees, Upward
<1>2. CASE \E S \in SUBSET LiveOf(tab, "categories") :
               now[c].parent \in S /\ c \notin S /\ Upward(tab, S)
  <2>1. PICK S \in SUBSET LiveOf(tab, "categories") :
            now[c].parent \in S /\ c \notin S /\ Upward(tab, S)
    BY <1>2
  <2>2. Upward(now, S)
    BY <2>1 DEF Upward
  <2>3. ASSUME NEW d \in LiveOf(now, "categories"), now[d].parent # NoRef
        PROVE  \E T \in SUBSET LiveOf(now, "categories") :
                   now[d].parent \in T /\ d \notin T /\ Upward(now, T)
    <3>1. CASE d = c
      BY <2>1, <2>2, <3>1
    <3>2. CASE d # c
      <4>1. now[d].parent = tab[d].parent
        BY <2>3, <3>2
      <4>2. PICK D \in SUBSET LiveOf(tab, "categories") :
                tab[d].parent \in D /\ d \notin D /\ Upward(tab, D)
        BY <2>3, <4>1 DEF Trees
      <4>3. CASE d \in S
        <5>1. PICK T : T = D \cap S
          OBVIOUS
        <5>2. now[d].parent \in T
          BY <2>3, <4>1, <4>2, <4>3, <2>2, <5>1 DEF Upward
        <5>3. Upward(now, T)
          BY <2>1, <2>2, <4>2, <5>1 DEF Upward
        <5> QED BY <4>2, <5>1, <5>2, <5>3
      <4>4. CASE d \notin S
        <5>1. PICK T : T = D \cup S
          OBVIOUS
        <5>2. now[d].parent \in T /\ d \notin T
          BY <4>1, <4>2, <4>4, <5>1
        <5>3. Upward(now, T)
          BY <2>1, <2>2, <4>2, <5>1 DEF Upward
        <5> QED BY <2>1, <4>2, <5>1, <5>2, <5>3
      <4> QED BY <4>3, <4>4
    <3> QED BY <3>1, <3>2
  <2> QED BY <2>3 DEF Trees
<1> QED BY <1>1, <1>2

\* Categories.
LEMMA CategoryCreates ==
    ASSUME NEW types, NEW sound, RegisterFits(types, sound), NEW s \in Sessions,
           desk = "categories", CategoryCreate(s)
    PROVE  WritesSound(s, types, sound)
<1>1. /\ Shape /\ Typed(types) /\ types = RegisterTypes
      /\ \A name : \A r \in Table(name) : r \in DOMAIN rows /\ r[2] \in Nat
      /\ \A name : Live(name) \subseteq Table(name) /\ Table(name) \subseteq DOMAIN rows
  BY RegisterHas
<1>2. \A r \in Table("categories") : types[r] = CategoryTypes
  BY <1>1, RegisterTyping
<1>3. PICK p \in Parents("categories") :
          /\ Spare("categories") # {} /\ Known(p)
          /\ StageLocked(s, {}, Insert("categories", [active |-> TRUE, parent |-> p]))
  BY DEF CategoryCreate, Stage
<1>4. PICK given : given = [active |-> TRUE, parent |-> p]
  OBVIOUS
<1>5. DOMAIN given = {"active", "parent"} /\ given.active \in BOOLEAN /\ given.parent = p
  BY <1>4
<1>6. /\ DOMAIN CategoryTypes = {"there"} \cup DOMAIN given
      /\ \A c \in DOMAIN given \ {"there"} : given[c] \in CategoryTypes[c]
  BY <1>3, <1>5, CategoryColumns
<1>7. PICK writes : writes = Insert("categories", given)
  OBVIOUS
<1>8. Proper(writes, types)
  BY <1>1, <1>2, <1>3, <1>6, <1>7, ProperInsert
<1>9. ASSUME rows \in sound, NEW now, IsTable(now, types), Laid(rows, now, writes)
      PROVE  now \in sound
  <2>1. PICK r : r = NewRow("categories")
    OBVIOUS
  <2>2. r \in Table("categories") /\ ~There(r)
    BY <1>1, <1>3, <2>1, NewRowIsSpare
  <2>3. PICK row : row = Over([there |-> TRUE], given)
    OBVIOUS
  <2>4. DOMAIN writes = {r} /\ writes[r] = row
    BY <1>4, <1>7, <2>1, <2>3 DEF Insert, Set
  <2>5. /\ "there" \in DOMAIN row /\ row.there /\ "parent" \in DOMAIN row /\ row.parent = p
    BY <1>5, <2>3 DEF Over
  <2>6. LaidRow(now[r], row, rows[r])
    BY <1>1, <1>9, <2>2, <2>4 DEF Laid
  <2>7. now[r].there /\ now[r].parent = p
    BY <2>5, <2>6 DEF LaidRow
  <2>8. \A q \in Table("categories") \ {r} : now[q] = rows[q]
    BY <1>1, <1>9, <2>4 DEF Laid
  <2>9. Trees(rows)
    BY <1>1, <1>9, RegisterAsks, TypedTables
  <2>10. /\ LiveOf(now, "categories") = {r} \cup LiveOf(rows, "categories")
         /\ r \notin LiveOf(rows, "categories")
         /\ \A c \in LiveOf(rows, "categories") : now[c] = rows[c]
    BY <2>2, <2>7, <2>8 DEF LiveOf, There
  <2>11. p \in {NoRef} \cup LiveOf(rows, "categories")
    BY <1>3 DEF Known, Parents, LiveOf, There
  <2>12. Trees(now)
    BY <2>7, <2>9, <2>10, <2>11, TreesGrow
  <2> QED BY <1>9, <2>12, RegisterAsks
<1>10. LaysSound(writes, types, sound)
  BY <1>9 DEF LaysSound
<1>11. StageLocked(s, {}, writes) /\ {} \subseteq DOMAIN rows \cup Advisory
  BY <1>3, <1>4, <1>7
<1> QED BY <1>8, <1>10, <1>11 DEF WritesSound

LEMMA CategoryUpdates ==
    ASSUME NEW types, NEW sound, RegisterFits(types, sound), NEW s \in Sessions,
           desk = "categories", CategoryUpdate(s) \/ CategoryArchive(s)
    PROVE  WritesSound(s, types, sound)
<1>1. /\ Shape /\ Typed(types) /\ types = RegisterTypes
      /\ \A name : \A r \in Table(name) : r \in DOMAIN rows /\ r[2] \in Nat /\ r[1] = name
      /\ \A name : Live(name) \subseteq Table(name) /\ Table(name) \subseteq DOMAIN rows
  BY RegisterHas
<1>2. \A r \in Table("categories") : types[r] = CategoryTypes
  BY <1>1, RegisterTyping
<1>3. LiveOf(rows, "categories") = Live("categories")
  BY DEF LiveOf, Live, There
<1>4. PICK c \in Live("categories"),
            cols \in [parent : Parents("categories")] \cup [active : BOOLEAN] :
          /\ StageLocked(s, {c}, Set(c, cols))
          /\ \/ /\ DOMAIN cols = {"parent"} /\ cols.parent \in Parents("categories")
                /\ Known(cols.parent) /\ c \notin Above(cols.parent)
             \/ DOMAIN cols = {"active"} /\ cols.active \in BOOLEAN
  <2>1. CASE CategoryUpdate(s)
    BY <2>1 DEF CategoryUpdate
  <2>2. CASE CategoryArchive(s)
    <3>1. PICK c \in Live("categories") : StageLocked(s, {c}, Set(c, [active |-> FALSE]))
      BY <2>2 DEF CategoryArchive
    <3>2. PICK cols : cols = [active |-> FALSE]
      OBVIOUS
    <3>3. /\ DOMAIN cols = {"active"} /\ cols.active \in BOOLEAN
          /\ cols \in [active : BOOLEAN]
      BY <3>2
    <3> QED BY <3>1, <3>2, <3>3
  <2> QED BY <2>1, <2>2
<1>5. c \in DOMAIN rows /\ types[c] = CategoryTypes /\ c \in Table("categories")
  BY <1>1, <1>2
<1>6. MayWrite(cols, types[c])
  BY <1>4, <1>5, CategoryColumns, MaySet
<1>7. PICK writes : writes = Set(c, cols)
  OBVIOUS
<1>8. Proper(writes, types)
  BY <1>5, <1>6, <1>7, ProperSet
<1>9. ASSUME rows \in sound, NEW now, IsTable(now, types), Laid(rows, now, writes)
      PROVE  now \in sound
  <2>1. DOMAIN writes = {c} /\ writes[c] = cols
    BY <1>7 DEF Set
  <2>2. LaidRow(now[c], cols, rows[c])
    BY <1>5, <1>9, <2>1 DEF Laid
  <2>3. rows[c].there /\ IsRow(rows[c], CategoryTypes)
    BY <1>5, RegisterRow DEF There
  <2>4. DOMAIN rows[c] = {"there", "active", "parent"}
    BY <2>3, CategoryColumns DEF IsRow
  <2>5. "there" \notin DOMAIN cols
    BY <1>4
  <2>6. /\ now[c].there
        /\ "parent" \in DOMAIN cols => now[c].parent = cols.parent
        /\ "parent" \notin DOMAIN cols => now[c].parent = rows[c].parent
    BY <2>2, <2>3, <2>4, <2>5 DEF LaidRow
  <2>7. \A q \in Table("categories") \ {c} : now[q] = rows[q]
    BY <1>1, <1>9, <2>1 DEF Laid
  <2>8. Trees(rows)
    BY <1>1, <1>9, RegisterAsks, TypedTables
  <2>9. LiveOf(now, "categories") = LiveOf(rows, "categories")
    BY <1>5, <2>3, <2>6, <2>7 DEF LiveOf
  <2>10. c \in LiveOf(rows, "categories")
    BY <1>3
  <2>11. CASE "parent" \notin DOMAIN cols
    BY <2>6, <2>7, <2>11, <2>8, <2>9, TreesKept, <1>9, RegisterAsks DEF LiveOf
  <2>12. CASE "parent" \in DOMAIN cols
    <3>1. PICK p : p = cols.parent
      OBVIOUS
    <3>2. p \in Parents("categories") /\ Known(p) /\ c \notin Above(p) /\ now[c].parent = p
      BY <1>4, <2>6, <2>12, <3>1
    <3>3. ASSUME p # NoRef
          PROVE  \E S \in SUBSET LiveOf(rows, "categories") :
                     now[c].parent \in S /\ c \notin S /\ Upward(rows, S)
      BY <3>2, <3>3, <1>1, <1>4, <1>3 DEF Parents, Known, Above, Upward
    <3>4. \A d \in LiveOf(rows, "categories") \ {c} : now[d].parent = rows[d].parent
      BY <2>7 DEF LiveOf
    <3>5. now[c].parent = NoRef
             \/ \E S \in SUBSET LiveOf(rows, "categories") :
                   now[c].parent \in S /\ c \notin S /\ Upward(rows, S)
      BY <3>2, <3>3
    <3>6. Trees(now)
      BY <2>8, <2>9, <2>10, <3>4, <3>5, TreesMove
    <3> QED BY <1>9, <3>6, RegisterAsks
  <2> QED BY <2>11, <2>12
<1>10. LaysSound(writes, types, sound)
  BY <1>9 DEF LaysSound
<1>11. StageLocked(s, {c}, writes) /\ {c} \subseteq DOMAIN rows \cup Advisory
  BY <1>4, <1>5, <1>7
<1> QED BY <1>8, <1>10, <1>11 DEF WritesSound

\* Components.
LEMMA FittedIs ==
    ASSUME NEW p \in Parents("components"), NEW given, given = Fitted(p)
    PROVE  /\ DOMAIN ComponentTypes = {"there"} \cup DOMAIN given
           /\ \A c \in DOMAIN given \ {"there"} : given[c] \in ComponentTypes[c]
<1>1. /\ DOMAIN given = {"active", "status", "parent"}
      /\ given.active \in BOOLEAN /\ given.status = "INSTALLED" /\ given.parent = p
  BY DEF Fitted
<1> QED BY <1>1, ComponentColumns DEF ComponentStatuses

LEMMA ComponentWrites ==
    ASSUME NEW types, NEW sound, RegisterFits(types, sound), NEW s \in Sessions,
           desk = "components", ComponentStep(s)
    PROVE  Writes(s, types)
<1>1. /\ Typed(types) /\ types = RegisterTypes
      /\ \A name : \A r \in Table(name) : r \in DOMAIN rows /\ r[2] \in Nat
      /\ \A name : Live(name) \subseteq Table(name) /\ Table(name) \subseteq DOMAIN rows
  BY RegisterHas
<1>2. \A r \in Table("components") : types[r] = ComponentTypes
  BY <1>1, RegisterTyping
<1>3. \A c \in Live("components") :
          c \in DOMAIN rows /\ types[c] = ComponentTypes /\ {c} \subseteq DOMAIN rows \cup Advisory
  BY <1>1, <1>2
<1>4. {} \subseteq DOMAIN rows \cup Advisory
  OBVIOUS
<1>5. ASSUME NEW body \in ComponentChanges
      PROVE  /\ DOMAIN body \subseteq DOMAIN ComponentTypes \ {"there"}
             /\ \A c \in DOMAIN body : body[c] \in ComponentTypes[c]
  BY ComponentColumns DEF ComponentChanges, ComponentStatuses, Gone
<1>6. ASSUME NEW status \in {"REMOVED", "REPLACED"}, NEW cols,
             cols = [status |-> status, active |-> FALSE]
      PROVE  /\ DOMAIN cols \subseteq DOMAIN ComponentTypes \ {"there"}
             /\ \A c \in DOMAIN cols : cols[c] \in ComponentTypes[c]
  <2>1. DOMAIN cols = {"status", "active"} /\ cols.status = status /\ cols.active \in BOOLEAN
    BY <1>6
  <2> QED BY <2>1, ComponentColumns DEF ComponentStatuses, Gone
<1>7. CASE ComponentAdd(s)
  BY <1>7, FittedIs, ProperNothing, <1>2, RecordWrites DEF ComponentAdd
<1>8. CASE ComponentChange(s) \/ UpdateComponent(s)
  BY <1>8, <1>3, <1>4, <1>5, SetWrites DEF ComponentChange, UpdateComponent, Stage
<1>9. CASE ComponentRemove(s)
  BY <1>9, <1>3, <1>6, SetWrites DEF ComponentRemove
<1>10. CASE ComponentReplace(s)
  <2>1. PICK c \in Live("components"), p \in Parents("components") :
            /\ Spare("components") # {}
            /\ StageLocked(s, {c}, Over(Set(c, [status |-> "REPLACED", active |-> FALSE]),
                                        Insert("components", Fitted(p))))
    BY <1>10 DEF ComponentReplace
  <2>2. PICK cols, given : cols = [status |-> "REPLACED", active |-> FALSE] /\ given = Fitted(p)
    OBVIOUS
  <2>3. MayWrite(cols, types[c])
    BY <1>3, <1>6, <2>2, MaySet
  <2>4. Proper(Set(c, cols), types)
    BY <1>3, <2>3, ProperSet
  <2>5. Proper(Insert("components", given), types)
    BY <1>1, <1>2, <2>1, <2>2, FittedIs, ProperInsert
  <2>6. PICK writes : writes = Over(Set(c, cols), Insert("components", given))
    OBVIOUS
  <2>7. Proper(writes, types)
    BY <2>4, <2>5, <2>6, ProperOver
  <2> QED BY <1>3, <2>1, <2>2, <2>6, <2>7 DEF Writes
<1> QED BY <1>7, <1>8, <1>9, <1>10 DEF ComponentStep

\* Defects.
LEMMA DefectWrites ==
    ASSUME NEW types, NEW sound, RegisterFits(types, sound), NEW s \in Sessions,
           desk = "defects", DefectStep(s)
    PROVE  Writes(s, types)
<1>1. /\ types = RegisterTypes
      /\ \A name : Live(name) \subseteq Table(name) /\ Table(name) \subseteq DOMAIN rows
  BY RegisterHas
<1>2. \A r \in Table("defects") : types[r] = DefectTypes
  BY <1>1, RegisterTyping
<1>3. \A d \in Live("defects") :
          d \in DOMAIN rows /\ types[d] = DefectTypes /\ {d} \subseteq DOMAIN rows \cup Advisory
  BY <1>1, <1>2
<1>4. CASE DefectReport(s)
  BY <1>4, DefectColumns, ProperNothing, <1>2, RecordWrites DEF DefectReport
<1>5. CASE DefectChange(s) \/ UpdateDefect(s) \/ ResolveDefect(s)
  <2>1. PICK d \in Live("defects"),
              body \in [status : DefectStatuses] \cup [severity : 1..2] :
            \E locked \in {{}, {d}} : StageLocked(s, locked, Set(d, body))
    BY <1>5 DEF DefectChange, DefectStatuses, UpdateDefect, Stage, ResolveDefect
  <2>5. PICK locked \in {{}, {d}} : StageLocked(s, locked, Set(d, body))
    BY <2>1
  <2>2. \/ DOMAIN body = {"status"} /\ body.status \in DefectStatuses
        \/ DOMAIN body = {"severity"} /\ body.severity \in 1..2
    OBVIOUS
  <2>3. /\ DOMAIN body \subseteq DOMAIN DefectTypes \ {"there"}
        /\ \A c \in DOMAIN body : body[c] \in DefectTypes[c]
    BY <2>2, DefectColumns
  <2>4. locked \subseteq DOMAIN rows \cup Advisory
    BY <1>3, <2>5
  <2> QED BY <1>3, <2>3, <2>4, <2>5, SetWrites
<1> QED BY <1>4, <1>5 DEF DefectStep

\* Papers.
LEMMA PaperGiven ==
    ASSUME NEW body \in [from : Dates, until : Dates], NEW given,
           given = Over([active |-> TRUE, status |-> "PENDING"], body)
    PROVE  /\ DOMAIN PaperTypes = {"there"} \cup DOMAIN given
           /\ \A c \in DOMAIN given \ {"there"} : given[c] \in PaperTypes[c]
<1>1. DOMAIN body = {"from", "until"} /\ body.from \in Dates /\ body.until \in Dates
  OBVIOUS
<1>2. PICK new : new = [active |-> TRUE, status |-> "PENDING"]
  OBVIOUS
<1>3. DOMAIN new = {"active", "status"} /\ new.active \in BOOLEAN /\ new.status = "PENDING"
  BY <1>2
<1>4. given = Over(new, body)
  BY <1>2
<1>5. DOMAIN given = {"active", "status", "from", "until"}
  BY <1>1, <1>3, <1>4 DEF Over
<1>6. /\ given.active \in BOOLEAN /\ given.status = "PENDING"
      /\ given.from \in Dates /\ given.until \in Dates
  BY <1>1, <1>3, <1>4 DEF Over
<1> QED BY <1>5, <1>6, PaperColumns

LEMMA PaperChanges ==
    ASSUME NEW types, NEW sound, RegisterFits(types, sound), NEW s \in Sessions,
           NEW name \in Papers, PaperChange(s, name)
    PROVE  Writes(s, types)
  BY RegisterHas, RegisterTyping, PaperColumns, SetWrites DEF Papers, PaperChange, Over

LEMMA PaperWrites ==
    ASSUME NEW types, NEW sound, RegisterFits(types, sound), NEW s \in Sessions,
           \/ desk = "policies" /\ RecordStep(s)
           \/ desk = "papers" /\ MachineDocumentStep(s)
    PROVE  Writes(s, types)
<1>1. /\ Typed(types) /\ types = RegisterTypes
      /\ \A name : \A r \in Table(name) : r \in DOMAIN rows /\ r[2] \in Nat
      /\ \A name : Live(name) \subseteq Table(name) /\ Table(name) \subseteq DOMAIN rows
  BY RegisterHas
<1>2. \A name \in Papers : \A r \in Table(name) : types[r] = PaperTypes
  BY <1>1, RegisterTyping DEF Papers
<1>3. CASE desk = "policies" /\ PaperAdd(s, "policies")
  BY <1>3, ProperNothing, PaperGiven, <1>2, RecordWrites DEF PaperAdd, Papers
<1>4. CASE \E name \in Papers : PaperChange(s, name)
  BY <1>4, PaperChanges
<1>5. CASE AddDocument(s)
  BY <1>5, PaperGiven, <1>2, <1>1, WritesInsert DEF AddDocument, Papers
<1>6. CASE VerifyDocument(s) \/ ArchiveDocument(s)
  <2>1. PICK p \in Live("documents"), cols \in [status : {"VERIFIED"}] \cup [active : {FALSE}] :
            StageLocked(s, {p}, Set(p, cols))
    BY <1>6 DEF VerifyDocument, ArchiveDocument
  <2>2. \/ DOMAIN cols = {"status"} /\ cols.status = "VERIFIED"
        \/ DOMAIN cols = {"active"} /\ cols.active = FALSE
    OBVIOUS
  <2>3. /\ DOMAIN cols \subseteq DOMAIN PaperTypes \ {"there"}
        /\ \A c \in DOMAIN cols : cols[c] \in PaperTypes[c]
    BY <2>2, PaperColumns
  <2>4. p \in DOMAIN rows /\ types[p] = PaperTypes /\ {p} \subseteq DOMAIN rows \cup Advisory
    BY <1>1, <1>2 DEF Papers
  <2> QED BY <2>1, <2>3, <2>4, SetWrites
<1> QED BY <1>3, <1>4, <1>5, <1>6 DEF RecordStep, MachineDocumentStep, Papers

\* One owner at a time, and one primary photo, of those not archived.
OwnedOnce(tab) ==
    \A o, q \in LiveOf(tab, "owners") : tab[o].until = NoDay /\ tab[q].until = NoDay => o = q

ShownOnce(tab) ==
    \A p, q \in LiveOf(tab, "photos") :
        tab[p].primary => tab[p].active /\ (tab[q].primary => p = q)

OneSound ==
    {tab \in Tables(RegisterTypes) :
        (desk = "ownership" => OwnedOnce(tab)) /\ (desk = "photos" => ShownOnce(tab))}

LEMMA OneAsks ==
    ASSUME NEW types, types = RegisterTypes, NEW one, one = OneSound, NEW tab, IsTable(tab, types)
    PROVE  /\ desk = "ownership" => (tab \in one <=> OwnedOnce(tab))
           /\ desk = "photos" => (tab \in one <=> ShownOnce(tab))
  BY TablesAre DEF OneSound

\* The kind of a photo has no part in it.
LEMMA KindIsFree ==
    ASSUME NEW types, NEW sound, RegisterFits(types, sound), desk \in {"ownership", "photos"}
    PROVE  Insensitive(types, OneSound, {"kind"})
<1>1. PICK one : one = OneSound
  OBVIOUS
<1>2. /\ types = RegisterTypes /\ Typed(types)
      /\ \A name : Table(name) \subseteq DOMAIN rows
  BY RegisterHas
<1>3. ASSUME NEW a, NEW b, IsTable(a, types), IsTable(b, types), Same(a, b, {"kind"}), a \in one
      PROVE  b \in one
  <2>1. ASSUME NEW r \in DOMAIN rows
        PROVE  /\ a[r].there <=> b[r].there
               /\ \A c \in DOMAIN types[r] \ {"there", "kind"} : a[r].there => b[r][c] = a[r][c]
    <3>1. PICK ty, x, y : ty = types[r] /\ x = a[r] /\ y = b[r]
      OBVIOUS
    <3>2. /\ "there" \in DOMAIN ty /\ ty.there = {TRUE}
          /\ x = Absent \/ IsRow(x, ty)
          /\ y = Absent \/ IsRow(y, ty)
          /\ SameRow(x, y, {"kind"})
      BY <1>2, <1>3, <3>1 DEF Typed, IsTable, Same
    <3>3. ~Absent.there
      BY DEF Absent
    <3>4. CASE x = Absent
      BY <3>1, <3>2, <3>3, <3>4 DEF SameRow
    <3>5. CASE IsRow(x, ty) /\ IsRow(y, ty)
      BY <3>1, <3>2, <3>5 DEF SameRow, IsRow
    <3>6. y = Absent <=> x = Absent
      BY <3>2 DEF SameRow
    <3> QED BY <3>2, <3>4, <3>5, <3>6
  <2>2. \A name : LiveOf(a, name) = LiveOf(b, name)
    BY <1>2, <2>1 DEF LiveOf
  <2>3. CASE desk = "ownership"
    <3>1. \A r \in Table("owners") : types[r] = OwnerTypes
      BY <1>2, RegisterTyping
    <3>2. \A o \in LiveOf(a, "owners") : b[o].until = a[o].until
      BY <1>2, <2>1, <3>1, OwnerColumns DEF LiveOf
    <3>3. OwnedOnce(a)
      BY <1>1, <1>2, <1>3, <2>3, OneAsks
    <3>4. OwnedOnce(b)
      BY <2>2, <3>2, <3>3 DEF OwnedOnce
    <3> QED BY <1>1, <1>2, <1>3, <2>3, <3>4, OneAsks
  <2>4. CASE desk = "photos"
    <3>1. \A r \in Table("photos") : types[r] = PhotoTypes
      BY <1>2, RegisterTyping
    <3>2. \A p \in LiveOf(a, "photos") : b[p].primary = a[p].primary /\ b[p].active = a[p].active
      BY <1>2, <2>1, <3>1, PhotoColumns DEF LiveOf
    <3>3. ShownOnce(a)
      BY <1>1, <1>2, <1>3, <2>4, OneAsks
    <3>4. ShownOnce(b)
      BY <2>2, <3>2, <3>3 DEF ShownOnce
    <3> QED BY <1>1, <1>2, <1>3, <2>4, <3>4, OneAsks
  <2> QED BY <2>3, <2>4
<1> QED BY <1>1, <1>3 DEF Insensitive

\* A new owner is the only one whose ownership is open.
LEMMA OwnersAlone ==
    ASSUME NEW types, NEW sound, RegisterFits(types, sound), NEW s \in Sessions,
           desk = "ownership", OwnershipAdd(s)
    PROVE  AloneWrites(s, types, {Machine}, {"kind"}, OneSound)
<1>1. /\ Shape /\ Typed(types) /\ types = RegisterTypes
      /\ \A name : \A r \in Table(name) : r \in DOMAIN rows /\ r[2] \in Nat
      /\ \A name : Live(name) \subseteq Table(name) /\ Table(name) \subseteq DOMAIN rows
      /\ {Machine} \subseteq DOMAIN rows \cup Advisory
  BY RegisterHas
<1>2. \A r \in Table("owners") : types[r] = OwnerTypes
  BY <1>1, RegisterTyping
<1>3. PICK body \in [from : Days, until : Dates] :
          AddRecord(s, "owners", body, SetAll(OpenOwners, [until |-> body.from]))
  BY DEF OwnershipAdd
<1>4. DOMAIN body = {"from", "until"} /\ body.from \in Days /\ body.until \in Dates
  OBVIOUS
<1>5. /\ DOMAIN OwnerTypes = {"there"} \cup DOMAIN body
      /\ \A c \in DOMAIN body \ {"there"} : body[c] \in OwnerTypes[c]
  BY <1>4, OwnerColumns
<1>6. PICK cols : cols = [until |-> body.from]
  OBVIOUS
<1>7. DOMAIN cols = {"until"} /\ cols.until \in Dates /\ cols.until # NoDay
  BY <1>4, <1>6, RowStoreAssumption DEF Dates, RowStoreAssumption, NoDay
<1>8. MayWrite(cols, OwnerTypes)
  BY <1>7, OwnerColumns, MaySet
<1>9. OpenOwners \in SUBSET DOMAIN rows /\ \A r \in OpenOwners : MayWrite(cols, types[r])
  BY <1>1, <1>2, <1>8 DEF OpenOwners
<1>10. PICK others, writes, r :
           /\ others = SetAll(OpenOwners, cols) /\ r = NewRow("owners")
           /\ writes = Over(Insert("owners", body), others)
  OBVIOUS
<1>11. Proper(others, types) /\ Spare("owners") # {} /\ StageLocked(s, {Machine}, writes)
  BY <1>3, <1>6, <1>9, <1>10, ProperSetAll DEF AddRecord
<1>12. Proper(Insert("owners", body), types)
  BY <1>1, <1>2, <1>5, <1>11, ProperInsert
<1>13. Proper(writes, types)
  BY <1>10, <1>11, <1>12, ProperOver
<1>14. ASSUME rows \in OneSound, NEW now, IsTable(now, types), Laid(rows, now, writes)
       PROVE  now \in OneSound
  <2>1. r \in Table("owners") /\ ~There(r) /\ r \in DOMAIN rows
    BY <1>1, <1>10, <1>11, NewRowIsSpare
  <2>2. /\ DOMAIN writes = {r} \cup DOMAIN others
        /\ \A x \in DOMAIN others \ {r} : writes[x] = others[x]
    BY <1>10, InsertIs DEF Over
  <2>3. DOMAIN others = OpenOwners /\ \A o \in OpenOwners : others[o] = cols
    BY <1>10 DEF SetAll
  <2>4. ASSUME NEW o \in Table("owners"), o # r, now[o].there PROVE now[o].until # NoDay
    <3>1. o \in DOMAIN rows /\ (o \in DOMAIN writes => "there" \notin DOMAIN writes[o])
      BY <1>1, <1>7, <2>2, <2>3, <2>4
    <3>2. rows[o].there
      BY <1>1, <1>14, <2>4, <3>1, LaidAbsent DEF Shape, There
    <3>3. CASE o \in OpenOwners
      <4>1. o \in DOMAIN writes /\ writes[o] = cols
        BY <2>2, <2>3, <2>4, <3>3
      <4>2. now[o].until = cols.until
        BY <1>7, <1>14, <3>1, <3>2, <4>1, LaidLive
      <4> QED BY <1>7, <4>2
    <3>4. CASE o \notin OpenOwners
      BY <1>14, <2>2, <2>3, <2>4, <3>1, <3>4, <3>2 DEF Laid, OpenOwners, Live, There
    <3> QED BY <3>3, <3>4
  <2>5. OwnedOnce(now)
    BY <2>4 DEF OwnedOnce, LiveOf
  <2> QED BY <1>1, <1>14, <2>5, OneAsks
<1>15. LaysSound(writes, types, OneSound)
  BY <1>14 DEF LaysSound
<1> QED BY <1>1, <1>11, <1>13, <1>15 DEF AloneWrites

\* The photos that stay are shown once: the one that becomes primary takes the place of
\* the others,
LEMMA ShownCleared ==
    ASSUME NEW types, NEW sound, RegisterFits(types, sound), NEW m, NEW writes, NEW now,
           Laid(rows, now, writes), DOMAIN writes = {m} \cup Live("photos"),
           \A p \in Live("photos") \ {m} : writes[p] = [primary |-> FALSE],
           m \in Table("photos") /\ now[m].there /\ now[m].primary => now[m].active
    PROVE  ShownOnce(now)
  BY RegisterHas, LaidLive, LaidAbsent DEF Live, There, Shape, LiveOf, ShownOnce

\* and one that is not primary, or no longer, has no part in it.
LEMMA ShownLess ==
    ASSUME NEW types, NEW sound, RegisterFits(types, sound), ShownOnce(rows), NEW m, NEW writes,
           NEW now, Laid(rows, now, writes), DOMAIN writes = {m},
           m \in Table("photos") => ~now[m].primary
    PROVE  ShownOnce(now)
  BY RegisterHas DEF Laid, LiveOf, ShownOnce

LEMMA PhotosAlone ==
    ASSUME NEW types, NEW sound, RegisterFits(types, sound), NEW s \in Sessions,
           desk = "photos", MediaStep(s)
    PROVE  AloneWrites(s, types, {Machine}, {"kind"}, OneSound)
<1>1. /\ Shape /\ Typed(types) /\ types = RegisterTypes
      /\ \A name : \A r \in Table(name) : r \in DOMAIN rows /\ r[2] \in Nat
      /\ \A name : Live(name) \subseteq Table(name) /\ Table(name) \subseteq DOMAIN rows
      /\ {Machine} \subseteq DOMAIN rows \cup Advisory
  BY RegisterHas
<1>2. \A r \in Table("photos") : types[r] = PhotoTypes
  BY <1>1, RegisterTyping
<1>3. \A m \in Live("photos") :
          /\ m \in DOMAIN rows /\ m \in Table("photos") /\ types[m] = PhotoTypes /\ rows[m].there
          /\ DOMAIN rows[m] = {"there", "active", "primary", "kind"}
  <2>1. ASSUME NEW m \in Live("photos") PROVE DOMAIN rows[m] = {"there", "active", "primary", "kind"}
    <3>1. types[m] = PhotoTypes /\ IsRow(rows[m], types[m])
      BY <1>1, <1>2, RegisterRow
    <3> QED BY <3>1, PhotoColumns DEF IsRow
  <2> QED BY <1>1, <1>2, <2>1 DEF Live, There
<1>4. ASSUME NEW now, IsTable(now, types), ShownOnce(now) PROVE now \in OneSound
  BY <1>1, <1>4, OneAsks
<1>5. rows \in OneSound => ShownOnce(rows)
  BY <1>1, OneAsks, TypedTables
<1>6. /\ ClearPrimary = [x \in Live("photos") |-> [primary |-> FALSE]]
      /\ DOMAIN ClearPrimary = Live("photos")
      /\ \A x \in Live("photos") : ClearPrimary[x] = [primary |-> FALSE]
  BY DEF ClearPrimary, SetAll
<1>7. CASE MediaAdd(s)
  <2>1. PICK primary \in BOOLEAN, kind \in {"PHOTO", "VIDEO"} :
            AddRecord(s, "photos", [active |-> TRUE, primary |-> primary, kind |-> kind],
                      IF primary THEN ClearPrimary ELSE <<>>)
    BY <1>7 DEF MediaAdd
  <2>2. PICK given, others, m, one, writes :
            /\ given = [active |-> TRUE, primary |-> primary, kind |-> kind]
            /\ others = IF primary THEN ClearPrimary ELSE <<>>
            /\ m = NewRow("photos") /\ one = Insert("photos", given) /\ writes = Over(one, others)
    OBVIOUS
  <2>3. /\ DOMAIN given = {"active", "primary", "kind"}
        /\ given.active \in BOOLEAN /\ given.primary \in BOOLEAN /\ given.kind = kind
        /\ given.active /\ given.primary = primary
    BY <2>2
  <2>4. /\ DOMAIN PhotoTypes = {"there"} \cup DOMAIN given
        /\ \A c \in DOMAIN given \ {"there"} : given[c] \in PhotoTypes[c]
    BY <2>3, PhotoColumns
  <2>5. Spare("photos") # {} /\ StageLocked(s, {Machine}, writes)
    BY <2>1, <2>2 DEF AddRecord
  <2>6. Proper(one, types)
    BY <1>1, <1>2, <2>2, <2>4, <2>5, ProperInsert
  <2>7. Proper(others, types)
    BY <2>2, PrimaryCleared, ProperNothing
  <2>8. Proper(writes, types)
    BY <2>2, <2>6, <2>7, ProperOver
  <2>9. DOMAIN one = {m} /\ one[m] = Over([there |-> TRUE], given)
    BY <2>2, InsertIs
  <2>10. m \in Table("photos") /\ ~There(m) /\ m \in DOMAIN rows /\ m \notin Live("photos")
    BY <1>1, <2>2, <2>5, NewRowIsSpare DEF Live
  <2>11. /\ DOMAIN writes = {m} \cup DOMAIN others /\ writes[m] = one[m]
         /\ \A x \in DOMAIN others : x # m => writes[x] = others[x]
    BY <2>2, <2>9 DEF Over
  <2>12. ASSUME rows \in OneSound, NEW now, IsTable(now, types), Laid(rows, now, writes)
         PROVE  now \in OneSound
    <3>1. m \in DOMAIN writes /\ writes[m] = Over([there |-> TRUE], given)
      BY <2>9, <2>11
    <3>2. \A c \in DOMAIN given \ {"there"} : now[m][c] = given[c]
      BY <2>10, <2>12, <3>1, LaidNew
    <3>3. now[m].active /\ now[m].primary = primary
      BY <2>3, <3>2
    <3>4. CASE primary
      <4>1. others = ClearPrimary
        BY <2>2, <3>4
      <4>2. /\ DOMAIN writes = {m} \cup Live("photos")
            /\ \A p \in Live("photos") \ {m} : writes[p] = [primary |-> FALSE]
        BY <1>6, <2>11, <4>1
      <4>3. ShownOnce(now)
        BY <2>12, <3>3, <4>2, ShownCleared
      <4> QED BY <1>4, <2>12, <4>3
    <3>5. CASE ~primary
      <4>1. DOMAIN others = {}
        BY <2>2, <3>5
      <4>2. DOMAIN writes = {m}
        BY <2>11, <4>1
      <4>3. ShownOnce(now)
        BY <1>5, <2>12, <3>3, <3>5, <4>2, ShownLess
      <4> QED BY <1>4, <2>12, <4>3
    <3> QED BY <2>1, <3>4, <3>5
  <2>13. LaysSound(writes, types, OneSound)
    BY <2>12 DEF LaysSound
  <2> QED BY <1>1, <2>5, <2>8, <2>13 DEF AloneWrites
<1>8. CASE MediaUpdate(s)
  <2>1. PICK m \in Live("photos"), kind \in {"PHOTO", "VIDEO"} :
            StageLocked(s, {m}, Set(m, [kind |-> kind]))
    BY <1>8 DEF MediaUpdate
  <2>2. PICK cols, writes : cols = [kind |-> kind] /\ writes = Set(m, cols)
    OBVIOUS
  <2>3. DOMAIN cols = {"kind"} /\ cols.kind = kind
    BY <2>2
  <2>4. m \in DOMAIN rows /\ types[m] = PhotoTypes /\ {m} \subseteq DOMAIN rows \cup Advisory
    BY <1>3
  <2>5. MayWrite(cols, types[m])
    BY <2>3, <2>4, PhotoColumns, MaySet
  <2>6. Proper(writes, types)
    BY <2>2, <2>4, <2>5, ProperSet
  <2>7. \A r \in DOMAIN writes : DOMAIN writes[r] \subseteq {"kind"}
    BY <2>2, <2>3 DEF Set
  <2>8. StageLocked(s, {m}, writes)
    BY <2>1, <2>2
  <2> QED BY <2>4, <2>6, <2>7, <2>8 DEF AloneWrites
<1>9. CASE PrimaryMedia(s)
  <2>1. PICK m \in Live("photos") :
            /\ rows[m].active
            /\ StageLocked(s, {Machine}, Over(Set(m, [primary |-> TRUE]), ClearPrimary))
    BY <1>9 DEF PrimaryMedia
  <2>2. PICK cols, one, writes :
            cols = [primary |-> TRUE] /\ one = Set(m, cols) /\ writes = Over(one, ClearPrimary)
    OBVIOUS
  <2>3. DOMAIN cols = {"primary"} /\ cols.primary \in BOOLEAN
    BY <2>2
  <2>4. /\ m \in DOMAIN rows /\ types[m] = PhotoTypes /\ rows[m].there
        /\ DOMAIN rows[m] = {"there", "active", "primary", "kind"}
    BY <1>3
  <2>5. MayWrite(cols, types[m])
    BY <2>3, <2>4, PhotoColumns, MaySet
  <2>6. Proper(one, types)
    BY <2>2, <2>4, <2>5, ProperSet
  <2>7. Proper(writes, types)
    BY <2>2, <2>6, PrimaryCleared, ProperOver
  <2>8. DOMAIN one = {m} /\ one[m] = cols
    BY <2>2 DEF Set
  <2>9. /\ DOMAIN writes = {m} \cup Live("photos") /\ writes[m] = cols
        /\ \A p \in Live("photos") \ {m} : writes[p] = [primary |-> FALSE]
    BY <1>6, <2>2, <2>8 DEF Over
  <2>10. ASSUME rows \in OneSound, NEW now, IsTable(now, types), Laid(rows, now, writes)
         PROVE  now \in OneSound
    <3>1. \A c \in DOMAIN rows[m] :
              m \notin DOMAIN writes \/ c \notin DOMAIN writes[m] => now[m][c] = rows[m][c]
      BY <2>3, <2>4, <2>9, <2>10, LaidLive
    <3>2. now[m].active
      BY <2>1, <2>3, <2>4, <2>9, <3>1
    <3>3. ShownOnce(now)
      BY <2>9, <2>10, <3>2, ShownCleared
    <3> QED BY <1>4, <2>10, <3>3
  <2>11. LaysSound(writes, types, OneSound)
    BY <2>10 DEF LaysSound
  <2>12. StageLocked(s, {Machine}, writes)
    BY <2>1, <2>2
  <2> QED BY <1>1, <2>7, <2>11, <2>12 DEF AloneWrites
<1>10. CASE ArchiveMedia(s)
  <2>1. PICK m \in Live("photos") :
            StageLocked(s, {Machine}, Set(m, [active |-> FALSE, primary |-> FALSE]))
    BY <1>10 DEF ArchiveMedia
  <2>2. PICK cols, writes :
            cols = [active |-> FALSE, primary |-> FALSE] /\ writes = Set(m, cols)
    OBVIOUS
  <2>3. /\ DOMAIN cols = {"active", "primary"} /\ cols.active \in BOOLEAN
        /\ cols.primary \in BOOLEAN /\ ~cols.primary
    BY <2>2
  <2>4. m \in DOMAIN rows /\ types[m] = PhotoTypes /\ rows[m].there
    BY <1>3
  <2>5. MayWrite(cols, types[m])
    BY <2>3, <2>4, PhotoColumns, MaySet
  <2>6. Proper(writes, types)
    BY <2>2, <2>4, <2>5, ProperSet
  <2>7. DOMAIN writes = {m} /\ writes[m] = cols
    BY <2>2 DEF Set
  <2>8. ASSUME rows \in OneSound, NEW now, IsTable(now, types), Laid(rows, now, writes)
         PROVE  now \in OneSound
    <3>1. \A c \in DOMAIN cols : now[m][c] = cols[c]
      BY <2>3, <2>4, <2>7, <2>8, LaidLive
    <3>2. ~now[m].primary
      BY <2>3, <3>1
    <3>3. ShownOnce(now)
      BY <1>5, <2>7, <2>8, <3>2, ShownLess
    <3> QED BY <1>4, <2>8, <3>3
  <2>9. LaysSound(writes, types, OneSound)
    BY <2>8 DEF LaysSound
  <2>10. StageLocked(s, {Machine}, writes)
    BY <2>1, <2>2
  <2> QED BY <1>1, <2>6, <2>9, <2>10 DEF AloneWrites
<1> QED BY <1>7, <1>8, <1>9, <1>10 DEF MediaStep

\* What a handler of the register writes is typed and sound.
LEMMA RegisterWrites ==
    ASSUME NEW types, NEW sound, RegisterFits(types, sound), NEW s \in Sessions, RegisterStep(s)
    PROVE  WritesSound(s, types, sound)
<1>1. ASSUME desk # "categories", Writes(s, types) PROVE WritesSound(s, types, sound)
  BY <1>1, RegisterAsks, AllSound
<1>2. CASE desk = "categories" /\ CategoryStep(s)
  BY <1>2, CategoryCreates, CategoryUpdates DEF CategoryStep
<1>3. CASE desk = "photos" /\ MediaStep(s)
  BY <1>3, PhotosAlone, <1>1 DEF AloneWrites, Writes
<1>4. CASE desk = "ownership" /\ OwnershipAdd(s)
  BY <1>4, OwnersAlone, <1>1 DEF AloneWrites, Writes
<1>5. CASE desk = "components" /\ ComponentStep(s)
  BY <1>1, <1>5, ComponentWrites
<1>6. CASE desk = "defects" /\ DefectStep(s)
  BY <1>1, <1>6, DefectWrites
<1>7. CASE \/ desk = "policies" /\ RecordStep(s)
           \/ desk = "papers" /\ MachineDocumentStep(s)
  BY <1>1, <1>7, PaperWrites
<1> QED BY <1>2, <1>3, <1>4, <1>5, <1>6, <1>7 DEF RegisterStep

\* What holds at the desks of the register.
RegisterInv ==
    /\ RegisterFits(RegisterTypes, RegisterSound)
    /\ desk \in {"ownership", "photos"} => StayAlone({Machine}, {"kind"}, OneSound)

\* Types and what is sound do not change.
LEMMA RegisterStays ==
    ASSUME Alike
    PROVE  /\ RegisterTypes' = RegisterTypes /\ RegisterSound' = RegisterSound
           /\ OneSound' = OneSound
<1>1. desk' = desk /\ DOMAIN rows' = DOMAIN rows
  BY DEF Alike
<1>2. \A name : Table(name)' = Table(name)
  BY <1>1 DEF Table
<1>3. RegisterTypes' = RegisterTypes
  BY <1>1, <1>2 DEF RegisterTypes, MachineTypes, PhotoTypes, OwnerTypes, CategoryTypes,
     ComponentTypes, DefectTypes, PaperTypes, Parents
<1>4. PICK types : types = RegisterTypes
  OBVIOUS
<1>5. Tables(types)' = Tables(types)
  BY <1>1, TablesStay
<1>6. \A tab, name : LiveOf(tab, name)' = LiveOf(tab, name)
  BY <1>2 DEF LiveOf
<1>7. \A tab : /\ Trees(tab)' = Trees(tab)
               /\ OwnedOnce(tab)' = OwnedOnce(tab)
               /\ ShownOnce(tab)' = ShownOnce(tab)
  BY <1>6 DEF Trees, OwnedOnce, ShownOnce, Upward
<1>8. RegisterSound' = RegisterSound
  BY <1>4, <1>3, <1>1, <1>5, <1>7 DEF RegisterSound
<1>9. OneSound' = OneSound
  BY <1>4, <1>3, <1>1, <1>5, <1>7 DEF OneSound
<1> QED BY <1>3, <1>8, <1>9

\* The register begins with the machine alone.
LEMMA RegisterBegins == RegisterInit => RegisterInv
<1> SUFFICES ASSUME RegisterInit PROVE RegisterInv
  OBVIOUS
<1>1. /\ desk \in DOMAIN RegisterTables /\ StoreInit /\ DOMAIN rows = RegisterIds
      /\ rows = [r \in DOMAIN rows |-> rows[r]]
      /\ \A r \in DOMAIN rows : rows[r] = IF r = Machine THEN [there |-> TRUE] ELSE Absent
  BY DEF RegisterInit
<1>2. PICK types, sound, one : types = RegisterTypes /\ sound = RegisterSound /\ one = OneSound
  OBVIOUS
<1>3. PICK row : row = [there |-> TRUE]
  OBVIOUS
<1>4. DOMAIN row = {"there"} /\ row.there = TRUE /\ row = [c \in DOMAIN row |-> row[c]]
  BY <1>3
<1>5. \A r \in DOMAIN rows : \/ r = Machine /\ rows[r] = row
                             \/ r # Machine /\ rows[r] = Absent
  BY <1>1, <1>3
<1>6. \A r \in DOMAIN rows : There(r) \/ rows[r] = Absent
  BY <1>4, <1>5 DEF There
<1>7. Shape
  BY <1>1, <1>6, InitShape
<1>8. ASSUME NEW r \in DOMAIN rows
      PROVE  /\ "there" \in DOMAIN types[r] /\ types[r].there = {TRUE}
             /\ rows[r] = Absent \/ IsRow(rows[r], types[r])
  <2>1. "there" \in DOMAIN types[r] /\ types[r].there = {TRUE}
    BY <1>1, <1>2, RegisterThere
  <2>2. CASE r = Machine
    <3>1. r \in Table("machines")
      BY <2>2 DEF Table, Machine
    <3>2. types[r] = MachineTypes
      BY <1>1, <1>2, <3>1, RegisterTyping
    <3>3. IsRow(row, MachineTypes)
      BY <1>4, MachineColumns DEF IsRow
    <3> QED BY <1>5, <2>1, <2>2, <3>2, <3>3
  <2>3. CASE r # Machine
    BY <1>5, <2>1, <2>3
  <2> QED BY <2>2, <2>3
<1>9. Typed(types)
  BY <1>1, <1>8, TypedStarts
<1>10. IsTable(rows, types)
  BY <1>7, <1>9, TypedTables
<1>11. \A name : name # "machines" => LiveOf(rows, name) = {}
  BY <1>5 DEF Absent, Machine, LiveOf, Table
<1>12. Trees(rows) /\ OwnedOnce(rows) /\ ShownOnce(rows)
  BY <1>11 DEF Trees, OwnedOnce, ShownOnce
<1>13. rows \in sound /\ rows \in one
  BY <1>2, <1>10, <1>12, TablesAre DEF RegisterSound, OneSound
<1>14. StaySound(sound) /\ StayAlone({Machine}, {"kind"}, one)
  BY <1>1, <1>7, <1>13, SoundStarts, AloneStarts
<1>15. RegisterFits(types, sound)
  BY <1>1, <1>2, <1>7, <1>9, <1>14 DEF RegisterFits
<1> QED BY <1>2, <1>14, <1>15 DEF RegisterInv

LEMMA RegisterGoesOn == RegisterInv /\ [RegisterNext]_storeVars => RegisterInv'
<1> SUFFICES ASSUME RegisterInv, [RegisterNext]_storeVars PROVE RegisterInv'
  OBVIOUS
<1>1. PICK types, sound, one : types = RegisterTypes /\ sound = RegisterSound /\ one = OneSound
  OBVIOUS
<1>2. /\ RegisterFits(types, sound)
      /\ desk \in {"ownership", "photos"} => StayAlone({Machine}, {"kind"}, one)
  BY <1>1 DEF RegisterInv
<1>3. /\ Shape /\ Typed(types) /\ StaySound(sound)
      /\ desk \in DOMAIN RegisterTables /\ DOMAIN rows = RegisterIds
  BY <1>2 DEF RegisterFits
<1>4. \/ \E s \in Sessions : RegisterStep(s)
      \/ \E s \in Sessions : \E accepted : Commit(s, accepted)
      \/ \E s \in Sessions : Abort(s)
      \/ UNCHANGED storeVars
  BY DEF RegisterNext, RegisterCommit
<1>5. SoundMove(types, sound)
  BY <1>2, <1>4, RegisterWrites DEF SoundMove
<1>6. Shape' /\ Typed(types)' /\ StaySound(sound)' /\ Alike
  BY <1>3, <1>5, SoundMoves
<1>7. ASSUME desk \in {"ownership", "photos"} PROVE StayAlone({Machine}, {"kind"}, one)'
  <2>1. ASSUME NEW s \in Sessions, RegisterStep(s)
        PROVE  AloneWrites(s, types, {Machine}, {"kind"}, one)
    BY <1>7, <2>1, <1>1, <1>2, PhotosAlone, OwnersAlone DEF RegisterStep
  <2>2. AloneMove(types, {Machine}, {"kind"}, one)
    BY <1>4, <2>1 DEF AloneMove
  <2>3. Insensitive(types, one, {"kind"})
    BY <1>1, <1>2, <1>7, KindIsFree
  <2>4. {Machine} # {}
    OBVIOUS
  <2> QED BY <1>2, <1>3, <1>7, <2>2, <2>3, <2>4, AloneMoves
<1>8. /\ types = RegisterTypes' /\ sound = RegisterSound' /\ one = OneSound'
      /\ desk' = desk /\ DOMAIN rows' = DOMAIN rows
  BY <1>1, <1>6, RegisterStays DEF Alike
<1>9. RegisterIds' = RegisterIds
  BY <1>8 DEF RegisterIds
<1>10. RegisterFits(types, sound)'
  BY <1>3, <1>6, <1>8, <1>9 DEF RegisterFits
<1> QED BY <1>7, <1>8, <1>10 DEF RegisterInv
\* The rows of each table as records.
LEMMA RegisterRowsAre ==
    ASSUME NEW row
    PROVE  /\ IsRow(row, MachineTypes) => row \in [there : {TRUE}]
           /\ IsRow(row, PhotoTypes) => row \in PhotoRows
           /\ IsRow(row, OwnerTypes) => row \in OwnerRows
           /\ IsRow(row, CategoryTypes) => row \in CategoryRows
           /\ IsRow(row, ComponentTypes) => row \in ComponentRows
           /\ IsRow(row, DefectTypes) => row \in DefectRows
           /\ IsRow(row, PaperTypes) => row \in MachinePaperRows
<1>1. IsRow(row, MachineTypes) => row \in [there : {TRUE}]
  BY MachineColumns DEF IsRow
<1>2. IsRow(row, PhotoTypes) => row \in PhotoRows
  BY PhotoColumns DEF IsRow, PhotoRows
<1>3. IsRow(row, OwnerTypes) => row \in OwnerRows
  BY OwnerColumns DEF IsRow, OwnerRows
<1>4. IsRow(row, CategoryTypes) => row \in CategoryRows
  BY CategoryColumns DEF IsRow, CategoryRows
<1>5. IsRow(row, ComponentTypes) => row \in ComponentRows
  BY ComponentColumns DEF IsRow, ComponentRows
<1>6. IsRow(row, DefectTypes) => row \in DefectRows
  BY DefectColumns DEF IsRow, DefectRows
<1>7. IsRow(row, PaperTypes) => row \in MachinePaperRows
  BY PaperColumns DEF IsRow, MachinePaperRows
<1> QED BY <1>1, <1>2, <1>3, <1>4, <1>5, <1>6, <1>7

\* What it says of the register: every row is one its table can hold; categories are
\* trees; one owner and one photo at a time.
LEMMA RegisterSays ==
    ASSUME RegisterInv
    PROVE  RegisterTypeOK /\ CategoriesAreTrees /\ OneOwnerOnePhoto
<1>1. PICK types, sound, one : types = RegisterTypes /\ sound = RegisterSound /\ one = OneSound
  OBVIOUS
<1>2. RegisterFits(types, sound)
  BY <1>1 DEF RegisterInv
<1>3. /\ Shape /\ Typed(types) /\ StaySound(sound) /\ IsTable(rows, types)
      /\ desk \in DOMAIN RegisterTables /\ DOMAIN rows = RegisterIds
      /\ \A name : \A r \in Table(name) : r \in DOMAIN rows /\ r[1] = name
  BY <1>2, RegisterHas, TypedTables DEF RegisterFits
<1>4. \A r \in DOMAIN rows : r[1] \in RegisterTables[desk]
  BY <1>3, RegisterNames
<1>5. RegisterTypeOK
  <2>1. ASSUME NEW r \in DOMAIN rows, There(r) PROVE rows[r] \in RegisterRows(r)
    <3>1. r \in Live(r[1])
      BY <2>1 DEF Live, Table
    <3>2. IsRow(rows[r], types[r])
      BY <1>2, <3>1, RegisterRow
    <3>3. r[1] \in {"machines", "photos", "owners", "categories", "components", "defects",
                    "policies", "documents"}
      BY <1>3, <1>4 DEF RegisterTables
    <3>4. /\ r[1] = "machines" => types[r] = MachineTypes
          /\ r[1] = "photos" => types[r] = PhotoTypes
          /\ r[1] = "owners" => types[r] = OwnerTypes
          /\ r[1] = "categories" => types[r] = CategoryTypes
          /\ r[1] = "components" => types[r] = ComponentTypes
          /\ r[1] = "defects" => types[r] = DefectTypes
          /\ r[1] \in {"policies", "documents"} => types[r] = PaperTypes
      BY <1>1 DEF RegisterTypes
    <3>5. PICK row : row = rows[r]
      OBVIOUS
    <3> QED BY <3>2, <3>3, <3>4, <3>5, RegisterRowsAre DEF RegisterRows, Papers
  <2> QED BY <2>1 DEF RegisterTypeOK
<1>6. CategoriesAreTrees
  BY <1>2, <1>3, RegisterAsks DEF StaySound, LiveOf, Live, There, Trees, Upward, Above,
     CategoriesAreTrees
<1>7. OneOwnerOnePhoto
  <2>1. ASSUME NEW name, name \notin RegisterTables[desk] PROVE Live(name) = {}
    BY <1>3, <1>4, <2>1 DEF Live
  <2>2. \A o, q \in OpenOwners : o = q
    BY <1>1, <1>3, OneAsks, <2>1 DEF RegisterInv, StayAlone, OwnedOnce, OpenOwners, LiveOf,
       Live, There, RegisterTables
  <2>3. \A p, q \in Live("photos") :
            rows[p].primary => rows[p].active /\ (rows[q].primary => p = q)
    BY <1>1, <1>3, OneAsks, <2>1 DEF RegisterInv, StayAlone, ShownOnce, LiveOf, Live, There,
       RegisterTables
  <2>4. Cardinality(OpenOwners) <= 1
    BY <2>2, OneAtMost
  <2> QED BY <2>3, <2>4 DEF OneOwnerOnePhoto
<1> QED BY <1>5, <1>6, <1>7

-----------------------------------------------------------------------------
(* What is drilled and charged for it. *)

HoleTypes ==
    [there |-> {TRUE}, site |-> Sites, target |-> Depths \cup {NoDepth},
     final |-> Depths \cup {NoDepth}, status |-> HoleStatuses]
ReportTypes ==
    [there |-> {TRUE}, site |-> Sites, hole |-> {NoRef} \cup Table("holes"),
     to |-> Depths \cup {NoDepth}, status |-> ShiftReportStatuses, corrected |-> BOOLEAN]
ContractTypes == [there |-> {TRUE}, status |-> ContractStatuses, mobilization |-> BOOLEAN]
RevenueTypes ==
    [there |-> {TRUE}, report |-> Table("reports"), contract |-> Table("contracts"),
     kind |-> {"METERAGE", "MOBILIZATION"}, metres |-> Depths \cup {NoDepth}]
ProgramTypes == [there |-> {TRUE}, status |-> ProgramStatuses]

DrillingTypes ==
    [r \in DOMAIN rows |->
        IF r[1] = "holes" THEN HoleTypes
        ELSE IF r[1] = "reports" THEN ReportTypes
        ELSE IF r[1] = "contracts" THEN ContractTypes
        ELSE IF r[1] = "revenue" THEN RevenueTypes
        ELSE ProgramTypes]

\* Their columns.
LEMMA HoleColumns ==
    /\ DOMAIN HoleTypes = {"there", "site", "target", "final", "status"}
    /\ HoleTypes.there = {TRUE} /\ HoleTypes.site = Sites
    /\ HoleTypes.target = Depths \cup {NoDepth} /\ HoleTypes.final = Depths \cup {NoDepth}
    /\ HoleTypes.status = HoleStatuses
  BY DEF HoleTypes

LEMMA ReportColumns ==
    /\ DOMAIN ReportTypes = {"there", "site", "hole", "to", "status", "corrected"}
    /\ ReportTypes.there = {TRUE} /\ ReportTypes.site = Sites
    /\ ReportTypes.hole = {NoRef} \cup Table("holes")
    /\ ReportTypes.to = Depths \cup {NoDepth} /\ ReportTypes.status = ShiftReportStatuses
    /\ ReportTypes.corrected = BOOLEAN
  BY DEF ReportTypes

LEMMA ContractColumns ==
    /\ DOMAIN ContractTypes = {"there", "status", "mobilization"}
    /\ ContractTypes.there = {TRUE} /\ ContractTypes.status = ContractStatuses
    /\ ContractTypes.mobilization = BOOLEAN
  BY DEF ContractTypes

LEMMA RevenueColumns ==
    /\ DOMAIN RevenueTypes = {"there", "report", "contract", "kind", "metres"}
    /\ RevenueTypes.there = {TRUE} /\ RevenueTypes.report = Table("reports")
    /\ RevenueTypes.contract = Table("contracts")
    /\ RevenueTypes.kind = {"METERAGE", "MOBILIZATION"}
    /\ RevenueTypes.metres = Depths \cup {NoDepth}
  BY DEF RevenueTypes

LEMMA ProgramColumns ==
    /\ DOMAIN ProgramTypes = {"there", "status"}
    /\ ProgramTypes.there = {TRUE} /\ ProgramTypes.status = ProgramStatuses
  BY DEF ProgramTypes

\* Every table says that its rows are there,
LEMMA DrillingThere ==
    ASSUME NEW r \in DOMAIN rows
    PROVE  "there" \in DOMAIN DrillingTypes[r] /\ DrillingTypes[r].there = {TRUE}
  BY HoleColumns, ReportColumns, ContractColumns, RevenueColumns, ProgramColumns DEF
     DrillingTypes

\* and has its types.
LEMMA DrillingTyping ==
    ASSUME NEW types, types = DrillingTypes
    PROVE  /\ \A r \in Table("holes") : types[r] = HoleTypes
           /\ \A r \in Table("reports") : types[r] = ReportTypes
           /\ \A r \in Table("contracts") : types[r] = ContractTypes
           /\ \A r \in Table("revenue") : types[r] = RevenueTypes
           /\ \A r \in Table("programs") : types[r] = ProgramTypes
  BY DEF Table, DrillingTypes

\* Intervals at the site of their hole; mobilization charged once to a contract.
Sited(tab) ==
    \A r \in LiveOf(tab, "reports") :
        tab[r].hole # NoRef => /\ tab[r].hole \in Table("holes") /\ tab[tab[r].hole].there
                               /\ tab[tab[r].hole].site = tab[r].site

MobilizedOnce(tab) ==
    \A v, w \in LiveOf(tab, "revenue") :
        /\ tab[v].kind = "MOBILIZATION" /\ tab[w].kind = "MOBILIZATION"
        /\ tab[v].contract = tab[w].contract
        => v = w

DrillingSound == {tab \in Tables(DrillingTypes) : Sited(tab) /\ MobilizedOnce(tab)}

\* At a desk of drilling, rows and writes are typed and sound.
DrillingFits(types, sound) ==
    /\ Shape /\ desk \in DOMAIN DrillingTables /\ DOMAIN rows = DrillingIds
    /\ types = DrillingTypes /\ sound = DrillingSound
    /\ Typed(types) /\ StaySound(sound)
    /\ desk # "programs" => DrillInv

LEMMA DrillingHas ==
    ASSUME NEW types, NEW sound, DrillingFits(types, sound)
    PROVE  /\ Shape /\ Typed(types) /\ types = DrillingTypes /\ desk \in DOMAIN DrillingTables
           /\ \A name : \A r \in Table(name) : r \in DOMAIN rows /\ r[2] \in Nat /\ r[1] = name
           /\ \A name : Live(name) \subseteq Table(name) /\ Table(name) \subseteq DOMAIN rows
           /\ \A r \in DOMAIN rows : r[1] \in DrillingTables[desk]
  BY RowStoreAssumption DEF DrillingFits, DrillingIds, DrillingTables, RowStoreAssumption,
     DrillingNumbers, Live, Table

LEMMA DrillingRow ==
    ASSUME NEW types, NEW sound, DrillingFits(types, sound), NEW name, NEW r \in Live(name)
    PROVE  /\ r \in Table(name) /\ r \in DOMAIN rows /\ There(r) /\ rows[r].there
           /\ IsRow(rows[r], types[r])
<1>1. r \in Table(name) /\ r \in DOMAIN rows /\ There(r) /\ rows[r].there
  BY DEF Live, Table, There
<1>2. rows[r] # Absent
  BY <1>1 DEF There, Absent
<1> QED BY <1>1, <1>2 DEF DrillingFits, Typed

LEMMA DrillingAsks ==
    ASSUME NEW types, NEW sound, DrillingFits(types, sound), NEW tab, IsTable(tab, types)
    PROVE  tab \in sound <=> Sited(tab) /\ MobilizedOnce(tab)
  BY TablesAre DEF DrillingFits, DrillingSound

\* Intervals are where they were, or come to a hole at their site; a hole that moves has
\* none.
LEMMA SitedStays ==
    ASSUME Sited(rows), NEW now,
           \A h \in Table("holes") : rows[h].there =>
              /\ now[h].there
              /\ \/ now[h].site = rows[h].site
                 \/ \A r \in Table("reports") : now[r].there => now[r].hole # h,
           \A r \in Table("reports") : now[r].there /\ now[r].hole # NoRef =>
              \/ rows[r].there /\ now[r].hole = rows[r].hole /\ now[r].site = rows[r].site
              \/ /\ now[r].hole \in Table("holes") /\ rows[now[r].hole].there
                 /\ rows[now[r].hole].site = now[r].site
    PROVE  Sited(now)
  BY DEF LiveOf, Sited

\* A handler that charges nothing is sound if intervals are.
LEMMA DrillingLays ==
    ASSUME NEW types, NEW sound, DrillingFits(types, sound), NEW writes,
           \A x \in DOMAIN writes : x \notin Table("revenue"),
           \A now : Sited(rows) /\ IsTable(now, types) /\ Laid(rows, now, writes) => Sited(now)
    PROVE  LaysSound(writes, types, sound)
  BY DrillingHas, DrillingAsks, TypedTables DEF Laid, MobilizedOnce, LiveOf, LaysSound

\* A handler that sets some columns of a row other than a charge,
LEMMA DrillingSets ==
    ASSUME NEW types, NEW sound, DrillingFits(types, sound), NEW s \in Sessions,
           NEW r \in DOMAIN rows, r \notin Table("revenue"), NEW cols, MayWrite(cols, types[r]),
           NEW locked, locked \subseteq DOMAIN rows \cup Advisory,
           StageLocked(s, locked, Set(r, cols)),
           \A now : Sited(rows) /\ IsTable(now, types) /\ Laid(rows, now, Set(r, cols)) => Sited(now)
    PROVE  WritesSound(s, types, sound)
  BY ProperSet, DrillingLays DEF Set, WritesSound

\* and one that inserts one.
LEMMA DrillingInserts ==
    ASSUME NEW types, NEW sound, DrillingFits(types, sound), NEW s \in Sessions,
           NEW name, name # "revenue", Spare(name) # {}, NEW ty, \A r \in Table(name) : types[r] = ty,
           NEW given, DOMAIN ty = {"there"} \cup DOMAIN given,
           \A c \in DOMAIN given \ {"there"} : given[c] \in ty[c],
           NEW locked, locked \subseteq DOMAIN rows \cup Advisory,
           StageLocked(s, locked, Insert(name, given)),
           \A now : Sited(rows) /\ IsTable(now, types) /\ Laid(rows, now, Insert(name, given))
                        => Sited(now)
    PROVE  WritesSound(s, types, sound)
<1>1. PICK writes : writes = Insert(name, given)
  OBVIOUS
<1>2. /\ Typed(types) /\ \A r \in Table(name) : r[2] \in Nat /\ r[1] = name
      /\ \A r \in Table("revenue") : r[1] = "revenue"
  BY DrillingHas
<1>3. Proper(writes, types)
  BY <1>1, <1>2, ProperInsert
<1>4. NewRow(name) \in Table(name)
  BY <1>2, NewRowIsSpare
<1>5. \A x \in DOMAIN writes : x \notin Table("revenue")
  BY <1>1, <1>2, <1>4, InsertIs
<1>6. \A now : Sited(rows) /\ IsTable(now, types) /\ Laid(rows, now, writes) => Sited(now)
  BY <1>1
<1>7. LaysSound(writes, types, sound)
  BY <1>5, <1>6, DrillingLays
<1> QED BY <1>1, <1>3, <1>7 DEF WritesSound

\* Holes and intervals that stay as they are.
LEMMA SitedKept ==
    ASSUME Sited(rows), NEW now, \A x \in Table("holes") \cup Table("reports") : now[x] = rows[x]
    PROVE  Sited(now)
  BY DEF LiveOf, Sited

\* A program is made, or changes.
LEMMA ProgramWrites ==
    ASSUME NEW types, NEW sound, DrillingFits(types, sound), NEW s \in Sessions,
           desk = "programs", ProgramStep(s)
    PROVE  WritesSound(s, types, sound)
  BY DrillingHas, DrillingTyping, ProgramColumns, DrillingInserts, MaySet, DrillingSets DEF
     DrillingTables, Sited, LiveOf, ProgramStatuses, Stage, ProgramStep

\* Contracts and their cards.
LEMMA ContractWrites ==
    ASSUME NEW types, NEW sound, DrillingFits(types, sound), NEW s \in Sessions, ContractStep(s)
    PROVE  WritesSound(s, types, sound)
<1>1. /\ Typed(types) /\ types = DrillingTypes /\ Shape
      /\ \A name : \A r \in Table(name) : r \in DOMAIN rows /\ r[2] \in Nat /\ r[1] = name
      /\ Live("contracts") \subseteq Table("contracts")
  BY DrillingHas
<1>2. \A r \in Table("contracts") : types[r] = ContractTypes
  BY <1>1, DrillingTyping
<1>3. {} \subseteq DOMAIN rows \cup Advisory
  OBVIOUS
<1>4. CASE ContractCreate(s)
  BY <1>4, ContractColumns, <1>1, InsertLaid, SitedKept, <1>2, <1>3, DrillingInserts DEF
     ContractCreate, Stage, ContractStatuses
<1>5. CASE ContractUpdate(s) \/ ContractDelete(s) \/ AddRateCard(s)
  <2>1. PICK c, cols :
            /\ c \in Live("contracts") /\ StageLocked(s, {}, Set(c, cols))
            /\ \/ DOMAIN cols = {"status"} /\ cols.status \in ContractStatuses
               \/ DOMAIN cols = {"mobilization"} /\ cols.mobilization \in BOOLEAN
               \/ cols = Absent
    <3>1. CASE ContractUpdate(s)
      BY <3>1 DEF ContractUpdate, Stage
    <3>2. CASE ContractDelete(s)
      BY <3>2 DEF ContractDelete, Stage
    <3>3. CASE AddRateCard(s)
      <4>1. PICK c \in Live("contracts") : StageLocked(s, {}, Set(c, [mobilization |-> TRUE]))
        BY <3>3 DEF AddRateCard, Stage
      <4>2. PICK cols : cols = [mobilization |-> TRUE]
        OBVIOUS
      <4>3. DOMAIN cols = {"mobilization"} /\ cols.mobilization \in BOOLEAN
        BY <4>2
      <4> QED BY <4>1, <4>2, <4>3
    <3> QED BY <1>5, <3>1, <3>2, <3>3
  <2>2. c \in DOMAIN rows /\ types[c] = ContractTypes /\ c[1] = "contracts" /\ c \notin Table("revenue")
    BY <1>1, <1>2, <2>1
  <2>3. MayWrite(cols, types[c])
    BY MayDelete, <2>1, <2>2, ContractColumns, MaySet
  <2>4. ASSUME Sited(rows), NEW now, Laid(rows, now, Set(c, cols))
        PROVE  Sited(now)
    BY <2>4, <1>1, <2>2, SitedKept DEF Laid, Set
  <2> QED BY <1>3, <2>1, <2>2, <2>3, <2>4, DrillingSets
<1> QED BY <1>4, <1>5 DEF ContractStep

\* A hole is made.
LEMMA HoleCreateWrites ==
    ASSUME NEW types, NEW sound, DrillingFits(types, sound), NEW s \in Sessions, HoleCreate(s)
    PROVE  WritesSound(s, types, sound)
  BY DrillingHas, DrillingTyping, HoleColumns, InsertLaid, DrillingInserts DEF HoleCreate,
     Stage, HoleStatuses, Targets, Sited, LiveOf

\* A hole that moves has no intervals.
LEMMA HoleUpdateWrites ==
    ASSUME NEW types, NEW sound, DrillingFits(types, sound), NEW s \in Sessions, HoleUpdate(s)
    PROVE  WritesSound(s, types, sound)
<1>1. /\ Shape /\ types = DrillingTypes
      /\ \A name : \A r \in Table(name) : r \in DOMAIN rows /\ r[2] \in Nat /\ r[1] = name
  BY DrillingHas
<1>2. PICK h \in Live("holes"), cols \in [site : Sites] \cup [target : Targets] :
          /\ "site" \in DOMAIN cols /\ cols.site # rows[h].site => IntervalsOf(h) = {}
          /\ StageLocked(s, {}, Set(h, cols))
  BY DEF HoleUpdate, Stage
<1>3. h \in Table("holes") /\ h \in DOMAIN rows /\ rows[h].there /\ IsRow(rows[h], types[h])
  BY DrillingRow
<1>4. types[h] = HoleTypes /\ h \notin Table("revenue") /\ h \notin Table("reports")
  BY <1>1, <1>3, DrillingTyping
<1>5. \/ DOMAIN cols = {"site"} /\ cols.site \in Sites
      \/ DOMAIN cols = {"target"} /\ cols.target \in Targets
  OBVIOUS
<1>6. MayWrite(cols, types[h])
  BY <1>4, <1>5, HoleColumns, MaySet DEF Targets
<1>7. ASSUME Sited(rows), NEW now, Laid(rows, now, Set(h, cols))
      PROVE  Sited(now)
  <2>1. \A x \in DOMAIN rows : x # h => now[x] = rows[x]
    BY <1>7 DEF Laid, Set
  <2>2. /\ now[h].there
        /\ "site" \in DOMAIN cols => now[h].site = cols.site
        /\ "site" \notin DOMAIN cols => now[h].site = rows[h].site
    BY <1>3, <1>7, <1>4, <1>5, HoleColumns DEF Laid, Set, IsRow, LaidRow
  <2>3. ASSUME now[h].site # rows[h].site, NEW r \in Table("reports"), now[r].there, now[r].hole = h
        PROVE  FALSE
    BY <1>2, <2>2, <2>3, <1>1, <1>4, <2>1 DEF IntervalsOf, Live, There
  <2>4. \A g \in Table("holes") : rows[g].there =>
            /\ now[g].there
            /\ \/ now[g].site = rows[g].site
               \/ \A r \in Table("reports") : now[r].there => now[r].hole # g
    BY <1>1, <2>1, <2>2, <2>3
  <2>5. \A r \in Table("reports") : now[r] = rows[r]
    BY <1>1, <1>4, <2>1
  <2>6. \A r \in Table("reports") : now[r].there /\ now[r].hole # NoRef =>
            \/ rows[r].there /\ now[r].hole = rows[r].hole /\ now[r].site = rows[r].site
            \/ /\ now[r].hole \in Table("holes") /\ rows[now[r].hole].there
               /\ rows[now[r].hole].site = now[r].site
    BY <2>5
  <2> QED BY <1>7, <2>4, <2>6, SitedStays
<1>8. {} \subseteq DOMAIN rows \cup Advisory
  OBVIOUS
<1> QED BY <1>2, <1>3, <1>4, <1>6, <1>7, <1>8, DrillingSets

\* One report is saved: as it was, with an interval at the site of its hole, or not there.
LEMMA ReportSited ==
    ASSUME Sited(rows), \A x \in Table("holes") : x \in DOMAIN rows,
           \A x \in Table("reports") : x \in DOMAIN rows /\ x \notin Table("holes"),
           NEW r \in Table("reports"), NEW now, \A x \in DOMAIN rows : x # r => now[x] = rows[x],
           now[r].there /\ now[r].hole # NoRef =>
              \/ rows[r].there /\ now[r].hole = rows[r].hole /\ now[r].site = rows[r].site
              \/ /\ now[r].hole \in Table("holes") /\ rows[now[r].hole].there
                 /\ rows[now[r].hole].site = now[r].site
    PROVE  Sited(now)
  BY SitedStays

\* What a report is created with.
LEMMA BodiesAre ==
    ASSUME NEW body \in ReportBodies
    PROVE  /\ DOMAIN body = {"site", "hole", "to", "status"}
           /\ body.site \in Sites /\ body.hole \in {NoRef} \cup Table("holes")
           /\ body.to \in Depths \cup {NoDepth} /\ body.status \in ShiftReportStatuses
<1>1. CASE desk = "shifts"
  <2>1. PICK i \in Intervals, site \in Sites : body = Over(i, [site |-> site, status |-> "DRAFT"])
    BY <1>1 DEF ReportBodies
  <2>2. /\ DOMAIN i = {"hole", "to"} /\ i.hole \in {NoRef} \cup Table("holes")
        /\ i.to \in Depths \cup {NoDepth}
    BY DEF Intervals
  <2>3. /\ DOMAIN body = {"hole", "to"} \cup {"site", "status"}
        /\ body.hole = i.hole /\ body.to = i.to /\ body.site = site /\ body.status = "DRAFT"
    BY <2>1, <2>2 DEF Over
  <2> QED BY <2>2, <2>3 DEF ShiftReportStatuses
<1>2. CASE desk # "shifts"
  BY <1>2, DepthsAssumption DEF ReportBodies, DeepestOf, ShiftReportStatuses
<1> QED BY <1>1, <1>2

\* An interval that is valid is at the site of its hole.
LEMMA ValidSite ==
    ASSUME NEW body, NEW self, ValidInterval(body, self), body.hole # NoRef
    PROVE  rows[body.hole].there /\ rows[body.hole].site = body.site
  BY DEF ValidInterval

\* A report is created.
LEMMA ShiftCreateWrites ==
    ASSUME NEW types, NEW sound, DrillingFits(types, sound), NEW s \in Sessions, ShiftCreate(s)
    PROVE  WritesSound(s, types, sound)
<1>1. /\ Shape /\ types = DrillingTypes
      /\ \A name : \A r \in Table(name) : r \in DOMAIN rows /\ r[2] \in Nat /\ r[1] = name
  BY DrillingHas
<1>2. \A r \in Table("reports") : types[r] = ReportTypes
  BY <1>1, DrillingTyping
<1>3. PICK body \in ReportBodies :
          /\ Spare("reports") # {} /\ ValidInterval(body, {})
          /\ StageLocked(s, HoleLock(body), Insert("reports", Over([corrected |-> FALSE], body)))
  BY DEF ShiftCreate
<1>4. PICK mark : mark = [corrected |-> FALSE]
  OBVIOUS
<1>5. PICK given : given = Over(mark, body)
  OBVIOUS
<1>6. /\ DOMAIN body = {"site", "hole", "to", "status"}
      /\ body.site \in Sites /\ body.hole \in {NoRef} \cup Table("holes")
      /\ body.to \in Depths \cup {NoDepth} /\ body.status \in ShiftReportStatuses
  BY BodiesAre
<1>7. /\ DOMAIN given = {"corrected", "site", "hole", "to", "status"}
      /\ given.corrected = FALSE /\ given.site = body.site /\ given.hole = body.hole
      /\ given.to = body.to /\ given.status = body.status
  BY <1>4, <1>5, <1>6 DEF Over
<1>8. /\ DOMAIN ReportTypes = {"there"} \cup DOMAIN given
      /\ \A c \in DOMAIN given \ {"there"} : given[c] \in ReportTypes[c]
  BY <1>6, <1>7, ReportColumns
<1>9. ASSUME Sited(rows), NEW now, Laid(rows, now, Insert("reports", given))
      PROVE  Sited(now)
  BY <1>1, <1>3, <1>9, InsertLaid, <1>7, <1>6, ValidSite, ReportSited
<1>10. HoleLock(body) \subseteq DOMAIN rows \cup Advisory
  BY <1>1, <1>6 DEF HoleLock
<1> QED BY <1>2, <1>3, <1>4, <1>5, <1>8, <1>9, <1>10, DrillingInserts

\* A report that is changed is typed, and its interval is at the site of its hole.
LEMMA ReportSets ==
    ASSUME NEW types, NEW sound, DrillingFits(types, sound), NEW s \in Sessions,
           NEW r \in Live("reports"), NEW cols, MayWrite(cols, ReportTypes),
           NEW locked, locked \subseteq {r} \cup Table("holes"),
           StageLocked(s, locked, Set(r, cols)),
           \A new : LaidRow(new, cols, rows[r]) /\ IsRow(new, ReportTypes) /\ new.hole # NoRef =>
              \/ new.hole = rows[r].hole /\ new.site = rows[r].site
              \/ rows[new.hole].there /\ rows[new.hole].site = new.site
    PROVE  WritesSound(s, types, sound)
<1>1. /\ Shape /\ types = DrillingTypes
      /\ \A name : \A x \in Table(name) : x \in DOMAIN rows /\ x[2] \in Nat /\ x[1] = name
  BY DrillingHas
<1>2. r \in Table("reports") /\ r \in DOMAIN rows /\ rows[r].there
  BY DrillingRow
<1>3. types[r] = ReportTypes /\ r \notin Table("revenue")
  BY <1>1, <1>2, DrillingTyping
<1>4. locked \subseteq DOMAIN rows \cup Advisory
  BY <1>1, <1>2
<1>5. ASSUME Sited(rows), NEW now, IsTable(now, types), Laid(rows, now, Set(r, cols))
      PROVE  Sited(now)
  BY <1>2, <1>5, <1>3, ReportColumns, <1>1, ReportSited DEF Laid, Set, Absent, IsTable,
     IsRow
<1> QED BY <1>2, <1>3, <1>4, <1>5, DrillingSets

\* An edit.
LEMMA SaveShiftWrites ==
    ASSUME NEW types, NEW sound, DrillingFits(types, sound), NEW s \in Sessions,
           NEW r \in Live("reports"), NEW body \in ReportChanges(r), NEW mark,
           mark = [corrected |-> TRUE] \/ DOMAIN mark = {}, SaveShift(s, r, body, mark)
    PROVE  WritesSound(s, types, sound)
<1>1. /\ \A x \in Table("reports") : types[x] = ReportTypes
      /\ r \in Table("reports") /\ IsRow(rows[r], types[r])
  BY DrillingHas, DrillingRow, DrillingTyping
<1>2. /\ DOMAIN body \subseteq {"site", "hole", "to"}
      /\ "site" \in DOMAIN body => body.site \in Sites
      /\ "hole" \in DOMAIN body => body.hole \in {NoRef} \cup Table("holes")
      /\ "to" \in DOMAIN body => body.to \in Depths \cup {NoDepth}
  BY DEF ReportChanges, Intervals
<1>3. PICK row : row = Over(body, rows[r])
  OBVIOUS
<1>4. PICK cols : cols = Over(mark, body)
  OBVIOUS
<1>5. ValidInterval(row, {r}) /\ StageLocked(s, {r} \cup HoleLock(row), Set(r, cols))
  BY <1>3, <1>4 DEF SaveShift
<1>6. DOMAIN rows[r] = DOMAIN ReportTypes /\ \A c \in DOMAIN ReportTypes : rows[r][c] \in ReportTypes[c]
  BY <1>1 DEF IsRow
<1>7. /\ row.site = IF "site" \in DOMAIN body THEN body.site ELSE rows[r].site
      /\ row.hole = IF "hole" \in DOMAIN body THEN body.hole ELSE rows[r].hole
  BY <1>2, <1>3, <1>6, ReportColumns DEF Over
<1>8. /\ DOMAIN cols \subseteq DOMAIN body \cup {"corrected"} /\ DOMAIN body \subseteq DOMAIN cols
      /\ \A c \in DOMAIN body : cols[c] = body[c]
      /\ "corrected" \in DOMAIN cols => cols.corrected = TRUE
  BY <1>2, <1>4 DEF Over
<1>9. MayWrite(cols, ReportTypes)
  <2>1. DOMAIN cols \subseteq DOMAIN ReportTypes \ {"there"}
    BY <1>2, <1>8, ReportColumns
  <2>2. ASSUME NEW c \in DOMAIN cols PROVE cols[c] \in ReportTypes[c]
    <3>1. c \in DOMAIN body \/ c = "corrected"
      BY <1>8
    <3>2. c \in DOMAIN body => c \in {"site", "hole", "to"} /\ cols[c] = body[c]
      BY <1>2, <1>8
    <3>3. c = "corrected" => cols[c] \in ReportTypes[c]
      BY <1>8, ReportColumns
    <3>4. c \in DOMAIN body => body[c] \in ReportTypes[c]
      BY <1>2, ReportColumns
    <3> QED BY <3>1, <3>2, <3>3, <3>4
  <2> QED BY <2>1, <2>2, MaySet
<1>10. {r} \cup HoleLock(row) \subseteq {r} \cup Table("holes")
  BY <1>2, <1>6, <1>7, ReportColumns DEF HoleLock
<1>11. ASSUME NEW new, LaidRow(new, cols, rows[r]), IsRow(new, ReportTypes), new.hole # NoRef
       PROVE  rows[new.hole].there /\ rows[new.hole].site = new.site
  <2>1. "there" \in DOMAIN rows[r] /\ rows[r].there /\ "there" \notin DOMAIN cols
    <3>1. "there" \in DOMAIN ReportTypes /\ ReportTypes.there = {TRUE}
      BY ReportColumns
    <3>2. "there" \in DOMAIN rows[r] /\ rows[r].there = TRUE
      BY <1>6, <3>1
    <3>3. "there" \notin DOMAIN cols
      BY <1>2, <1>8
    <3> QED BY <3>2, <3>3
  <2>2. /\ \A c \in DOMAIN cols : new[c] = cols[c]
        /\ \A c \in DOMAIN rows[r] \ DOMAIN cols : new[c] = rows[r][c]
    BY <1>11, <2>1 DEF LaidRow
  <2>3. new.site = row.site /\ new.hole = row.hole
    BY <1>6, ReportColumns, <1>8, <2>2, <1>7
  <2>4. row.hole # NoRef
    BY <1>11, <2>3
  <2>5. rows[row.hole].there /\ rows[row.hole].site = row.site
    BY <1>5, <2>4, ValidSite
  <2> QED BY <2>3, <2>5
<1> QED BY <1>5, <1>9, <1>10, <1>11, ReportSets

LEMMA EditWrites ==
    ASSUME NEW types, NEW sound, DrillingFits(types, sound), NEW s \in Sessions,
           ShiftUpdate(s) \/ FieldShiftUpdate(s)
    PROVE  WritesSound(s, types, sound)
  BY SaveShiftWrites DEF ShiftUpdate, FieldShiftUpdate

\* A report that is submitted, returned or deleted keeps its interval, or has none.
LEMMA StatusWrites ==
    ASSUME NEW types, NEW sound, DrillingFits(types, sound), NEW s \in Sessions,
           ShiftSubmit(s) \/ ShiftReturn(s) \/ ShiftDelete(s)
    PROVE  WritesSound(s, types, sound)
<1>1. PICK r, cols :
          /\ r \in Live("reports") /\ StageLocked(s, {r}, Set(r, cols))
          /\ \/ DOMAIN cols = {"status"} /\ cols.status \in ShiftReportStatuses
             \/ cols = Absent
  <2>1. CASE ShiftSubmit(s) \/ ShiftReturn(s)
    <3>1. PICK r \in Live("reports"), to \in ShiftReportStatuses :
              StageLocked(s, {r}, Set(r, [status |-> to]))
      BY <2>1 DEF ShiftSubmit, ShiftReturn, SetStatus, ShiftReportStatuses
    <3>2. PICK cols : cols = [status |-> to]
      OBVIOUS
    <3>3. DOMAIN cols = {"status"} /\ cols.status \in ShiftReportStatuses
      BY <3>2
    <3> QED BY <3>1, <3>2, <3>3
  <2>2. CASE ShiftDelete(s)
    BY <2>2 DEF ShiftDelete
  <2> QED BY <2>1, <2>2
<1>2. /\ \A x \in Table("reports") : types[x] = ReportTypes
      /\ r \in Table("reports") /\ IsRow(rows[r], types[r])
  BY <1>1, DrillingHas, DrillingRow, DrillingTyping
<1>3. MayWrite(cols, ReportTypes)
  BY MayDelete, <1>1, ReportColumns, MaySet
<1>4. ASSUME NEW new, LaidRow(new, cols, rows[r]), IsRow(new, ReportTypes)
      PROVE  new.hole = rows[r].hole /\ new.site = rows[r].site
  BY <1>2, <1>4, ReportColumns, <1>1 DEF IsRow, Absent, LaidRow
<1>5. {r} \subseteq {r} \cup Table("holes")
  OBVIOUS
<1> QED BY <1>1, <1>3, <1>4, <1>5, ReportSets

\* What a line charges: a contract, by the metres of its report or, unless it was charged
\* for it, for its mobilization.
Fee(line) ==
    /\ line.contract \in Table("contracts") /\ line.kind \in {"METERAGE", "MOBILIZATION"}
    /\ line.metres \in Depths \cup {NoDepth}
    /\ line.kind = "MOBILIZATION" =>
          \A w \in Charges("MOBILIZATION") : rows[w].contract # line.contract

LEMMA FeesAre ==
    ASSUME NEW types, NEW sound, DrillingFits(types, sound), desk # "programs",
           NEW r \in Live("reports"), rows[r].status # "APPROVED"
    PROVE  \A v \in DOMAIN PostRevenue(r) : Fee(PostRevenue(r)[v])
<1>0. DrillInv /\ rows[r].to \in Depths \cup {NoDepth}
  <2>1. /\ \A x \in Table("reports") : types[x] = ReportTypes
        /\ r \in Table("reports") /\ IsRow(rows[r], types[r])
    BY DrillingHas, DrillingRow, DrillingTyping
  <2> QED BY <2>1, ReportColumns DEF IsRow, DrillingFits
<1>1. CASE ActiveContracts = {}
  BY <1>1 DEF PostRevenue
<1>2. CASE ActiveContracts # {}
  <2> DEFINE c == CHOOSE c \in ActiveContracts : TRUE
             old == {v \in Live("revenue") : rows[v].report = r}
             line(kind, metres) == [there |-> TRUE, report |-> r, contract |-> c,
                                    kind |-> kind, metres |-> metres]
             charged == \E v \in Charges("MOBILIZATION") \ old : rows[v].contract = c
             lines == (IF rows[r].hole = NoRef THEN {} ELSE {line("METERAGE", rows[r].to)})
                      \cup (IF rows[c].mobilization /\ ~charged
                            THEN {line("MOBILIZATION", NoDepth)} ELSE {})
             place(l) == Place(r, l.kind)
             new == [v \in {place(l) : l \in lines} |-> CHOOSE l \in lines : place(l) = v]
  <2>1. PostRevenue(r) = Over(new, SetAll(old, Absent))
    BY <1>2 DEF PostRevenue
  <2>2. old = {}
    BY <1>0 DEF DrillInv, Charged
  <2>3. c \in Table("contracts")
    BY <1>2 DEF ActiveContracts, Live
  <2>4. \A l \in lines : \/ l = line("METERAGE", rows[r].to)
                         \/ l = line("MOBILIZATION", NoDepth) /\ ~charged
    OBVIOUS
  <2>5. charged <=> \E v \in Charges("MOBILIZATION") : rows[v].contract = c
    BY <2>2
  <2> HIDE DEF c, lines, charged
  <2>6. ASSUME NEW l \in lines PROVE Fee(l)
    BY <1>0, <2>3, <2>5, <2>4 DEF Fee
  <2>7. \A v \in DOMAIN new : new[v] \in lines
    OBVIOUS
  <2> HIDE DEF new
  <2>8. DOMAIN PostRevenue(r) = DOMAIN new
        /\ \A v \in DOMAIN new : PostRevenue(r)[v] = new[v]
    <3>1. DOMAIN SetAll(old, Absent) = {}
      BY <2>2 DEF SetAll
    <3> HIDE DEF old
    <3> QED BY <2>1, <3>1 DEF Over
  <2> QED BY <2>6, <2>7, <2>8
<1> QED BY <1>1, <1>2

\* What an approval makes of the charges: mobilization stays charged once.
LEMMA MobilizationStays ==
    ASSUME NEW r, NEW post, NEW now, MobilizedOnce(rows),
           \A v \in DOMAIN post : v \in Table("revenue") /\ Line(r, v, post[v]) /\ Fee(post[v]),
           \A v \in Table("revenue") :
              \/ v \in DOMAIN post /\ \A c \in DOMAIN post[v] : now[v][c] = post[v][c]
              \/ v \notin DOMAIN post /\ now[v] = rows[v]
    PROVE  MobilizedOnce(now)
  BY DEF LiveOf, Line, Fee, Charges, Live, There, MobilizedOnce

\* What an approval writes: the report, its hole and what it charges.
Approves(s, r, cols, status, hole, post, writes) ==
    /\ r \in Live("reports") /\ status = [status |-> "APPROVED"]
    /\ DOMAIN cols \subseteq {"final", "status"} /\ MayWrite(cols, HoleTypes)
    /\ hole = IF rows[r].hole = NoRef THEN <<>> ELSE Set(rows[r].hole, cols)
    /\ \A v \in DOMAIN post : v \in Table("revenue") /\ Line(r, v, post[v]) /\ Fee(post[v])
    /\ writes = Over(Set(r, status), Over(hole, post))
    /\ StageLocked(s, {r}, writes)

\* What an approval writes.
LEMMA ApprovalIs ==
    ASSUME NEW types, NEW sound, DrillingFits(types, sound), NEW s \in Sessions,
           desk # "programs", ShiftApprove(s)
    PROVE  \E r, cols, status, hole, post, writes :
              Approves(s, r, cols, status, hole, post, writes)
<1>1. PICK r, deeper, started :
          /\ r \in Live("reports") /\ rows[r].status # "APPROVED"
          /\ deeper = IF rows[r].to > rows[rows[r].hole].final THEN [final |-> rows[r].to] ELSE <<>>
          /\ started = IF rows[rows[r].hole].status = "PLANNED"
                       THEN [status |-> "IN_PROGRESS"] ELSE <<>>
          /\ StageLocked(s, {r}, Over(Set(r, [status |-> "APPROVED"]),
                 Over(IF rows[r].hole = NoRef THEN <<>> ELSE Set(rows[r].hole, Over(deeper, started)),
                      PostRevenue(r))))
  BY DEF ShiftApprove
<1>2. PICK cols, post, status : /\ cols = Over(deeper, started) /\ post = PostRevenue(r)
                                /\ status = [status |-> "APPROVED"]
  OBVIOUS
<1>3. PICK hole : hole = IF rows[r].hole = NoRef THEN <<>> ELSE Set(rows[r].hole, cols)
  OBVIOUS
<1>4. PICK writes : writes = Over(Set(r, status), Over(hole, post))
  OBVIOUS
<1>5. StageLocked(s, {r}, writes)
  BY <1>1, <1>2, <1>3, <1>4
<1>6. rows[r].to \in Depths \cup {NoDepth}
  <2>1. /\ \A x \in Table("reports") : types[x] = ReportTypes
        /\ r \in Table("reports") /\ IsRow(rows[r], types[r])
    BY <1>1, DrillingHas, DrillingRow, DrillingTyping
  <2> QED BY <2>1, ReportColumns DEF IsRow
<1>7. /\ DOMAIN cols \subseteq {"final", "status"}
      /\ "final" \in DOMAIN cols => cols.final = rows[r].to
      /\ "status" \in DOMAIN cols => cols.status = "IN_PROGRESS"
  <2>1. /\ DOMAIN deeper \subseteq {"final"}
        /\ "final" \in DOMAIN deeper => deeper.final = rows[r].to
    BY <1>1
  <2>2. /\ DOMAIN started \subseteq {"status"}
        /\ "status" \in DOMAIN started => started.status = "IN_PROGRESS"
    BY <1>1
  <2> QED BY <1>2, <2>1, <2>2 DEF Over
<1>8. MayWrite(cols, HoleTypes)
  BY <1>6, <1>7, HoleColumns, MaySet DEF HoleStatuses
<1>9. \A v \in DOMAIN post : /\ v \in Table("revenue")
                             /\ Line(r, v, post[v]) /\ Fee(post[v])
  BY <1>1, RevenueOf, FeesAre, <1>2 DEF DrillingFits
<1> QED BY <1>1, <1>2, <1>3, <1>4, <1>5, <1>7, <1>8, <1>9 DEF Approves

\* An approval.
LEMMA ApproveWrites ==
    ASSUME NEW types, NEW sound, DrillingFits(types, sound), NEW s \in Sessions,
           desk # "programs", ShiftApprove(s)
    PROVE  WritesSound(s, types, sound)
<1>1. /\ Shape /\ types = DrillingTypes
      /\ \A name : \A x \in Table(name) : x \in DOMAIN rows /\ x[2] \in Nat /\ x[1] = name
  BY DrillingHas
<1>0. PICK r, cols, status, hole, post, writes : Approves(s, r, cols, status, hole, post, writes)
  BY ApprovalIs
<1>2. /\ r \in Live("reports") /\ status = [status |-> "APPROVED"]
      /\ DOMAIN cols \subseteq {"final", "status"} /\ MayWrite(cols, HoleTypes)
      /\ hole = IF rows[r].hole = NoRef THEN <<>> ELSE Set(rows[r].hole, cols)
      /\ \A v \in DOMAIN post : v \in Table("revenue") /\ Line(r, v, post[v]) /\ Fee(post[v])
      /\ writes = Over(Set(r, status), Over(hole, post))
      /\ StageLocked(s, {r}, writes)
  BY <1>0 DEF Approves
<1>3. /\ r \in Table("reports") /\ r \in DOMAIN rows /\ rows[r].there
      /\ \A h \in Table("holes") : types[h] = HoleTypes
      /\ \A x \in Table("reports") : types[x] = ReportTypes
      /\ \A v \in Table("revenue") : types[v] = RevenueTypes
      /\ IsRow(rows[r], types[r])
  BY <1>1, <1>2, DrillingRow, DrillingTyping
<1>4. rows[r].hole \in {NoRef} \cup Table("holes") /\ DOMAIN rows[r] = DOMAIN ReportTypes
  BY <1>3, ReportColumns DEF IsRow
<1>5. /\ \A x \in DOMAIN hole : x \in Table("holes") /\ hole[x] = cols
      /\ Proper(hole, types)
  <2>1. CASE rows[r].hole = NoRef
    BY ProperNothing, <1>2, <2>1
  <2>2. CASE rows[r].hole # NoRef
    <3>1. PICK h : h = rows[r].hole
      OBVIOUS
    <3>2. h \in Table("holes") /\ h \in DOMAIN rows /\ hole = Set(h, cols) /\ MayWrite(cols, types[h])
      BY <1>1, <1>2, <1>3, <1>4, <2>2, <3>1
    <3>3. Proper(Set(h, cols), types)
      BY <3>2, ProperSet
    <3>4. DOMAIN Set(h, cols) = {h} /\ Set(h, cols)[h] = cols
      BY DEF Set
    <3> QED BY <3>2, <3>3, <3>4
  <2> QED BY <2>1, <2>2
<1>6. Proper(post, types)
  <2>1. ASSUME NEW v \in DOMAIN post
        PROVE  v \in DOMAIN rows /\ MayWrite(post[v], types[v])
    <3>1. PICK line : line = post[v]
      OBVIOUS
    <3>2. Line(r, v, line) /\ Fee(line) /\ v \in Table("revenue")
      BY <1>2, <3>1
    <3>3. IsRow(line, RevenueTypes)
      <4>1. /\ line = [c \in DOMAIN line |-> line[c]]
            /\ DOMAIN line = {"there", "report", "contract", "kind", "metres"}
            /\ line.there = TRUE /\ line.report = r
        BY <3>2 DEF Line
      <4>2. /\ line.contract \in Table("contracts") /\ line.kind \in {"METERAGE", "MOBILIZATION"}
            /\ line.metres \in Depths \cup {NoDepth}
        BY <3>2 DEF Fee
      <4>3. \A c \in {"there", "report", "contract", "kind", "metres"} : line[c] \in RevenueTypes[c]
        <5>1. line.there \in RevenueTypes.there /\ line.report \in RevenueTypes.report
          BY <1>3, <4>1, RevenueColumns
        <5>2. /\ line.contract \in RevenueTypes.contract /\ line.kind \in RevenueTypes.kind
              /\ line.metres \in RevenueTypes.metres
          BY <4>2, RevenueColumns
        <5> QED BY <5>1, <5>2
      <4> QED BY <4>1, <4>3, RevenueColumns DEF IsRow
    <3>4. v \in DOMAIN rows /\ types[v] = RevenueTypes
      BY <1>1, <1>3, <3>2
    <3> QED BY <3>1, <3>3, <3>4 DEF MayWrite
  <2> QED BY <2>1 DEF Proper
<1>7. DOMAIN status = {"status"} /\ status.status = "APPROVED"
  BY <1>2
<1>8. MayWrite(status, types[r])
  BY <1>3, <1>7, ReportColumns, MaySet DEF ShiftReportStatuses
<1>9. Proper(writes, types)
  BY <1>3, <1>8, ProperSet, <1>5, <1>6, ProperOver, <1>2
<1>10. /\ DOMAIN writes = {r} \cup DOMAIN hole \cup DOMAIN post
       /\ writes[r] = status
       /\ \A h \in DOMAIN hole : writes[h] = cols
       /\ \A v \in DOMAIN post : writes[v] = post[v]
  BY <1>2, <1>1, <1>3, <1>5 DEF Set, Over
<1>11. ASSUME rows \in sound, NEW now, IsTable(now, types), Laid(rows, now, writes)
       PROVE  now \in sound
  <2>1. Sited(rows) /\ MobilizedOnce(rows)
    BY <1>11, DrillingHas, DrillingAsks, TypedTables
  <2>2. now[r].there /\ now[r].hole = rows[r].hole /\ now[r].site = rows[r].site
    BY <1>3, <1>10, <1>11, <1>4, ReportColumns, <1>7 DEF Laid, LaidRow
  <2>3. \A x \in Table("reports") : x # r => now[x] = rows[x]
    BY <1>1, <1>2, <1>5, <1>10, <1>11 DEF Laid
  <2>4. ASSUME NEW h \in Table("holes"), rows[h].there
        PROVE  now[h].there /\ now[h].site = rows[h].site
    <3>1. CASE h \notin DOMAIN hole
      BY <1>1, <1>2, <1>3, <1>10, <3>1, <1>11, <2>4 DEF Laid
    <3>2. CASE h \in DOMAIN hole
      <4>1. LaidRow(now[h], cols, rows[h])
        BY <1>1, <1>10, <1>11, <2>4, <3>2 DEF Laid
      <4>2. h \in Live("holes")
        BY <1>1, <2>4 DEF Live, There
      <4>3. IsRow(rows[h], HoleTypes)
        BY <1>3, <2>4, <4>2, DrillingRow
      <4>4. "site" \in DOMAIN rows[h]
        BY <4>3, HoleColumns DEF IsRow
      <4> QED BY <1>2, <2>4, <4>1, <4>4 DEF LaidRow
    <3> QED BY <3>1, <3>2
  <2>5. \A x \in Table("reports") : now[x].there /\ now[x].hole # NoRef =>
            \/ rows[x].there /\ now[x].hole = rows[x].hole /\ now[x].site = rows[x].site
            \/ /\ now[x].hole \in Table("holes") /\ rows[now[x].hole].there
               /\ rows[now[x].hole].site = now[x].site
    BY <1>3, <2>2, <2>3
  <2>6. Sited(now)
    BY <2>1, <2>4, <2>5, SitedStays
  <2>7. ASSUME NEW v \in Table("revenue")
        PROVE  \/ v \in DOMAIN post /\ \A c \in DOMAIN post[v] : now[v][c] = post[v][c]
               \/ v \notin DOMAIN post /\ now[v] = rows[v]
    BY <1>2, <1>1, <1>10, <1>11, <1>3, <1>5 DEF Line, Laid, LaidRow
  <2>8. MobilizedOnce(now)
    BY <1>2, <2>1, <2>7, MobilizationStays
  <2> QED BY <1>11, <2>6, <2>8, DrillingAsks
<1>12. LaysSound(writes, types, sound)
  BY <1>11 DEF LaysSound
<1>13. {r} \subseteq DOMAIN rows \cup Advisory
  BY <1>3
<1> QED BY <1>2, <1>9, <1>12, <1>13 DEF WritesSound

\* What a handler of drilling writes is typed and sound.
LEMMA DrillingWrites ==
    ASSUME NEW types, NEW sound, DrillingFits(types, sound), NEW s \in Sessions, DrillingStep(s)
    PROVE  WritesSound(s, types, sound)
  BY ProgramWrites, HoleCreateWrites, HoleUpdateWrites, ContractWrites, ShiftCreateWrites,
     ApproveWrites, EditWrites, StatusWrites DEF ReportStep, DrillingStep

\* What holds at the desks of drilling.
DrillingSoundInv == DrillingFits(DrillingTypes, DrillingSound)

\* Types and what is sound do not change.
LEMMA DrillingStays ==
    ASSUME Alike
    PROVE  DrillingTypes' = DrillingTypes /\ DrillingSound' = DrillingSound
<1>1. desk' = desk /\ DOMAIN rows' = DOMAIN rows
  BY DEF Alike
<1>2. \A name : Table(name)' = Table(name)
  BY <1>1 DEF Table
<1>3. DrillingTypes' = DrillingTypes
  BY <1>1, <1>2 DEF DrillingTypes, HoleTypes, ReportTypes, ContractTypes, RevenueTypes, ProgramTypes
<1>4. PICK types : types = DrillingTypes
  OBVIOUS
<1>5. Tables(types)' = Tables(types)
  BY <1>1, TablesStay
<1>6. \A tab, name : LiveOf(tab, name)' = LiveOf(tab, name)
  BY <1>2 DEF LiveOf
<1>7. \A tab : Sited(tab)' = Sited(tab) /\ MobilizedOnce(tab)' = MobilizedOnce(tab)
  BY <1>2, <1>6 DEF Sited, MobilizedOnce
<1>8. DrillingSound' = DrillingSound
  BY <1>4, <1>3, <1>5, <1>7 DEF DrillingSound
<1> QED BY <1>3, <1>8

\* Drilling begins with a hole at most.
LEMMA DrillingBegins == DrillingInit => DrillingSoundInv
<1> SUFFICES ASSUME DrillingInit PROVE DrillingSoundInv
  OBVIOUS
<1>1. /\ desk \in DOMAIN DrillingTables /\ StoreInit /\ DOMAIN rows = DrillingIds
      /\ rows = [r \in DOMAIN rows |-> rows[r]]
  BY DEF DrillingInit
<1>2. PICK site \in Sites :
          \A r \in DOMAIN rows :
              rows[r] = IF desk = "billing" /\ r[1] = "holes"
                        THEN [there |-> TRUE, site |-> site, target |-> NoDepth,
                              final |-> DeepestOf(Depths), status |-> "IN_PROGRESS"]
                        ELSE Absent
  BY DEF DrillingInit
<1>3. PICK row : row = [there |-> TRUE, site |-> site, target |-> NoDepth,
                        final |-> DeepestOf(Depths), status |-> "IN_PROGRESS"]
  OBVIOUS
<1>4. IsRow(row, HoleTypes) /\ row.there = TRUE
  <2>1. DeepestOf(Depths) \in Depths
    BY DepthsAssumption DEF DeepestOf
  <2>2. /\ DOMAIN row = {"there", "site", "target", "final", "status"}
        /\ row = [c \in DOMAIN row |-> row[c]]
        /\ row.there = TRUE /\ row.site = site /\ row.target = NoDepth
        /\ row.final = DeepestOf(Depths) /\ row.status = "IN_PROGRESS"
    BY <1>3
  <2>3. \A c \in {"there", "site", "target", "final", "status"} : row[c] \in HoleTypes[c]
    <3>1. row.target \in HoleTypes.target /\ row.final \in HoleTypes.final
      BY <2>1, <2>2, HoleColumns
    <3>2. /\ row.there \in HoleTypes.there /\ row.site \in HoleTypes.site
          /\ row.status \in HoleTypes.status
      BY <2>2, HoleColumns DEF HoleStatuses
    <3> QED BY <3>1, <3>2
  <2> QED BY <2>2, <2>3, HoleColumns DEF IsRow
<1>5. \A r \in DOMAIN rows : \/ r[1] = "holes" /\ rows[r] = row
                             \/ rows[r] = Absent
  BY <1>2, <1>3
<1>6. \A r \in DOMAIN rows : There(r) \/ rows[r] = Absent
  BY <1>4, <1>5 DEF There
<1>7. Shape
  BY <1>1, <1>6, InitShape
<1>8. PICK types : types = DrillingTypes
  OBVIOUS
<1>9. ASSUME NEW r \in DOMAIN rows
      PROVE  /\ "there" \in DOMAIN types[r] /\ types[r].there = {TRUE}
             /\ rows[r] = Absent \/ IsRow(rows[r], types[r])
  BY <1>8, DrillingThere, DrillingTyping, <1>4, <1>5 DEF Table
<1>10. Typed(types)
  BY <1>1, <1>9, TypedStarts
<1>11. IsTable(rows, types)
  BY <1>7, <1>10, TypedTables
<1>12. \A name : name # "holes" => LiveOf(rows, name) = {}
  BY <1>5 DEF Absent, LiveOf, Table
<1>13. Sited(rows) /\ MobilizedOnce(rows)
  BY <1>12 DEF Sited, MobilizedOnce
<1>14. PICK sound : sound = DrillingSound
  OBVIOUS
<1>15. rows \in sound
  BY <1>8, <1>11, <1>13, <1>14, TablesAre DEF DrillingSound
<1>16. StaySound(sound)
  BY <1>1, <1>7, <1>15, SoundStarts
<1>17. DrillingInv
  BY DrillingStarts
<1>18. desk # "programs" => DrillInv
  BY <1>1, <1>17 DEF DrillingInv, DrillingTables
<1> QED BY <1>1, <1>7, <1>8, <1>10, <1>14, <1>16, <1>18 DEF DrillingFits, DrillingSoundInv

\* The rows of each table as records.
LEMMA DrillingRowsAre ==
    ASSUME NEW row
    PROVE  /\ IsRow(row, HoleTypes) => row \in HoleRows
           /\ IsRow(row, ReportTypes) => row \in ReportRows
           /\ IsRow(row, ContractTypes) => row \in ClientContractRows
           /\ IsRow(row, RevenueTypes) => row \in RevenueRows
           /\ IsRow(row, ProgramTypes) => row \in ProgramRows
<1>1. IsRow(row, HoleTypes) => row \in HoleRows
  BY HoleColumns DEF IsRow, HoleRows
<1>2. IsRow(row, ReportTypes) => row \in ReportRows
  BY ReportColumns DEF IsRow, ReportRows
<1>3. IsRow(row, ContractTypes) => row \in ClientContractRows
  BY ContractColumns DEF IsRow, ClientContractRows
<1>4. IsRow(row, RevenueTypes) => row \in RevenueRows
  <2>1. SUFFICES ASSUME IsRow(row, RevenueTypes) PROVE row \in RevenueRows
    OBVIOUS
  <2>2. /\ row = [c \in {"there", "report", "contract", "kind", "metres"} |-> row[c]]
        /\ row.there = TRUE /\ row.report \in Table("reports")
        /\ row.contract \in Table("contracts") /\ row.kind \in {"METERAGE", "MOBILIZATION"}
        /\ row.metres \in Depths \cup {NoDepth}
    <3>1. /\ row = [c \in DOMAIN row |-> row[c]] /\ DOMAIN row = DOMAIN RevenueTypes
          /\ \A c \in DOMAIN RevenueTypes : row[c] \in RevenueTypes[c]
      BY <2>1 DEF IsRow
    <3>2. /\ row.there \in RevenueTypes.there /\ row.report \in RevenueTypes.report
          /\ row.contract \in RevenueTypes.contract /\ row.kind \in RevenueTypes.kind
          /\ row.metres \in RevenueTypes.metres
      BY <3>1, RevenueColumns
    <3> QED BY <3>1, <3>2, RevenueColumns
  <2> QED BY <2>2 DEF RevenueRows
<1>5. IsRow(row, ProgramTypes) => row \in ProgramRows
  BY ProgramColumns DEF IsRow, ProgramRows
<1> QED BY <1>1, <1>2, <1>3, <1>4, <1>5

LEMMA DrillingGoesOn ==
    DrillingInv /\ DrillingSoundInv /\ [DrillingNext]_storeVars => DrillingSoundInv'
  BY DrillingWrites, SoundMoves, DrillingStays, DrillingSteps DEF DrillingSoundInv,
     DrillingFits, DrillingNext, DrillingCommit, SoundMove, Alike, DrillingIds, DrillingInv

\* What it says of drilling: rows are those their tables can hold; intervals are at the
\* site of their hole, and mobilization is charged once.
LEMMA DrillingSays ==
    ASSUME DrillingSoundInv
    PROVE  DrillingTypeOK /\ DrillingIsSound
<1>1. PICK types, sound : types = DrillingTypes /\ sound = DrillingSound
  OBVIOUS
<1>2. DrillingFits(types, sound)
  BY <1>1 DEF DrillingSoundInv
<1>3. /\ Shape /\ Typed(types) /\ StaySound(sound) /\ IsTable(rows, types)
      /\ desk \in DOMAIN DrillingTables
      /\ \A name : \A r \in Table(name) : r \in DOMAIN rows /\ r[1] = name
      /\ \A r \in DOMAIN rows : r[1] \in DrillingTables[desk]
  BY <1>2, DrillingHas, TypedTables DEF DrillingFits
<1>4. DrillingTypeOK
  BY <1>2, DrillingRow, <1>3, <1>1, DrillingRowsAre DEF Live, Table, DrillingTables,
     DrillingTypes, DrillingRows, DrillingTypeOK
<1>5. ASSUME ~torn
      PROVE  /\ \A r \in Live("reports") : rows[r].hole # NoRef =>
                   There(rows[r].hole) /\ rows[rows[r].hole].site = rows[r].site
             /\ \A v, w \in Charges("MOBILIZATION") : rows[v].contract = rows[w].contract => v = w
  BY <1>2, <1>3, <1>5, DrillingAsks DEF StaySound, LiveOf, Live, There, Sited,
     MobilizedOnce, Charges
<1>6. DrillingIsSound
  BY <1>5 DEF DrillingIsSound
<1> QED BY <1>4, <1>6
-----------------------------------------------------------------------------
(* The sites, the workshop and the vendors. *)

ProjectTypes == [there |-> {TRUE}, from |-> Dates, until |-> Dates, archived |-> BOOLEAN]
PlaceTypes ==
    [there |-> {TRUE}, project |-> {NoRef} \cup Table("projects"), active |-> BOOLEAN]
DeliveryTypes == [there |-> {TRUE}, project |-> Table("projects"), site |-> Table("sites")]
AllocationTypes ==
    [there |-> {TRUE}, project |-> Table("projects"), site |-> Table("sites"),
     delivery |-> {NoRef} \cup Table("deliveries")]
SupplierTypes ==
    [there |-> {TRUE}, name |-> Names, number |-> Numbers \cup {NoNumber},
     archived |-> BOOLEAN]
PayeeTypes == [there |-> {TRUE}, name |-> Names]
IncidentTypes ==
    [there |-> {TRUE}, project |-> Table("projects"), site |-> {NoRef} \cup Table("sites"),
     status |-> IncidentStatuses]
ActionTypes ==
    [there |-> {TRUE}, incident |-> Table("incidents"), status |-> {"OPEN", "CLOSED"},
     closedAt |-> Dates]
PlantTypes == [there |-> {TRUE}, active |-> BOOLEAN]
LogTypes == [there |-> {TRUE}, kind |-> {"FUEL", "DIP", "READING"}, value |-> Days]
IssueTypes == [there |-> {TRUE}, submission |-> Names, status |-> {"DRAFT", "POSTED"}]
ImportTypes ==
    [there |-> {TRUE}, kind |-> ImportKinds, code |-> Names, errors |-> BOOLEAN,
     status |-> {"PREVIEW", "COMPLETED"}]
ImportedTypes ==
    [there |-> {TRUE}, code |-> Names, import |-> {NoRef} \cup Table("imports")]
BreakdownTypes ==
    [there |-> {TRUE}, project |-> {NoRef} \cup Table("projects"),
     site |-> {NoRef} \cup Table("sites"), status |-> CardStatuses]
CardTypes ==
    [there |-> {TRUE}, project |-> {NoRef} \cup Table("projects"),
     site |-> {NoRef} \cup Table("sites"), machine |-> {NoRef} \cup Table("machines"),
     order |-> {NoRef} \cup Table("orders"), number |-> Names, status |-> CardStatuses,
     completed |-> BOOLEAN]
CardOrderTypes == [there |-> {TRUE}, machine |-> Table("machines")]
AssessmentTypes == [there |-> {TRUE}, number |-> Names, from |-> Days, until |-> Days]
TrackedTypes == [there |-> {TRUE}, from |-> Days, until |-> Dates]
PlanTypes == [there |-> {TRUE}, plan |-> {"PLANNED", "ACTUAL"}]
EntryTypes == [there |-> {TRUE}, equipment |-> Names, status |-> Days]
BareTypes == [there |-> {TRUE}]

FieldTypes ==
    [r \in DOMAIN rows |->
        IF r[1] = "projects" THEN ProjectTypes
        ELSE IF r[1] = "sites" THEN PlaceTypes
        ELSE IF r[1] = "deliveries" THEN DeliveryTypes
        ELSE IF r[1] = "allocations" THEN AllocationTypes
        ELSE IF r[1] = "suppliers" THEN SupplierTypes
        ELSE IF r[1] = "payees" THEN PayeeTypes
        ELSE IF r[1] = "incidents" THEN IncidentTypes
        ELSE IF r[1] = "actions" THEN ActionTypes
        ELSE IF r[1] = "machines" THEN PlantTypes
        ELSE IF r[1] = "logs" THEN LogTypes
        ELSE IF r[1] = "issues" THEN IssueTypes
        ELSE IF r[1] = "imports" THEN ImportTypes
        ELSE IF r[1] = "items" THEN ImportedTypes
        ELSE IF r[1] = "receipts" THEN ImportedTypes
        ELSE IF r[1] = "breakdowns" THEN BreakdownTypes
        ELSE IF r[1] = "cards" THEN CardTypes
        ELSE IF r[1] = "orders" THEN CardOrderTypes
        ELSE IF r[1] = "assessments" THEN AssessmentTypes
        ELSE IF r[1] = "tracked" THEN TrackedTypes
        ELSE IF r[1] = "plans" THEN PlanTypes
        ELSE IF r[1] = "entries" THEN EntryTypes
        ELSE BareTypes]

\* Their columns.
LEMMA ProjectColumns ==
    /\ DOMAIN ProjectTypes = {"there", "from", "until", "archived"}
    /\ ProjectTypes.there = {TRUE} /\ ProjectTypes.from = Dates
    /\ ProjectTypes.until = Dates /\ ProjectTypes.archived = BOOLEAN
  BY DEF ProjectTypes

LEMMA PlaceColumns ==
    /\ DOMAIN PlaceTypes = {"there", "project", "active"}
    /\ PlaceTypes.there = {TRUE} /\ PlaceTypes.project = {NoRef} \cup Table("projects")
    /\ PlaceTypes.active = BOOLEAN
  BY DEF PlaceTypes

LEMMA DeliveryColumns ==
    /\ DOMAIN DeliveryTypes = {"there", "project", "site"}
    /\ DeliveryTypes.there = {TRUE} /\ DeliveryTypes.project = Table("projects")
    /\ DeliveryTypes.site = Table("sites")
  BY DEF DeliveryTypes

LEMMA AllocationColumns ==
    /\ DOMAIN AllocationTypes = {"there", "project", "site", "delivery"}
    /\ AllocationTypes.there = {TRUE} /\ AllocationTypes.project = Table("projects")
    /\ AllocationTypes.site = Table("sites")
    /\ AllocationTypes.delivery = {NoRef} \cup Table("deliveries")
  BY DEF AllocationTypes

LEMMA SupplierColumns ==
    /\ DOMAIN SupplierTypes = {"there", "name", "number", "archived"}
    /\ SupplierTypes.there = {TRUE} /\ SupplierTypes.name = Names
    /\ SupplierTypes.number = Numbers \cup {NoNumber} /\ SupplierTypes.archived = BOOLEAN
  BY DEF SupplierTypes

LEMMA PayeeColumns ==
    /\ DOMAIN PayeeTypes = {"there", "name"}
    /\ PayeeTypes.there = {TRUE} /\ PayeeTypes.name = Names
  BY DEF PayeeTypes

LEMMA IncidentColumns ==
    /\ DOMAIN IncidentTypes = {"there", "project", "site", "status"}
    /\ IncidentTypes.there = {TRUE} /\ IncidentTypes.project = Table("projects")
    /\ IncidentTypes.site = {NoRef} \cup Table("sites")
    /\ IncidentTypes.status = IncidentStatuses
  BY DEF IncidentTypes

LEMMA ActionColumns ==
    /\ DOMAIN ActionTypes = {"there", "incident", "status", "closedAt"}
    /\ ActionTypes.there = {TRUE} /\ ActionTypes.incident = Table("incidents")
    /\ ActionTypes.status = {"OPEN", "CLOSED"} /\ ActionTypes.closedAt = Dates
  BY DEF ActionTypes

LEMMA PlantColumns ==
    /\ DOMAIN PlantTypes = {"there", "active"}
    /\ PlantTypes.there = {TRUE} /\ PlantTypes.active = BOOLEAN
  BY DEF PlantTypes

LEMMA LogColumns ==
    /\ DOMAIN LogTypes = {"there", "kind", "value"}
    /\ LogTypes.there = {TRUE} /\ LogTypes.kind = {"FUEL", "DIP", "READING"}
    /\ LogTypes.value = Days
  BY DEF LogTypes

LEMMA IssueColumns ==
    /\ DOMAIN IssueTypes = {"there", "submission", "status"}
    /\ IssueTypes.there = {TRUE} /\ IssueTypes.submission = Names
    /\ IssueTypes.status = {"DRAFT", "POSTED"}
  BY DEF IssueTypes

LEMMA ImportColumns ==
    /\ DOMAIN ImportTypes = {"there", "kind", "code", "errors", "status"}
    /\ ImportTypes.there = {TRUE} /\ ImportTypes.kind = ImportKinds
    /\ ImportTypes.code = Names /\ ImportTypes.errors = BOOLEAN
    /\ ImportTypes.status = {"PREVIEW", "COMPLETED"}
  BY DEF ImportTypes

LEMMA ImportedColumns ==
    /\ DOMAIN ImportedTypes = {"there", "code", "import"}
    /\ ImportedTypes.there = {TRUE} /\ ImportedTypes.code = Names
    /\ ImportedTypes.import = {NoRef} \cup Table("imports")
  BY DEF ImportedTypes

LEMMA BreakdownColumns ==
    /\ DOMAIN BreakdownTypes = {"there", "project", "site", "status"}
    /\ BreakdownTypes.there = {TRUE}
    /\ BreakdownTypes.project = {NoRef} \cup Table("projects")
    /\ BreakdownTypes.site = {NoRef} \cup Table("sites")
    /\ BreakdownTypes.status = CardStatuses
  BY DEF BreakdownTypes

LEMMA CardColumns ==
    /\ DOMAIN CardTypes = {"there", "project", "site", "machine", "order", "number", "status",
                           "completed"}
    /\ CardTypes.there = {TRUE} /\ CardTypes.project = {NoRef} \cup Table("projects")
    /\ CardTypes.site = {NoRef} \cup Table("sites")
    /\ CardTypes.machine = {NoRef} \cup Table("machines")
    /\ CardTypes.order = {NoRef} \cup Table("orders") /\ CardTypes.number = Names
    /\ CardTypes.status = CardStatuses /\ CardTypes.completed = BOOLEAN
  BY DEF CardTypes

LEMMA CardOrderColumns ==
    /\ DOMAIN CardOrderTypes = {"there", "machine"}
    /\ CardOrderTypes.there = {TRUE} /\ CardOrderTypes.machine = Table("machines")
  BY DEF CardOrderTypes

LEMMA AssessmentColumns ==
    /\ DOMAIN AssessmentTypes = {"there", "number", "from", "until"}
    /\ AssessmentTypes.there = {TRUE} /\ AssessmentTypes.number = Names
    /\ AssessmentTypes.from = Days /\ AssessmentTypes.until = Days
  BY DEF AssessmentTypes

LEMMA TrackedColumns ==
    /\ DOMAIN TrackedTypes = {"there", "from", "until"}
    /\ TrackedTypes.there = {TRUE} /\ TrackedTypes.from = Days /\ TrackedTypes.until = Dates
  BY DEF TrackedTypes

LEMMA PlanColumns ==
    /\ DOMAIN PlanTypes = {"there", "plan"}
    /\ PlanTypes.there = {TRUE} /\ PlanTypes.plan = {"PLANNED", "ACTUAL"}
  BY DEF PlanTypes

LEMMA EntryColumns ==
    /\ DOMAIN EntryTypes = {"there", "equipment", "status"}
    /\ EntryTypes.there = {TRUE} /\ EntryTypes.equipment = Names /\ EntryTypes.status = Days
  BY DEF EntryTypes

LEMMA BareColumns ==
    /\ DOMAIN BareTypes = {"there"}
    /\ BareTypes.there = {TRUE}
  BY DEF BareTypes

\* Every table says that its rows are there,
LEMMA FieldThere ==
    ASSUME NEW r \in DOMAIN rows
    PROVE  "there" \in DOMAIN FieldTypes[r] /\ FieldTypes[r].there = {TRUE}
<1>1. FieldTypes[r] \in {ProjectTypes, PlaceTypes, DeliveryTypes, AllocationTypes,
                      SupplierTypes, PayeeTypes, IncidentTypes, ActionTypes, PlantTypes,
                      LogTypes, IssueTypes, ImportTypes, ImportedTypes, BreakdownTypes,
                      CardTypes, CardOrderTypes, AssessmentTypes, TrackedTypes, PlanTypes,
                      EntryTypes, BareTypes}
  BY DEF FieldTypes
<1>2. \A types \in {ProjectTypes, PlaceTypes, DeliveryTypes, AllocationTypes} :
          "there" \in DOMAIN types /\ types.there = {TRUE}
  BY ProjectColumns, PlaceColumns, DeliveryColumns, AllocationColumns
<1>3. \A types \in {SupplierTypes, PayeeTypes, IncidentTypes, ActionTypes} :
          "there" \in DOMAIN types /\ types.there = {TRUE}
  BY SupplierColumns, PayeeColumns, IncidentColumns, ActionColumns
<1>4. \A types \in {PlantTypes, LogTypes, IssueTypes, ImportTypes} :
          "there" \in DOMAIN types /\ types.there = {TRUE}
  BY PlantColumns, LogColumns, IssueColumns, ImportColumns
<1>5. \A types \in {ImportedTypes, BreakdownTypes, CardTypes, CardOrderTypes} :
          "there" \in DOMAIN types /\ types.there = {TRUE}
  BY ImportedColumns, BreakdownColumns, CardColumns, CardOrderColumns
<1>6. \A types \in {AssessmentTypes, TrackedTypes, PlanTypes, EntryTypes} :
          "there" \in DOMAIN types /\ types.there = {TRUE}
  BY AssessmentColumns, TrackedColumns, PlanColumns, EntryColumns
<1>7. \A types \in {BareTypes} :
          "there" \in DOMAIN types /\ types.there = {TRUE}
  BY BareColumns
<1> QED BY <1>1, <1>2, <1>3, <1>4, <1>5, <1>6, <1>7

\* and has its types.
LEMMA FieldTyping ==
    ASSUME NEW types, types = FieldTypes
    PROVE  /\ \A r \in Table("projects") : types[r] = ProjectTypes
           /\ \A r \in Table("sites") : types[r] = PlaceTypes
           /\ \A r \in Table("deliveries") : types[r] = DeliveryTypes
           /\ \A r \in Table("allocations") : types[r] = AllocationTypes
           /\ \A r \in Table("suppliers") : types[r] = SupplierTypes
           /\ \A r \in Table("payees") : types[r] = PayeeTypes
           /\ \A r \in Table("incidents") : types[r] = IncidentTypes
           /\ \A r \in Table("actions") : types[r] = ActionTypes
           /\ \A r \in Table("machines") : types[r] = PlantTypes
           /\ \A r \in Table("logs") : types[r] = LogTypes
           /\ \A r \in Table("issues") : types[r] = IssueTypes
           /\ \A r \in Table("imports") : types[r] = ImportTypes
           /\ \A r \in Table("items") : types[r] = ImportedTypes
           /\ \A r \in Table("receipts") : types[r] = ImportedTypes
           /\ \A r \in Table("breakdowns") : types[r] = BreakdownTypes
           /\ \A r \in Table("cards") : types[r] = CardTypes
           /\ \A r \in Table("orders") : types[r] = CardOrderTypes
           /\ \A r \in Table("assessments") : types[r] = AssessmentTypes
           /\ \A r \in Table("tracked") : types[r] = TrackedTypes
           /\ \A r \in Table("plans") : types[r] = PlanTypes
           /\ \A r \in Table("entries") : types[r] = EntryTypes
           /\ \A r \in Table("clients") : types[r] = BareTypes
           /\ \A r \in Table("notes") : types[r] = BareTypes
  BY DEF Table, FieldTypes

\* The desks of projects, sites, workshop and vendors, and their tables.
FieldDesks == DOMAIN SiteTables \cup DOMAIN WorkshopTables \cup {"vendors"}

FieldNames ==
    IF desk \in DOMAIN SiteTables THEN SiteTables[desk]
    ELSE IF desk \in DOMAIN WorkshopTables THEN WorkshopTables[desk]
    ELSE {"suppliers", "payees"}

\* Tables whose rows begin and end.
DatedNames == {"projects", "assessments", "tracked"}

Dated(tab) == \A r \in DOMAIN tab : tab[r].there /\ r[1] \in DatedNames => InOrder(tab[r])

FieldSound == {tab \in Tables(FieldTypes) : Dated(tab)}

\* At one of these desks, rows and writes are typed and sound.
FieldFits(types, sound) ==
    /\ Shape /\ desk \in FieldDesks
    /\ \A r \in DOMAIN rows : r[1] \in FieldNames /\ r[2] \in Nat
    /\ types = FieldTypes /\ sound = FieldSound
    /\ Typed(types) /\ StaySound(sound)

LEMMA FieldHas ==
    ASSUME NEW types, NEW sound, FieldFits(types, sound)
    PROVE  /\ Shape /\ Typed(types) /\ types = FieldTypes /\ desk \in FieldDesks
           /\ \A name : \A r \in Table(name) : r \in DOMAIN rows /\ r[2] \in Nat /\ r[1] = name
           /\ \A name : Live(name) \subseteq Table(name) /\ Table(name) \subseteq DOMAIN rows
           /\ \A r \in DOMAIN rows : r[1] \in FieldNames /\ r[2] \in Nat
  BY DEF FieldFits, Live, Table

LEMMA FieldRow ==
    ASSUME NEW types, NEW sound, FieldFits(types, sound), NEW name, NEW r \in Live(name)
    PROVE  /\ r \in Table(name) /\ r \in DOMAIN rows /\ There(r) /\ rows[r].there
           /\ r[1] = name /\ IsRow(rows[r], types[r])
<1>1. r \in Table(name) /\ r \in DOMAIN rows /\ There(r) /\ rows[r].there /\ r[1] = name
  BY DEF Live, Table, There
<1>2. rows[r] # Absent
  BY <1>1 DEF There, Absent
<1> QED BY <1>1, <1>2 DEF FieldFits, Typed

LEMMA FieldAsks ==
    ASSUME NEW types, NEW sound, FieldFits(types, sound), NEW tab, IsTable(tab, types)
    PROVE  tab \in sound <=> Dated(tab)
  BY TablesAre DEF FieldFits, FieldSound

\* A handler is sound if the dates of the rows it writes are.
LEMMA FieldLays ==
    ASSUME NEW types, NEW sound, FieldFits(types, sound), NEW writes,
           \A now : IsTable(now, types) /\ Laid(rows, now, writes) =>
              \A r \in DOMAIN writes \cap DOMAIN rows :
                 r[1] \in DatedNames /\ now[r].there => InOrder(now[r])
    PROVE  LaysSound(writes, types, sound)
  BY FieldHas, FieldAsks, TypedTables DEF Laid, Dated, LaysSound

\* A handler that writes no dates,
LEMMA FieldUndated ==
    ASSUME NEW types, NEW sound, FieldFits(types, sound), NEW s \in Sessions,
           NEW locked, locked \subseteq DOMAIN rows \cup Advisory, NEW writes, Proper(writes, types),
           \A r \in DOMAIN writes : r[1] \notin DatedNames, StageLocked(s, locked, writes)
    PROVE  WritesSound(s, types, sound)
  BY FieldLays DEF WritesSound

\* one that sets some columns of a row, in order with those it leaves,
LEMMA FieldSets ==
    ASSUME NEW types, NEW sound, FieldFits(types, sound), NEW s \in Sessions,
           NEW name, NEW r \in Live(name), NEW ty, types[r] = ty,
           NEW cols, DOMAIN cols \subseteq DOMAIN ty \ {"there"},
           \A c \in DOMAIN cols : cols[c] \in ty[c],
           name \in DatedNames => InOrder(Over(cols, rows[r])),
           NEW locked, locked \subseteq DOMAIN rows \cup Advisory,
           StageLocked(s, locked, Set(r, cols))
    PROVE  WritesSound(s, types, sound)
<1>1. PICK writes : writes = Set(r, cols)
  OBVIOUS
<1>2. r \in DOMAIN rows /\ rows[r].there /\ r[1] = name /\ IsRow(rows[r], types[r])
  BY FieldRow
<1>3. MayWrite(cols, types[r])
  BY MaySet
<1>4. Proper(writes, types)
  BY <1>1, <1>2, <1>3, ProperSet
<1>5. DOMAIN writes = {r} /\ writes[r] = cols
  BY <1>1 DEF Set
<1>6. ASSUME NEW now, Laid(rows, now, writes), name \in DatedNames
      PROVE  InOrder(now[r])
  <2>1. PICK row, old, new : row = now[r] /\ old = rows[r] /\ new = Over(cols, old)
    OBVIOUS
  <2>2. LaidRow(row, cols, old)
    BY <1>2, <1>5, <1>6, <2>1 DEF Laid
  <2>3. /\ DOMAIN row = DOMAIN cols \cup DOMAIN old
        /\ \A c \in DOMAIN cols : row[c] = cols[c]
        /\ \A c \in DOMAIN old \ DOMAIN cols : row[c] = old[c]
    BY <1>2, <2>1, <2>2 DEF LaidRow
  <2>4. /\ DOMAIN new = DOMAIN cols \cup DOMAIN old
        /\ \A c \in DOMAIN new : new[c] = IF c \in DOMAIN cols THEN cols[c] ELSE old[c]
    BY <2>1 DEF Over
  <2>5. {"from", "until"} \subseteq DOMAIN old
    <3>1. types = FieldTypes /\ r \in Table(name)
      BY FieldHas, FieldRow
    <3>2. ty \in {ProjectTypes, AssessmentTypes, TrackedTypes}
      BY <1>6, <3>1, FieldTyping DEF DatedNames
    <3>3. {"from", "until"} \subseteq DOMAIN ty
      BY <3>2, ProjectColumns, AssessmentColumns, TrackedColumns
    <3> QED BY <1>2, <2>1, <3>3 DEF IsRow
  <2>6. row.from = new.from /\ row.until = new.until
    BY <2>3, <2>4, <2>5
  <2>7. InOrder(new)
    BY <1>6, <2>1
  <2> QED BY <2>1, <2>6, <2>7 DEF InOrder
<1>7. \A now : IsTable(now, types) /\ Laid(rows, now, writes) =>
          \A x \in DOMAIN writes \cap DOMAIN rows :
             x[1] \in DatedNames /\ now[x].there => InOrder(now[x])
  BY <1>2, <1>5, <1>6
<1>8. LaysSound(writes, types, sound)
  BY <1>7, FieldLays
<1> QED BY <1>1, <1>4, <1>8 DEF WritesSound

\* and one that inserts a row in order.
LEMMA FieldInserts ==
    ASSUME NEW types, NEW sound, FieldFits(types, sound), NEW s \in Sessions,
           NEW name, Spare(name) # {}, NEW ty, \A r \in Table(name) : types[r] = ty,
           NEW given, DOMAIN ty = {"there"} \cup DOMAIN given,
           \A c \in DOMAIN given \ {"there"} : given[c] \in ty[c],
           name \in DatedNames => {"from", "until"} \subseteq DOMAIN given /\ InOrder(given),
           NEW locked, locked \subseteq DOMAIN rows \cup Advisory,
           StageLocked(s, locked, Insert(name, given))
    PROVE  WritesSound(s, types, sound)
<1>1. PICK writes : writes = Insert(name, given)
  OBVIOUS
<1>2. /\ Typed(types) /\ Shape
      /\ \A r \in Table(name) : r \in DOMAIN rows /\ r[2] \in Nat /\ r[1] = name
  BY FieldHas
<1>3. Proper(writes, types)
  BY <1>1, <1>2, ProperInsert
<1>4. PICK r : r = NewRow(name)
  OBVIOUS
<1>5. /\ r \in Table(name) /\ r \in DOMAIN rows /\ r[1] = name
      /\ DOMAIN writes = {r} /\ writes[r] = Over([there |-> TRUE], given)
  BY <1>1, <1>2, <1>4, NewRowIsSpare, InsertIs
<1>6. ASSUME NEW now, Laid(rows, now, writes), name \in DatedNames
      PROVE  InOrder(now[r])
  BY <1>5, <1>6, LaidNew DEF InOrder
<1>7. \A now : IsTable(now, types) /\ Laid(rows, now, writes) =>
          \A x \in DOMAIN writes \cap DOMAIN rows :
             x[1] \in DatedNames /\ now[x].there => InOrder(now[x])
  BY <1>5, <1>6
<1>8. LaysSound(writes, types, sound)
  BY <1>7, FieldLays
<1> QED BY <1>1, <1>3, <1>8 DEF WritesSound

\* What may be written and has no dates.
Plain(writes, types) ==
    Proper(writes, types) /\ \A r \in DOMAIN writes : r[1] \notin DatedNames

LEMMA PlainWrites ==
    ASSUME NEW types, NEW sound, FieldFits(types, sound), NEW s \in Sessions,
           NEW locked, locked \subseteq DOMAIN rows \cup Advisory, NEW writes,
           Plain(writes, types), StageLocked(s, locked, writes)
    PROVE  WritesSound(s, types, sound)
  BY FieldUndated DEF Plain

LEMMA PlainOver ==
    ASSUME NEW types, NEW a, NEW b, Plain(a, types), Plain(b, types)
    PROVE  Plain(Over(a, b), types)
  BY ProperOver DEF Plain, Over

LEMMA PlainNothing == ASSUME NEW types PROVE Plain(<<>>, types)
  BY ProperNothing DEF Plain

LEMMA PlainSetAll ==
    ASSUME NEW types, NEW name, name \notin DatedNames, NEW ty, \A r \in Table(name) : types[r] = ty,
           NEW S, S \subseteq Table(name), NEW cols, DOMAIN cols \subseteq DOMAIN ty \ {"there"},
           \A c \in DOMAIN cols : cols[c] \in ty[c]
    PROVE  Plain(SetAll(S, cols), types)
<1>1. S \in SUBSET DOMAIN rows /\ \A r \in S : r[1] = name
  BY DEF Table
<1>2. \A r \in S : MayWrite(cols, types[r])
  BY MaySet
<1>3. Proper(SetAll(S, cols), types)
  BY <1>1, <1>2, ProperSetAll
<1> QED BY <1>1, <1>3 DEF Plain, SetAll

LEMMA PlainSet ==
    ASSUME NEW types, NEW name, name \notin DatedNames, NEW r \in Table(name), NEW ty, types[r] = ty,
           NEW cols, DOMAIN cols \subseteq DOMAIN ty \ {"there"},
           \A c \in DOMAIN cols : cols[c] \in ty[c]
    PROVE  Plain(Set(r, cols), types)
  BY MaySet, ProperSet DEF Table, Plain, Set

LEMMA PlainInsert ==
    ASSUME NEW types, NEW sound, FieldFits(types, sound), NEW name, name \notin DatedNames,
           Spare(name) # {}, NEW ty, \A r \in Table(name) : types[r] = ty,
           NEW given, DOMAIN ty = {"there"} \cup DOMAIN given,
           \A c \in DOMAIN given \ {"there"} : given[c] \in ty[c]
    PROVE  Plain(Insert(name, given), types)
<1>1. Typed(types) /\ \A r \in Table(name) : r[2] \in Nat /\ r[1] = name
  BY FieldHas
<1>2. Proper(Insert(name, given), types)
  BY <1>1, ProperInsert
<1>3. NewRow(name)[1] = name
  BY <1>1, NewRowIsSpare
<1>4. DOMAIN Insert(name, given) = {NewRow(name)}
  BY InsertIs
<1> QED BY <1>2, <1>3, <1>4 DEF Plain

\* The payees of a name.
LEMMA PayeePlain ==
    ASSUME NEW types, NEW sound, FieldFits(types, sound), NEW name \in Names, NEW takes,
           takes \subseteq Live("payees"), RoomForPayee(name, takes)
    PROVE  Plain(EnsurePayee(name, takes), types)
  BY FieldHas, FieldTyping, PayeeColumns, PlainSetAll, PlainInsert, PlainNothing DEF
     DatedNames, RoomForPayee, EnsurePayee

\* The vendor of a name.
LEMMA VendorWrites ==
    ASSUME NEW types, NEW sound, FieldFits(types, sound), NEW s \in Sessions,
           NEW name \in Names, NEW number \in Numbers \cup {NoNumber},
           NEW takes, takes \subseteq Live("payees"), NEW other, Plain(other, types),
           EnsureVendor(s, name, number, takes, other)
    PROVE  WritesSound(s, types, sound)
<1>1. /\ types = FieldTypes /\ Live("suppliers") \subseteq Table("suppliers")
  BY FieldHas
<1>2. \A r \in Table("suppliers") : types[r] = SupplierTypes
  BY <1>1, FieldTyping
<1>3. PICK known : known = Named("suppliers", name)
  OBVIOUS
<1>4. known \subseteq Live("suppliers") /\ known \subseteq Table("suppliers")
  BY <1>1, <1>3 DEF Named
<1>5. \A r \in known : rows[r].number \in Numbers \cup {NoNumber}
  <2>1. ASSUME NEW r \in known PROVE rows[r].number \in Numbers \cup {NoNumber}
    <3>1. IsRow(rows[r], SupplierTypes)
      BY <1>2, <1>4, FieldRow
    <3>2. "number" \in DOMAIN SupplierTypes
      BY SupplierColumns
    <3>3. rows[r].number \in SupplierTypes.number
      BY <3>1, <3>2 DEF IsRow
    <3> QED BY <3>3, SupplierColumns
  <2> QED BY <2>1
<1>6. /\ known = {} => Spare("suppliers") # {}
      /\ RoomForPayee(name, takes)
  BY <1>3 DEF EnsureVendor
<1>7. PICK kept : kept = {rows[r].number : r \in known} \ {NoNumber}
  OBVIOUS
<1>8. PICK n \in (IF number # NoNumber THEN {number} ELSE IF kept # {} THEN kept ELSE DrawnNumbers) :
          Stage(s, Over(IF known = {}
                        THEN Insert("suppliers", [name |-> name, number |-> n, archived |-> FALSE])
                        ELSE SetAll(known, [number |-> n, archived |-> FALSE]),
                        Over(EnsurePayee(name, takes), other)))
  BY <1>3, <1>7 DEF EnsureVendor
<1>9. n \in Numbers \cup {NoNumber}
  BY <1>5, <1>7, <1>8 DEF DrawnNumbers
<1>10. PICK given, cols : /\ given = [name |-> name, number |-> n, archived |-> FALSE]
                          /\ cols = [number |-> n, archived |-> FALSE]
  OBVIOUS
<1>11. /\ DOMAIN given = {"name", "number", "archived"} /\ DOMAIN cols = {"number", "archived"}
       /\ given.name = name /\ given.number = n /\ given.archived = FALSE
       /\ cols.number = n /\ cols.archived = FALSE
  BY <1>10
<1>12. /\ DOMAIN SupplierTypes = {"there"} \cup DOMAIN given
       /\ DOMAIN cols \subseteq DOMAIN SupplierTypes \ {"there"}
  BY <1>11, SupplierColumns
<1>13. \A c \in DOMAIN given : given[c] \in SupplierTypes[c]
  BY <1>9, <1>11, SupplierColumns
<1>14. \A c \in DOMAIN cols : cols[c] \in SupplierTypes[c]
  BY <1>9, <1>11, SupplierColumns
<1>15. PICK vendor : vendor = IF known = {} THEN Insert("suppliers", given) ELSE SetAll(known, cols)
  OBVIOUS
<1>16. Plain(vendor, types)
  <2>1. CASE known = {}
    BY <1>2, <1>6, <1>12, <1>13, <2>1, PlainInsert, <1>15 DEF DatedNames
  <2>2. CASE known # {}
    BY <1>2, <1>4, <1>12, <1>14, PlainSetAll, <1>15, <2>2 DEF DatedNames
  <2> QED BY <2>1, <2>2
<1>17. PICK payee, rest, writes : /\ payee = EnsurePayee(name, takes)
                                  /\ rest = Over(payee, other) /\ writes = Over(vendor, rest)
  OBVIOUS
<1>18. Plain(payee, types)
  BY <1>6, <1>17, PayeePlain
<1>19. Plain(rest, types)
  BY <1>17, <1>18, PlainOver
<1>20. Plain(writes, types)
  BY <1>16, <1>17, <1>19, PlainOver
<1>21. StageLocked(s, {}, writes)
  BY <1>8, <1>10, <1>15, <1>17 DEF Stage
<1> QED BY <1>20, <1>21, PlainWrites

\* The vendor desk.
LEMMA VendorUpdates ==
    ASSUME NEW types, NEW sound, FieldFits(types, sound), NEW s \in Sessions, UpdateVendor(s)
    PROVE  WritesSound(s, types, sound)
<1>1. /\ types = FieldTypes
      /\ Live("suppliers") \subseteq Table("suppliers") /\ Live("payees") \subseteq Table("payees")
      /\ Table("suppliers") \subseteq DOMAIN rows /\ Table("payees") \subseteq DOMAIN rows
  BY FieldHas
<1>2. PICK r \in Live("suppliers"), name \in Names : \E number \in {rows[r].number, NoNumber} :
          LET renamed == IF rows[r].name = name THEN {} ELSE Named("payees", rows[r].name)
          IN /\ RoomForPayee(name, renamed)
             /\ StageLocked(s, {r} \cup renamed,
                   Over(Set(r, [name |-> name, number |-> number]), EnsurePayee(name, renamed)))
  BY DEF UpdateVendor
<1>3. PICK renamed : renamed = IF rows[r].name = name THEN {} ELSE Named("payees", rows[r].name)
  OBVIOUS
<1>4. PICK number \in {rows[r].number, NoNumber} :
          /\ RoomForPayee(name, renamed)
          /\ StageLocked(s, {r} \cup renamed,
                Over(Set(r, [name |-> name, number |-> number]), EnsurePayee(name, renamed)))
  BY <1>2, <1>3
<1>5. renamed \subseteq Live("payees")
  BY <1>3 DEF Named
<1>6. types[r] = SupplierTypes /\ IsRow(rows[r], SupplierTypes) /\ r \in Table("suppliers")
  BY <1>1, FieldTyping, FieldRow
<1>7. number \in Numbers \cup {NoNumber}
  BY <1>6, SupplierColumns DEF IsRow
<1>8. PICK cols : cols = [name |-> name, number |-> number]
  OBVIOUS
<1>9. /\ DOMAIN cols = {"name", "number"} /\ cols.name \in Names
      /\ cols.number \in Numbers \cup {NoNumber}
  BY <1>7, <1>8
<1>10. /\ DOMAIN cols \subseteq DOMAIN SupplierTypes \ {"there"}
       /\ \A c \in DOMAIN cols : cols[c] \in SupplierTypes[c]
  BY <1>9, SupplierColumns
<1>11. PICK vendor, payee, writes : /\ vendor = Set(r, cols) /\ payee = EnsurePayee(name, renamed)
                                    /\ writes = Over(vendor, payee)
  OBVIOUS
<1>12. Plain(vendor, types)
  BY <1>6, <1>10, <1>11, PlainSet DEF DatedNames
<1>13. Plain(payee, types)
  BY <1>4, <1>5, <1>11, PayeePlain
<1>14. Plain(writes, types)
  BY <1>11, <1>12, <1>13, PlainOver
<1>15. {r} \cup renamed \subseteq DOMAIN rows \cup Advisory
  BY <1>1, <1>5
<1>16. StageLocked(s, {r} \cup renamed, writes)
  BY <1>4, <1>8, <1>11
<1> QED BY <1>14, <1>15, <1>16, PlainWrites

LEMMA VendorsWrite ==
    ASSUME NEW types, NEW sound, FieldFits(types, sound), NEW s \in Sessions, VendorStep(s)
    PROVE  WritesSound(s, types, sound)
<1>1. /\ types = FieldTypes
      /\ Live("suppliers") \subseteq Table("suppliers")
      /\ Table("suppliers") \subseteq DOMAIN rows
  BY FieldHas
<1>2. \A r \in Live("suppliers") : types[r] = SupplierTypes
  BY <1>1, FieldTyping
<1>3. Plain(<<>>, types)
  BY PlainNothing
<1>4. CASE CreateVendor(s)
  BY <1>4, <1>3, VendorWrites DEF CreateVendor, GivenNumbers
<1>5. CASE UpdateVendor(s)
  BY <1>5, VendorUpdates
<1>6. CASE RenameSupplier(s)
  <2>1. PICK r \in Live("suppliers"), name \in Names :
            StageLocked(s, {r}, Set(r, [name |-> name, archived |-> FALSE]))
    BY <1>6 DEF RenameSupplier
  <2>2. PICK cols : cols = [name |-> name, archived |-> FALSE]
    OBVIOUS
  <2>3. DOMAIN cols = {"name", "archived"} /\ cols.name \in Names /\ cols.archived \in BOOLEAN
    BY <2>2
  <2>4. /\ DOMAIN cols \subseteq DOMAIN SupplierTypes \ {"there"}
        /\ \A c \in DOMAIN cols : cols[c] \in SupplierTypes[c]
    BY <2>3, SupplierColumns
  <2>5. {r} \subseteq DOMAIN rows \cup Advisory
    BY <1>1
  <2>6. StageLocked(s, {r}, Set(r, cols))
    BY <2>1, <2>2
  <2>7. "suppliers" \notin DatedNames
    BY DEF DatedNames
  <2> QED BY <1>2, <2>4, <2>5, <2>6, <2>7, FieldSets
<1>7. CASE ArchiveSupplier(s)
  <2>1. PICK r \in Live("suppliers"), restore \in BOOLEAN :
            StageLocked(s, {r}, Set(r, [archived |-> ~restore]))
    BY <1>7 DEF ArchiveSupplier
  <2>2. PICK cols : cols = [archived |-> ~restore]
    OBVIOUS
  <2>3. DOMAIN cols = {"archived"} /\ cols.archived \in BOOLEAN
    BY <2>2
  <2>4. /\ DOMAIN cols \subseteq DOMAIN SupplierTypes \ {"there"}
        /\ \A c \in DOMAIN cols : cols[c] \in SupplierTypes[c]
    BY <2>3, SupplierColumns
  <2>5. {r} \subseteq DOMAIN rows \cup Advisory
    BY <1>1
  <2>6. StageLocked(s, {r}, Set(r, cols))
    BY <2>1, <2>2
  <2>7. "suppliers" \notin DatedNames
    BY DEF DatedNames
  <2> QED BY <1>2, <2>4, <2>5, <2>6, <2>7, FieldSets
<1>8. CASE PayTo(s)
  BY <1>8, <1>3, VendorWrites DEF PayTo
<1> QED BY <1>4, <1>5, <1>6, <1>7, <1>8 DEF VendorStep

\* Projects, their clients and notes.
LEMMA ProjectWrites ==
    ASSUME NEW types, NEW sound, FieldFits(types, sound), NEW s \in Sessions, ProjectStep(s)
    PROVE  WritesSound(s, types, sound)
<1>1. /\ types = FieldTypes
      /\ \A name : Live(name) \subseteq Table(name) /\ Table(name) \subseteq DOMAIN rows
  BY FieldHas
<1>2. /\ \A r \in Table("projects") : types[r] = ProjectTypes
      /\ \A r \in Table("clients") \cup Table("notes") : types[r] = BareTypes
  BY <1>1, FieldTyping
<1>3. {} \subseteq DOMAIN rows \cup Advisory
  OBVIOUS
<1>4. ASSUME NEW name \in {"clients", "notes"}, Spare(name) # {}, Stage(s, Insert(name, <<>>))
      PROVE  WritesSound(s, types, sound)
  BY BareColumns, <1>2, <1>4, <1>3, FieldInserts DEF Stage, DatedNames
<1>5. CASE ClientCreate(s)
  BY <1>4, <1>5 DEF ClientCreate
<1>6. CASE ProjectNote(s)
  BY <1>4, <1>6 DEF ProjectNote
<1>7. CASE ProjectCreate(s)
  <2>1. PICK from \in Dates, until \in Dates :
            /\ Spare("projects") # {}
            /\ InOrder([from |-> from, until |-> until, archived |-> FALSE])
            /\ Stage(s, Insert("projects", [from |-> from, until |-> until, archived |-> FALSE]))
    BY <1>7 DEF ProjectCreate
  <2>2. PICK given : given = [from |-> from, until |-> until, archived |-> FALSE]
    OBVIOUS
  <2>3. /\ DOMAIN given = {"from", "until", "archived"}
        /\ given.from \in Dates /\ given.until \in Dates /\ given.archived \in BOOLEAN
    BY <2>2
  <2>4. /\ DOMAIN ProjectTypes = {"there"} \cup DOMAIN given
        /\ \A c \in DOMAIN given \ {"there"} : given[c] \in ProjectTypes[c]
    BY <2>3, ProjectColumns
  <2>5. StageLocked(s, {}, Insert("projects", given)) /\ InOrder(given)
    BY <2>1, <2>2 DEF Stage
  <2>6. {"from", "until"} \subseteq DOMAIN given
    BY <2>3
  <2> QED BY <1>2, <1>3, <2>1, <2>4, <2>5, <2>6, FieldInserts
<1>8. ASSUME NEW p \in Live("projects"), NEW cols,
             DOMAIN cols \subseteq DOMAIN ProjectTypes \ {"there"},
             \A c \in DOMAIN cols : cols[c] \in ProjectTypes[c],
             InOrder(Over(cols, rows[p])), Stage(s, Set(p, cols))
      PROVE  WritesSound(s, types, sound)
  BY <1>1, <1>2, <1>8, <1>3, FieldSets DEF Stage
<1>9. CASE ProjectUpdate(s)
  BY <1>9, ProjectColumns, <1>8 DEF ProjectUpdate
<1>10. CASE ArchiveProject(s)
  <2>1. PICK p \in Live("projects") : Stage(s, Set(p, [archived |-> TRUE]))
    BY <1>10 DEF ArchiveProject
  <2>2. PICK cols : cols = [archived |-> TRUE]
    OBVIOUS
  <2>3. DOMAIN cols = {"archived"} /\ cols.archived \in BOOLEAN
    BY <2>2
  <2>4. /\ MayWrite(cols, types[p]) /\ p \in DOMAIN rows /\ types[p] = ProjectTypes
        /\ rows[p].there /\ IsRow(rows[p], types[p])
    BY <1>1, <1>2, <2>3, ProjectColumns, FieldRow, MaySet
  <2>5. PICK writes : writes = Set(p, cols)
    OBVIOUS
  <2>6. Proper(writes, types) /\ DOMAIN writes = {p} /\ writes[p] = cols
    BY <2>4, <2>5, ProperSet DEF Set
  <2>7. ASSUME rows \in sound, NEW now, IsTable(now, types), Laid(rows, now, writes)
        PROVE  now \in sound
    <3>1. Dated(rows)
      BY <2>7, FieldHas, FieldAsks, TypedTables
    <3>2. /\ \A x \in DOMAIN rows : x # p => now[x] = rows[x]
          /\ now[p].from = rows[p].from /\ now[p].until = rows[p].until
      BY <2>6, <2>7, <2>4, ProjectColumns, <2>3, LaidLive DEF Laid, IsRow
    <3>3. DOMAIN now = DOMAIN rows
      BY <2>7 DEF Laid
    <3>4. Dated(now)
      BY <2>4, <3>1, <3>2, <3>3 DEF Dated, InOrder
    <3> QED BY <2>7, <3>4, FieldAsks
  <2>8. LaysSound(writes, types, sound)
    BY <2>7 DEF LaysSound
  <2>9. StageLocked(s, {}, writes)
    BY <2>1, <2>2, <2>5 DEF Stage
  <2> QED BY <1>3, <2>6, <2>8, <2>9 DEF WritesSound
<1> QED BY <1>5, <1>6, <1>7, <1>9, <1>10 DEF ProjectStep

\* Sites are made and moved.
LEMMA SiteCreates ==
    ASSUME NEW types, NEW sound, FieldFits(types, sound), NEW s \in Sessions, SiteCreate(s)
    PROVE  \E writes : Plain(writes, types) /\ StageLocked(s, {}, writes)
                       /\ \A r \in DOMAIN writes : r \in Table("sites") /\ writes[r].there
<1>1. /\ types = FieldTypes /\ Live("projects") \subseteq Table("projects")
      /\ \A r \in Table("sites") : r[2] \in Nat
  BY FieldHas
<1>2. \A r \in Table("sites") : types[r] = PlaceTypes
  BY <1>1, FieldTyping
<1>3. PICK p \in {NoRef} \cup Live("projects") :
          /\ Spare("sites") # {}
          /\ Stage(s, Insert("sites", [project |-> p, active |-> TRUE]))
  BY DEF SiteCreate
<1>4. PICK given : given = [project |-> p, active |-> TRUE]
  OBVIOUS
<1>5. /\ DOMAIN given = {"project", "active"}
      /\ given.project \in {NoRef} \cup Table("projects") /\ given.active \in BOOLEAN
  BY <1>1, <1>4
<1>6. /\ DOMAIN PlaceTypes = {"there"} \cup DOMAIN given
      /\ \A c \in DOMAIN given \ {"there"} : given[c] \in PlaceTypes[c]
  BY <1>5, PlaceColumns
<1>7. PICK writes : writes = Insert("sites", given)
  OBVIOUS
<1>8. Plain(writes, types)
  BY <1>2, <1>3, <1>6, <1>7, PlainInsert DEF DatedNames
<1>9. StageLocked(s, {}, writes)
  BY <1>3, <1>4, <1>7 DEF Stage
<1>10. \A r \in DOMAIN writes : r \in Table("sites") /\ writes[r].there
  <2>1. NewRow("sites") \in Table("sites")
    BY <1>1, <1>3, NewRowIsSpare
  <2>2. Over([there |-> TRUE], given).there
    BY DEF Over
  <2> QED BY <1>7, <2>1, <2>2, InsertIs
<1> QED BY <1>8, <1>9, <1>10

LEMMA SiteUpdates ==
    ASSUME NEW types, NEW sound, FieldFits(types, sound), NEW s \in Sessions, SiteUpdate(s)
    PROVE  \E writes : Plain(writes, types) /\ StageLocked(s, {}, writes)
                       /\ \A r \in DOMAIN writes : r \in Table("sites") /\ "there" \notin DOMAIN writes[r]
<1>1. /\ types = FieldTypes /\ Live("projects") \subseteq Table("projects")
      /\ Live("sites") \subseteq Table("sites")
  BY FieldHas
<1>2. \A r \in Table("sites") : types[r] = PlaceTypes
  BY <1>1, FieldTyping
<1>3. PICK l \in Live("sites"),
           cols \in [project : {NoRef} \cup Live("projects")] \cup [active : BOOLEAN] :
          Stage(s, Set(l, cols))
  BY DEF SiteUpdate
<1>4. \/ DOMAIN cols = {"project"} /\ cols.project \in {NoRef} \cup Live("projects")
      \/ DOMAIN cols = {"active"} /\ cols.active \in BOOLEAN
  OBVIOUS
<1>5. /\ DOMAIN cols \subseteq DOMAIN PlaceTypes \ {"there"}
      /\ \A c \in DOMAIN cols : cols[c] \in PlaceTypes[c]
  BY <1>1, <1>4, PlaceColumns
<1>6. l \in Table("sites") /\ types[l] = PlaceTypes
  BY <1>1, <1>2
<1>7. Plain(Set(l, cols), types)
  BY <1>5, <1>6, PlainSet DEF DatedNames
<1>8. \A r \in DOMAIN Set(l, cols) : r \in Table("sites") /\ "there" \notin DOMAIN Set(l, cols)[r]
  BY <1>5, <1>6 DEF Set
<1>9. StageLocked(s, {}, Set(l, cols))
  BY <1>3 DEF Stage
<1> QED BY <1>7, <1>8, <1>9

\* Fuel that is delivered and allocated.
LEMMA GroundWrites ==
    ASSUME NEW types, NEW sound, FieldFits(types, sound), NEW s \in Sessions, FuelStep(s)
    PROVE  WritesSound(s, types, sound)
<1>1. /\ types = FieldTypes
      /\ \A name : Live(name) \subseteq Table(name) /\ Table(name) \subseteq DOMAIN rows
  BY FieldHas
<1>2. /\ \A r \in Table("deliveries") : types[r] = DeliveryTypes
      /\ \A r \in Table("allocations") : types[r] = AllocationTypes
  BY <1>1, FieldTyping
<1>3. {} \subseteq DOMAIN rows \cup Advisory
  OBVIOUS
<1>4. CASE SiteCreate(s) \/ SiteUpdate(s)
  BY <1>4, SiteCreates, SiteUpdates, <1>3, PlainWrites
<1>5. CASE FuelDelivery(s)
  BY <1>5, <1>1, DeliveryColumns, <1>2, PlainInsert, VendorWrites DEF FuelDelivery,
     OpenSites, DatedNames
<1>6. CASE FuelAllocation(s)
  BY <1>6, <1>1, AllocationColumns, <1>2, <1>3, FieldInserts DEF FuelAllocation, OpenSites,
     Stage, DatedNames
<1>7. CASE FuelAllocationUpdate(s)
  BY <1>7, <1>1, AllocationColumns, <1>2, <1>3, FieldSets DEF FuelAllocationUpdate, Stage,
     DatedNames
<1> QED BY <1>4, <1>5, <1>6, <1>7 DEF FuelStep

\* The logs of a machine.
LEMMA LogWrites ==
    ASSUME NEW types, NEW sound, FieldFits(types, sound), NEW s \in Sessions, LogStep(s)
    PROVE  WritesSound(s, types, sound)
<1>1. /\ types = FieldTypes
      /\ \A name : Live(name) \subseteq Table(name) /\ Table(name) \subseteq DOMAIN rows
  BY FieldHas
<1>2. /\ \A r \in Table("logs") : types[r] = LogTypes
      /\ \A r \in Table("machines") : types[r] = PlantTypes
  BY <1>1, FieldTyping
<1>3. "logs" \notin DatedNames /\ "machines" \notin DatedNames
  BY DEF DatedNames
<1>4. CASE CreateLog(s)
  BY <1>4, LogColumns, <1>1, <1>2, <1>3, FieldInserts DEF CreateLog, WritableAsset
<1>5. CASE EditLog(s)
  BY <1>5, LogColumns, <1>1, <1>2, <1>3, FieldSets DEF EditLog, WritableAsset
<1>6. CASE RetireMachine(s)
  <2>1. PICK m \in Live("machines") : StageLocked(s, {m}, Set(m, [active |-> FALSE]))
    BY <1>6 DEF RetireMachine
  <2>2. PICK cols : cols = [active |-> FALSE]
    OBVIOUS
  <2>3. DOMAIN cols = {"active"} /\ cols.active \in BOOLEAN
    BY <2>2
  <2>4. /\ DOMAIN cols \subseteq DOMAIN PlantTypes \ {"there"}
        /\ \A c \in DOMAIN cols : cols[c] \in PlantTypes[c]
    BY <2>3, PlantColumns
  <2>5. /\ StageLocked(s, {m}, Set(m, cols)) /\ {m} \subseteq DOMAIN rows \cup Advisory
        /\ types[m] = PlantTypes
    BY <1>1, <1>2, <2>1, <2>2
  <2> QED BY <1>3, <2>4, <2>5, FieldSets
<1> QED BY <1>4, <1>5, <1>6 DEF LogStep

\* Consumables that are used.
LEMMA ConsumptionWrites ==
    ASSUME NEW types, NEW sound, FieldFits(types, sound), NEW s \in Sessions, LogConsumption(s)
    PROVE  WritesSound(s, types, sound)
  BY FieldHas, FieldTyping, IssueColumns, FieldInserts DEF LogConsumption, InventoryLock,
     Advisory, DatedNames

\* Files of items and opening stock.
LEMMA PreviewWrites ==
    ASSUME NEW types, NEW sound, FieldFits(types, sound), NEW s \in Sessions,
           MasterSave(s) \/ PreviewImport(s)
    PROVE  WritesSound(s, types, sound)
<1>1. types = FieldTypes
  BY FieldHas
<1>2. /\ \A r \in Table("items") : types[r] = ImportedTypes
      /\ \A r \in Table("imports") : types[r] = ImportTypes
  BY <1>1, FieldTyping
<1>3. InventoryLock \subseteq DOMAIN rows \cup Advisory
  BY DEF InventoryLock, Advisory
<1>4. "items" \notin DatedNames /\ "imports" \notin DatedNames
  BY DEF DatedNames
<1>5. CASE MasterSave(s)
  BY <1>5, ImportedColumns, <1>2, <1>3, <1>4, FieldInserts DEF MasterSave
<1>6. CASE PreviewImport(s)
  <2>1. PICK kind \in ImportKinds, code \in Names :
            /\ Spare("imports") # {}
            /\ StageLocked(s, InventoryLock,
                  Insert("imports", [kind |-> kind, code |-> code, status |-> "PREVIEW",
                                     errors |-> RowFails(kind, code)]))
    BY <1>6 DEF PreviewImport
  <2>2. PICK given : given = [kind |-> kind, code |-> code, status |-> "PREVIEW",
                              errors |-> RowFails(kind, code)]
    OBVIOUS
  <2>3. RowFails(kind, code) \in BOOLEAN
    BY DEF RowFails
  <2>4. /\ DOMAIN given = {"kind", "code", "status", "errors"} /\ given.kind \in ImportKinds
        /\ given.code \in Names /\ given.status = "PREVIEW" /\ given.errors \in BOOLEAN
    BY <2>2, <2>3
  <2>5. /\ DOMAIN ImportTypes = {"there"} \cup DOMAIN given
        /\ \A c \in DOMAIN given \ {"there"} : given[c] \in ImportTypes[c]
    BY <2>4, ImportColumns
  <2>6. StageLocked(s, InventoryLock, Insert("imports", given))
    BY <2>1, <2>2
  <2> QED BY <1>2, <1>3, <1>4, <2>1, <2>5, <2>6, FieldInserts
<1> QED BY <1>5, <1>6

LEMMA ConfirmWrites ==
    ASSUME NEW types, NEW sound, FieldFits(types, sound), NEW s \in Sessions, ConfirmImport(s)
    PROVE  WritesSound(s, types, sound)
<1>1. /\ types = FieldTypes
      /\ \A name : Live(name) \subseteq Table(name) /\ Table(name) \subseteq DOMAIN rows
  BY FieldHas
<1>2. /\ \A r \in Table("items") \cup Table("receipts") : types[r] = ImportedTypes
      /\ \A r \in Table("imports") : types[r] = ImportTypes
  BY <1>1, FieldTyping
<1>3. PICK i \in Live("imports") :
          /\ Spare(rows[i].kind) # {}
          /\ StageLocked(s, InventoryLock \cup {i},
                Over(Set(i, [status |-> "COMPLETED"]),
                     Insert(rows[i].kind, [code |-> rows[i].code, import |-> i])))
  BY DEF ConfirmImport
<1>4. i \in Table("imports") /\ i \in DOMAIN rows /\ types[i] = ImportTypes
  BY <1>1, <1>2
<1>5. rows[i].kind \in ImportKinds /\ rows[i].code \in Names
  BY <1>4, FieldRow, ImportColumns DEF IsRow
<1>6. PICK kind, given, cols : /\ kind = rows[i].kind
                               /\ given = [code |-> rows[i].code, import |-> i]
                               /\ cols = [status |-> "COMPLETED"]
  OBVIOUS
<1>7. /\ DOMAIN given = {"code", "import"} /\ given.code \in Names
      /\ given.import \in {NoRef} \cup Table("imports")
      /\ DOMAIN cols = {"status"} /\ cols.status = "COMPLETED"
  BY <1>4, <1>5, <1>6
<1>8. /\ DOMAIN ImportedTypes = {"there"} \cup DOMAIN given
      /\ \A c \in DOMAIN given \ {"there"} : given[c] \in ImportedTypes[c]
  BY <1>7, ImportedColumns
<1>9. /\ DOMAIN cols \subseteq DOMAIN ImportTypes \ {"there"}
      /\ \A c \in DOMAIN cols : cols[c] \in ImportTypes[c]
  BY <1>7, ImportColumns
<1>10. kind \in {"items", "receipts"} /\ kind \notin DatedNames /\ "imports" \notin DatedNames
  BY <1>5, <1>6 DEF ImportKinds, DatedNames
<1>11. PICK file, row, writes : /\ file = Set(i, cols) /\ row = Insert(kind, given)
                                /\ writes = Over(file, row)
  OBVIOUS
<1>12. Plain(file, types)
  BY <1>4, <1>9, <1>10, <1>11, PlainSet
<1>13. Plain(row, types)
  BY <1>2, <1>10, <1>3, <1>6, <1>8, <1>11, PlainInsert
<1>14. Plain(writes, types)
  BY <1>11, <1>12, <1>13, PlainOver
<1>15. PICK locked : locked = InventoryLock \cup {i}
  OBVIOUS
<1>16. locked \subseteq DOMAIN rows \cup Advisory
  BY <1>4, <1>15 DEF InventoryLock, Advisory
<1>17. StageLocked(s, locked, writes)
  BY <1>3, <1>6, <1>11, <1>15
<1> QED BY <1>14, <1>16, <1>17, PlainWrites

\* A handler that marks what it is done with, among writes without dates.
MarksPlain(s, types, name, done, mark, unset) ==
    \E locked, writes :
        /\ locked \subseteq DOMAIN rows \cup Advisory
        /\ Plain(writes, types) /\ Marking(writes, name, done, mark, unset)
        /\ StageLocked(s, locked, writes)

LEMMA MarksWrite ==
    ASSUME NEW types, NEW sound, FieldFits(types, sound), NEW s \in Sessions, NEW name, NEW done,
           NEW mark, NEW unset, MarksPlain(s, types, name, done, mark, unset)
    PROVE  WritesSound(s, types, sound)
  BY PlainWrites DEF MarksPlain

\* Rows of other tables are marked if none is taken away.
LEMMA MarkingOthers ==
    ASSUME NEW writes, NEW name, NEW done, NEW mark, NEW unset,
           \A r \in DOMAIN writes : /\ r \notin Table(name)
                                    /\ "there" \in DOMAIN writes[r] => writes[r].there
    PROVE  Marking(writes, name, done, mark, unset)
  BY DEF Marking

LEMMA MarkingOver ==
    ASSUME NEW a, NEW b, NEW name, NEW done, NEW mark, NEW unset,
           Marking(a, name, done, mark, unset), Marking(b, name, done, mark, unset)
    PROVE  Marking(Over(a, b), name, done, mark, unset)
  BY DEF Over, Marking

\* Sites are of another table.
LEMMA SiteMarks ==
    ASSUME NEW types, NEW sound, FieldFits(types, sound), NEW s \in Sessions,
           SiteCreate(s) \/ SiteUpdate(s),
           NEW name, name # "sites", NEW done, NEW mark, NEW unset
    PROVE  MarksPlain(s, types, name, done, mark, unset)
  BY SiteCreates, SiteUpdates, MarkingOthers DEF Table, MarksPlain

\* A new action is open.
LEMMA NewActionMarks ==
    ASSUME NEW types, NEW sound, FieldFits(types, sound), NEW i \in Table("incidents"),
           Spare("actions") # {}
    PROVE  Plain(NewAction(i), types) /\ Marking(NewAction(i), "actions", "CLOSED", "closedAt", NoDay)
<1>1. /\ types = FieldTypes /\ \A r \in Table("actions") : r[2] \in Nat
  BY FieldHas
<1>2. \A r \in Table("actions") : types[r] = ActionTypes
  BY <1>1, FieldTyping
<1>3. PICK given : given = [incident |-> i, status |-> "OPEN", closedAt |-> NoDay]
  OBVIOUS
<1>4. /\ DOMAIN given = {"incident", "status", "closedAt"}
      /\ given.incident \in Table("incidents") /\ given.status = "OPEN" /\ given.closedAt = NoDay
  BY <1>3
<1>5. /\ DOMAIN ActionTypes = {"there"} \cup DOMAIN given
      /\ \A c \in DOMAIN given \ {"there"} : given[c] \in ActionTypes[c]
  BY <1>4, ActionColumns DEF Dates
<1>6. PICK r, writes : r = NewRow("actions") /\ writes = Insert("actions", given)
  OBVIOUS
<1>7. Plain(writes, types)
  BY <1>2, <1>5, <1>6, PlainInsert DEF DatedNames
<1>8. ~There(r) /\ \A t \in Sessions : r \notin DOMAIN open[t].writes
  BY <1>1, <1>6, NewRowIsSpare DEF Spare
<1>9. DOMAIN writes = {r} /\ writes[r] = Over([there |-> TRUE], given)
  BY <1>6, InsertIs
<1>10. /\ "there" \in DOMAIN writes[r] /\ writes[r].there
       /\ "status" \in DOMAIN writes[r] /\ writes[r].status = "OPEN"
  BY <1>4, <1>9 DEF Over
<1>11. Marking(writes, "actions", "CLOSED", "closedAt", NoDay)
  BY <1>8, <1>9, <1>10 DEF Marking
<1> QED BY <1>3, <1>6, <1>7, <1>11 DEF NewAction

\* Incidents.
LEMMA IncidentMarks ==
    ASSUME NEW types, NEW sound, FieldFits(types, sound), NEW s \in Sessions,
           CreateIncident(s) \/ UpdateIncident(s)
    PROVE  MarksPlain(s, types, "actions", "CLOSED", "closedAt", NoDay)
<1>1. /\ types = FieldTypes /\ \A r \in Table("incidents") : r[2] \in Nat /\ r[1] = "incidents"
      /\ \A name : Live(name) \subseteq Table(name)
  BY FieldHas
<1>2. \A r \in Table("incidents") : types[r] = IncidentTypes /\ r \notin Table("actions")
  BY <1>1, FieldTyping DEF Table
<1>3. {} \subseteq DOMAIN rows \cup Advisory
  OBVIOUS
<1>4. CASE CreateIncident(s)
  <2>1. PICK p, actions, l :
            /\ p \in Live("projects") /\ actions \in BOOLEAN /\ l \in {NoRef} \cup OpenSites(p)
            /\ Spare("incidents") # {} /\ Spare("actions") # {}
            /\ Stage(s, Over(Insert("incidents", [project |-> p, site |-> l,
                                                  status |-> "REPORTED"]),
                             IF actions THEN NewAction(NewRow("incidents")) ELSE <<>>))
    BY <1>4 DEF CreateIncident
  <2>2. PICK given : given = [project |-> p, site |-> l, status |-> "REPORTED"]
    OBVIOUS
  <2>3. /\ DOMAIN given = {"project", "site", "status"}
        /\ given.project \in Table("projects") /\ given.site \in {NoRef} \cup Table("sites")
        /\ given.status \in IncidentStatuses
    BY <1>1, <2>1, <2>2 DEF OpenSites, IncidentStatuses
  <2>4. /\ DOMAIN IncidentTypes = {"there"} \cup DOMAIN given
        /\ \A c \in DOMAIN given \ {"there"} : given[c] \in IncidentTypes[c]
    BY <2>3, IncidentColumns
  <2>5. PICK i, one, more, writes :
            /\ i = NewRow("incidents") /\ one = Insert("incidents", given)
            /\ more = (IF actions THEN NewAction(NewRow("incidents")) ELSE <<>>)
            /\ writes = Over(one, more)
    OBVIOUS
  <2>6. i \in Table("incidents")
    BY <1>1, <2>1, <2>5, NewRowIsSpare
  <2>7. Plain(one, types)
    BY <1>2, <2>1, <2>4, <2>5, PlainInsert DEF DatedNames
  <2>8. Marking(one, "actions", "CLOSED", "closedAt", NoDay)
    <3>1. DOMAIN one = {i} /\ one[i] = Over([there |-> TRUE], given)
      BY <2>5, InsertIs
    <3>2. one[i].there
      BY <3>1 DEF Over
    <3> QED BY <1>2, <2>6, <3>1, <3>2, MarkingOthers
  <2>9. Plain(more, types) /\ Marking(more, "actions", "CLOSED", "closedAt", NoDay)
    BY <2>5, <2>1, <2>6, NewActionMarks, PlainNothing DEF Marking
  <2>10. Plain(writes, types) /\ Marking(writes, "actions", "CLOSED", "closedAt", NoDay)
    BY <2>5, <2>7, <2>8, <2>9, PlainOver, MarkingOver
  <2>11. StageLocked(s, {}, writes)
    BY <2>1, <2>2, <2>5 DEF Stage
  <2> QED BY <1>3, <2>10, <2>11 DEF MarksPlain
<1>5. CASE UpdateIncident(s)
  <2>1. PICK i \in Live("incidents"), status \in IncidentStatuses :
            Stage(s, Set(i, [status |-> status]))
    BY <1>5 DEF UpdateIncident
  <2>2. PICK cols, writes : cols = [status |-> status] /\ writes = Set(i, cols)
    OBVIOUS
  <2>3. DOMAIN cols = {"status"} /\ cols.status \in IncidentStatuses
    BY <2>2
  <2>4. /\ DOMAIN cols \subseteq DOMAIN IncidentTypes \ {"there"}
        /\ \A c \in DOMAIN cols : cols[c] \in IncidentTypes[c]
    BY <2>3, IncidentColumns
  <2>5. i \in Table("incidents") /\ types[i] = IncidentTypes
    BY <1>1, <1>2
  <2>6. Plain(writes, types)
    BY <2>2, <2>4, <2>5, PlainSet DEF DatedNames
  <2>7. DOMAIN writes = {i} /\ writes[i] = cols
    BY <2>2 DEF Set
  <2>8. Marking(writes, "actions", "CLOSED", "closedAt", NoDay)
    BY <1>2, <2>3, <2>5, <2>7, MarkingOthers
  <2>9. StageLocked(s, {}, writes)
    BY <2>1, <2>2 DEF Stage
  <2> QED BY <1>3, <2>6, <2>8, <2>9 DEF MarksPlain
<1> QED BY <1>4, <1>5

\* Actions: one that is closed says since when.
LEMMA ActionMarks ==
    ASSUME NEW types, NEW sound, FieldFits(types, sound), NEW s \in Sessions,
           AddActionToIncident(s) \/ UpdateAction(s)
    PROVE  MarksPlain(s, types, "actions", "CLOSED", "closedAt", NoDay)
<1>1. /\ types = FieldTypes /\ \A name : Live(name) \subseteq Table(name)
  BY FieldHas
<1>2. {} \subseteq DOMAIN rows \cup Advisory
  OBVIOUS
<1>3. CASE AddActionToIncident(s)
  BY <1>3, <1>1, NewActionMarks, <1>2 DEF AddActionToIncident, Stage, MarksPlain
<1>4. CASE UpdateAction(s)
  <2>1. PICK a \in Live("actions"), status \in {"OPEN", "CLOSED"} :
            Stage(s, Set(a, IF status = "CLOSED" /\ rows[a].closedAt = NoDay
                            THEN [status |-> status, closedAt |-> Today]
                            ELSE [status |-> status]))
    BY <1>4 DEF UpdateAction
  <2>2. PICK cols : cols = IF status = "CLOSED" /\ rows[a].closedAt = NoDay
                           THEN [status |-> status, closedAt |-> Today] ELSE [status |-> status]
    OBVIOUS
  <2>3. Today \in Days /\ Today # NoDay
    BY RowStoreAssumption DEF RowStoreAssumption, NoDay
  <2>4. /\ DOMAIN cols \subseteq {"status", "closedAt"} /\ "status" \in DOMAIN cols
        /\ cols.status = status
        /\ "closedAt" \in DOMAIN cols => cols.closedAt = Today
        /\ status = "CLOSED" /\ rows[a].closedAt = NoDay => "closedAt" \in DOMAIN cols
    BY <2>2
  <2>5. /\ DOMAIN cols \subseteq DOMAIN ActionTypes \ {"there"}
        /\ \A c \in DOMAIN cols : cols[c] \in ActionTypes[c]
    BY <2>1, <2>3, <2>4, ActionColumns DEF Dates
  <2>6. a \in Table("actions") /\ types[a] = ActionTypes /\ There(a)
    BY <1>1, FieldRow, FieldTyping
  <2>7. PICK writes : writes = Set(a, cols)
    OBVIOUS
  <2>8. Plain(writes, types)
    BY <2>5, <2>6, <2>7, PlainSet DEF DatedNames
  <2>9. DOMAIN writes = {a} /\ writes[a] = cols
    BY <2>7 DEF Set
  <2>10. Marking(writes, "actions", "CLOSED", "closedAt", NoDay)
    BY <2>3, <2>4, <2>6, <2>9 DEF Marking
  <2>11. StageLocked(s, {}, writes)
    BY <2>1, <2>2, <2>7 DEF Stage
  <2> QED BY <1>2, <2>8, <2>10, <2>11 DEF MarksPlain
<1> QED BY <1>3, <1>4

LEMMA SafetyMarks ==
    ASSUME NEW types, NEW sound, FieldFits(types, sound), NEW s \in Sessions, SafetyStep(s)
    PROVE  MarksPlain(s, types, "actions", "CLOSED", "closedAt", NoDay)
  BY SiteMarks, IncidentMarks, ActionMarks DEF SafetyStep

\* Job cards for breakdowns.
LEMMA BreakdownWrites ==
    ASSUME NEW types, NEW sound, FieldFits(types, sound), NEW s \in Sessions,
           CreateBreakdown(s) \/ UpdateBreakdown(s) \/ SiteUpdate(s)
    PROVE  WritesSound(s, types, sound)
<1>1. types = FieldTypes /\ Live("breakdowns") \subseteq Table("breakdowns")
  BY FieldHas
<1>2. \A r \in Table("breakdowns") : types[r] = BreakdownTypes
  BY <1>1, FieldTyping
<1>3. {} \subseteq DOMAIN rows \cup Advisory /\ "breakdowns" \notin DatedNames
  BY DEF DatedNames
<1>4. CASE CreateBreakdown(s)
  BY <1>4, BreakdownColumns, <1>2, <1>3, FieldInserts DEF CreateBreakdown, PlacedAt, Over,
     CardStatuses, Stage
<1>5. CASE UpdateBreakdown(s)
  BY <1>5, BreakdownColumns, <1>1, <1>2, <1>3, FieldSets DEF UpdateBreakdown, Stage
<1>6. CASE SiteUpdate(s)
  BY <1>6, SiteUpdates, <1>3, PlainWrites
<1> QED BY <1>4, <1>5, <1>6

\* Preventive cards: one that is completed says when.
LEMMA CardCreateMarks ==
    ASSUME NEW types, NEW sound, FieldFits(types, sound), NEW s \in Sessions, CreateCard(s)
    PROVE  MarksPlain(s, types, "cards", "COMPLETED", "completed", FALSE)
<1>1. /\ types = FieldTypes /\ \A name : Live(name) \subseteq Table(name)
      /\ \A r \in Table("cards") : r[2] \in Nat
  BY FieldHas
<1>2. \A r \in Table("cards") : types[r] = CardTypes
  BY <1>1, FieldTyping
<1>3. PICK number, place, machine, order :
          /\ number \in Names /\ place \in PlacedAt /\ machine \in {NoRef} \cup Live("machines")
          /\ order \in {NoRef} \cup Live("orders") /\ Spare("cards") # {}
          /\ Stage(s, Insert("cards", Over(place, [number |-> number, machine |-> machine,
                                                   order |-> order, status |-> "DRAFT",
                                                   completed |-> FALSE])))
  BY DEF CreateCard
<1>4. /\ DOMAIN place = {"project", "site"}
      /\ place.project \in {NoRef} \cup Table("projects")
      /\ place.site \in {NoRef} \cup Table("sites")
  BY <1>3 DEF PlacedAt
<1>5. PICK draft : draft = [number |-> number, machine |-> machine, order |-> order,
                            status |-> "DRAFT", completed |-> FALSE]
  OBVIOUS
<1>6. /\ DOMAIN draft = {"number", "machine", "order", "status", "completed"}
      /\ draft.number = number /\ draft.machine = machine /\ draft.order = order
      /\ draft.status = "DRAFT" /\ draft.completed = FALSE
  BY <1>5
<1>7. PICK given : given = Over(place, draft)
  OBVIOUS
<1>8. /\ DOMAIN given = DOMAIN place \cup DOMAIN draft
      /\ given.project = place.project /\ given.site = place.site
      /\ given.number = number /\ given.machine = machine /\ given.order = order
      /\ given.status = "DRAFT" /\ given.completed = FALSE
  BY <1>4, <1>6, <1>7 DEF Over
<1>9. /\ given.project \in CardTypes.project /\ given.site \in CardTypes.site
      /\ given.number \in CardTypes.number /\ given.machine \in CardTypes.machine
      /\ given.order \in CardTypes.order /\ given.status \in CardTypes.status
      /\ given.completed \in CardTypes.completed
  BY <1>1, <1>3, <1>4, <1>8, CardColumns DEF CardStatuses
<1>10. /\ DOMAIN CardTypes = {"there"} \cup DOMAIN given
       /\ \A c \in DOMAIN given \ {"there"} : given[c] \in CardTypes[c]
  BY <1>4, <1>6, <1>8, <1>9, CardColumns
<1>11. PICK r, writes : r = NewRow("cards") /\ writes = Insert("cards", given)
  OBVIOUS
<1>12. Plain(writes, types)
  BY <1>2, <1>3, <1>10, <1>11, PlainInsert DEF DatedNames
<1>13. ~There(r) /\ \A t \in Sessions : r \notin DOMAIN open[t].writes
  BY <1>1, <1>3, <1>11, NewRowIsSpare DEF Spare
<1>14. DOMAIN writes = {r} /\ writes[r] = Over([there |-> TRUE], given)
  BY <1>11, InsertIs
<1>15. /\ "there" \in DOMAIN writes[r] /\ writes[r].there
       /\ "status" \in DOMAIN writes[r] /\ writes[r].status = "DRAFT"
  BY <1>6, <1>8, <1>14 DEF Over
<1>16. Marking(writes, "cards", "COMPLETED", "completed", FALSE)
  BY <1>13, <1>14, <1>15 DEF Marking
<1>17. {} \subseteq DOMAIN rows \cup Advisory /\ StageLocked(s, {}, writes)
  BY <1>3, <1>5, <1>7, <1>11 DEF Stage
<1> QED BY <1>12, <1>16, <1>17 DEF MarksPlain

LEMMA CardUpdateMarks ==
    ASSUME NEW types, NEW sound, FieldFits(types, sound), NEW s \in Sessions, UpdateCard(s)
    PROVE  MarksPlain(s, types, "cards", "COMPLETED", "completed", FALSE)
<1>1. /\ types = FieldTypes /\ \A name : Live(name) \subseteq Table(name)
  BY FieldHas
<1>2. PICK c \in Live("cards"),
           body \in [status : CardStatuses] \cup [number : Names]
                    \cup [site : {NoRef} \cup Table("sites")]
                    \cup [project : {NoRef} \cup Table("projects")]
                    \cup [machine : {NoRef} \cup Live("machines")] \cup [order : Live("orders")] :
          Stage(s, Set(c, IF Over(body, rows[c]).status = "COMPLETED" /\ ~Over(body, rows[c]).completed
                          THEN Over([completed |-> TRUE], body) ELSE body))
  BY DEF UpdateCard
<1>3. /\ c \in Table("cards") /\ types[c] = CardTypes /\ There(c) /\ IsRow(rows[c], CardTypes)
  BY <1>1, FieldRow, FieldTyping
<1>4. /\ DOMAIN body \subseteq DOMAIN CardTypes \ {"there", "completed"}
      /\ \A a \in DOMAIN body : body[a] \in CardTypes[a]
  BY CardColumns, <1>1
<1>5. PICK row, mark, cols : /\ row = Over(body, rows[c]) /\ mark = [completed |-> TRUE]
                             /\ cols = IF row.status = "COMPLETED" /\ ~row.completed
                                       THEN Over(mark, body) ELSE body
  OBVIOUS
<1>6. /\ row.completed = rows[c].completed
      /\ "status" \in DOMAIN body => row.status = body.status
  BY <1>3, CardColumns, <1>4, <1>5 DEF IsRow, Over
<1>7. DOMAIN mark = {"completed"} /\ mark.completed = TRUE
  BY <1>5
<1>8. /\ DOMAIN cols \subseteq DOMAIN body \cup {"completed"}
      /\ \A a \in DOMAIN body : a \in DOMAIN cols /\ cols[a] = body[a]
      /\ "completed" \in DOMAIN cols => cols.completed = TRUE
      /\ row.status = "COMPLETED" /\ ~row.completed => "completed" \in DOMAIN cols
  BY <1>4, <1>7, <1>5 DEF Over
<1>9. /\ DOMAIN cols \subseteq DOMAIN CardTypes \ {"there"}
      /\ \A a \in DOMAIN cols : cols[a] \in CardTypes[a]
  BY <1>4, <1>8, CardColumns
<1>10. PICK writes : writes = Set(c, cols)
  OBVIOUS
<1>11. Plain(writes, types)
  BY <1>3, <1>9, <1>10, PlainSet DEF DatedNames
<1>12. DOMAIN writes = {c} /\ writes[c] = cols
  BY <1>10 DEF Set
<1>13. /\ "completed" \in DOMAIN cols => cols.completed # FALSE
       /\ "status" \in DOMAIN cols /\ cols.status = "COMPLETED" =>
             "completed" \in DOMAIN cols \/ rows[c].completed # FALSE
  BY <1>8, <1>6
<1>14. Marking(writes, "cards", "COMPLETED", "completed", FALSE)
  BY <1>3, <1>9, <1>12, <1>13 DEF Marking
<1>15. {} \subseteq DOMAIN rows \cup Advisory /\ StageLocked(s, {}, writes)
  BY <1>2, <1>5, <1>10 DEF Stage
<1> QED BY <1>11, <1>14, <1>15 DEF MarksPlain

\* Assessment reports.
LEMMA AssessmentWrites ==
    ASSUME NEW types, NEW sound, FieldFits(types, sound), NEW s \in Sessions,
           CreateAssessment(s) \/ UpdateAssessment(s)
    PROVE  WritesSound(s, types, sound)
<1>1. types = FieldTypes /\ Live("assessments") \subseteq Table("assessments")
  BY FieldHas
<1>2. \A r \in Table("assessments") : types[r] = AssessmentTypes
  BY <1>1, FieldTyping
<1>3. {} \subseteq DOMAIN rows \cup Advisory
  OBVIOUS
<1>4. CASE CreateAssessment(s)
  BY <1>4, AssessmentColumns, <1>2, <1>3, FieldInserts DEF CreateAssessment, Stage, InOrder
<1>5. CASE UpdateAssessment(s)
  BY <1>5, AssessmentColumns, <1>1, <1>2, <1>3, FieldSets DEF UpdateAssessment, Stage
<1> QED BY <1>4, <1>5

\* Tracked actions.
LEMMA TrackedWrites ==
    ASSUME NEW types, NEW sound, FieldFits(types, sound), NEW s \in Sessions,
           CreateTrackedAction(s) \/ UpdateTrackedAction(s)
    PROVE  WritesSound(s, types, sound)
<1>1. types = FieldTypes /\ Live("tracked") \subseteq Table("tracked")
  BY FieldHas
<1>2. \A r \in Table("tracked") : types[r] = TrackedTypes
  BY <1>1, FieldTyping
<1>3. {} \subseteq DOMAIN rows \cup Advisory
  OBVIOUS
<1>4. CASE CreateTrackedAction(s)
  BY <1>4, TrackedColumns, <1>2, <1>3, FieldInserts DEF CreateTrackedAction, Stage
<1>5. CASE UpdateTrackedAction(s)
  BY <1>5, TrackedColumns, <1>1, <1>2, <1>3, FieldSets DEF UpdateTrackedAction, Stage
<1> QED BY <1>4, <1>5

\* Plans of maintenance, and the register of the equipment.
LEMMA PlanWrites ==
    ASSUME NEW types, NEW sound, FieldFits(types, sound), NEW s \in Sessions,
           CreatePlan(s) \/ UpdatePlan(s)
    PROVE  WritesSound(s, types, sound)
<1>1. types = FieldTypes /\ Live("plans") \subseteq Table("plans")
  BY FieldHas
<1>2. \A r \in Table("plans") : types[r] = PlanTypes
  BY <1>1, FieldTyping
<1>3. {} \subseteq DOMAIN rows \cup Advisory /\ "plans" \notin DatedNames
  BY DEF DatedNames
<1>4. ASSUME NEW plan \in {"PLANNED", "ACTUAL"}, NEW given, given = [plan |-> plan]
      PROVE  /\ DOMAIN PlanTypes = {"there"} \cup DOMAIN given
             /\ DOMAIN given \subseteq DOMAIN PlanTypes \ {"there"}
             /\ \A c \in DOMAIN given : given[c] \in PlanTypes[c]
  BY <1>4, PlanColumns
<1>5. CASE CreatePlan(s)
  <2>1. PICK plan \in {"PLANNED", "ACTUAL"} :
            Spare("plans") # {} /\ Stage(s, Insert("plans", [plan |-> plan]))
    BY <1>5 DEF CreatePlan
  <2>2. PICK given : given = [plan |-> plan]
    OBVIOUS
  <2>3. StageLocked(s, {}, Insert("plans", given))
    BY <2>1, <2>2 DEF Stage
  <2>4. /\ DOMAIN PlanTypes = {"there"} \cup DOMAIN given
        /\ \A c \in DOMAIN given : given[c] \in PlanTypes[c]
    BY <1>4, <2>2
  <2> QED BY <1>2, <1>3, <2>1, <2>3, <2>4, FieldInserts
<1>6. CASE UpdatePlan(s)
  <2>1. PICK p \in Live("plans"), plan \in {"PLANNED", "ACTUAL"} :
            Stage(s, Set(p, [plan |-> plan]))
    BY <1>6 DEF UpdatePlan
  <2>2. PICK cols : cols = [plan |-> plan]
    OBVIOUS
  <2>3. StageLocked(s, {}, Set(p, cols)) /\ types[p] = PlanTypes
    BY <1>1, <1>2, <2>1, <2>2 DEF Stage
  <2>4. /\ DOMAIN cols \subseteq DOMAIN PlanTypes \ {"there"}
        /\ \A c \in DOMAIN cols : cols[c] \in PlanTypes[c]
    BY <1>4, <2>2
  <2> QED BY <1>3, <2>3, <2>4, FieldSets
<1> QED BY <1>5, <1>6

LEMMA EntryWrites ==
    ASSUME NEW types, NEW sound, FieldFits(types, sound), NEW s \in Sessions,
           CreateEntry(s) \/ UpdateEntry(s)
    PROVE  WritesSound(s, types, sound)
<1>1. /\ types = FieldTypes /\ Live("entries") \subseteq Table("entries")
      /\ Table("entries") \subseteq DOMAIN rows
  BY FieldHas
<1>2. \A r \in Table("entries") : types[r] = EntryTypes
  BY <1>1, FieldTyping
<1>3. {} \subseteq DOMAIN rows \cup Advisory /\ "entries" \notin DatedNames
  BY DEF DatedNames
<1>4. ASSUME NEW e \in Live("entries"), NEW cols,
             \/ DOMAIN cols = {"status"} /\ cols.status \in Days
             \/ DOMAIN cols = {"equipment"} /\ cols.equipment \in Names,
             NEW locked, locked \subseteq DOMAIN rows \cup Advisory, StageLocked(s, locked, Set(e, cols))
      PROVE  WritesSound(s, types, sound)
  BY <1>4, EntryColumns, <1>1, <1>2, <1>3, FieldSets
<1>5. CASE CreateEntry(s)
  <2>1. PICK equipment \in Names, status \in Days :
            \/ \E e \in {x \in Live("entries") : rows[x].equipment = equipment} :
                  StageLocked(s, {x \in Live("entries") : rows[x].equipment = equipment},
                              Set(e, [status |-> status]))
            \/ /\ Spare("entries") # {}
               /\ Stage(s, Insert("entries", [equipment |-> equipment, status |-> status]))
    BY <1>5 DEF CreateEntry
  <2>2. CASE \E e \in {x \in Live("entries") : rows[x].equipment = equipment} :
                 StageLocked(s, {x \in Live("entries") : rows[x].equipment = equipment},
                             Set(e, [status |-> status]))
    BY <2>2, <1>1, <1>4
  <2>3. CASE /\ Spare("entries") # {}
             /\ Stage(s, Insert("entries", [equipment |-> equipment, status |-> status]))
    BY EntryColumns, <2>3, <1>2, <1>3, FieldInserts DEF Stage
  <2> QED BY <2>1, <2>2, <2>3
<1>6. CASE UpdateEntry(s)
  BY <1>6, <1>3, <1>4 DEF UpdateEntry, Stage
<1> QED BY <1>5, <1>6

\* Whatever a desk does.
FieldStep(s) ==
    \/ desk \in DOMAIN SiteTables /\ SiteStep(s)
    \/ desk \in DOMAIN WorkshopTables /\ WorkshopStep(s)
    \/ desk = "vendors" /\ VendorStep(s)

ClosedMarked == Marked("actions", "CLOSED", "closedAt", NoDay)
CompletedMarked == Marked("cards", "COMPLETED", "completed", FALSE)

LEMMA FieldDeskNames ==
    /\ DOMAIN SiteTables = {"projects", "grounds", "safety", "logs", "consumables", "imports"}
    /\ DOMAIN WorkshopTables = {"breakdowns", "cards", "assessments", "tracked", "plans", "register"}
  BY DEF SiteTables, WorkshopTables

LEMMA FieldWrites ==
    ASSUME NEW types, NEW sound, FieldFits(types, sound), NEW s \in Sessions, FieldStep(s)
    PROVE  /\ WritesSound(s, types, sound)
           /\ desk = "safety" => MarksPlain(s, types, "actions", "CLOSED", "closedAt", NoDay)
           /\ desk = "cards" => MarksPlain(s, types, "cards", "COMPLETED", "completed", FALSE)
<1>1. CASE desk \in DOMAIN SiteTables /\ SiteStep(s)
  <2>1. \/ desk = "projects" /\ ProjectStep(s)
        \/ desk = "grounds" /\ FuelStep(s)
        \/ desk = "safety" /\ SafetyStep(s)
        \/ desk = "logs" /\ LogStep(s)
        \/ desk = "consumables" /\ LogConsumption(s)
        \/ desk = "imports" /\ ImportStep(s)
    BY <1>1, FieldDeskNames DEF SiteStep
  <2>2. CASE desk = "safety" /\ SafetyStep(s)
    BY <2>2, SafetyMarks, MarksWrite
  <2>3. CASE desk # "safety" /\ desk # "cards"
    BY <2>1, <2>3, ProjectWrites, GroundWrites, LogWrites, ConsumptionWrites, PreviewWrites,
       ConfirmWrites DEF ImportStep
  <2>4. desk # "cards"
    BY <1>1, FieldDeskNames
  <2> QED BY <2>1, <2>2, <2>3, <2>4
<1>2. CASE desk \in DOMAIN WorkshopTables /\ WorkshopStep(s)
  <2>1. \/ desk = "breakdowns" /\ (CreateBreakdown(s) \/ UpdateBreakdown(s) \/ SiteUpdate(s))
        \/ desk = "cards" /\ (CreateCard(s) \/ UpdateCard(s))
        \/ desk = "assessments" /\ (CreateAssessment(s) \/ UpdateAssessment(s))
        \/ desk = "tracked" /\ (CreateTrackedAction(s) \/ UpdateTrackedAction(s))
        \/ desk = "plans" /\ (CreatePlan(s) \/ UpdatePlan(s))
        \/ desk = "register" /\ (CreateEntry(s) \/ UpdateEntry(s))
    BY <1>2, FieldDeskNames DEF WorkshopStep
  <2>2. CASE desk = "cards" /\ (CreateCard(s) \/ UpdateCard(s))
    BY <2>2, CardCreateMarks, CardUpdateMarks, MarksWrite
  <2>3. CASE desk # "cards" /\ desk # "safety"
    BY <2>1, <2>3, BreakdownWrites, AssessmentWrites, TrackedWrites, PlanWrites, EntryWrites
  <2>4. desk # "safety"
    BY <1>2, FieldDeskNames
  <2> QED BY <2>1, <2>2, <2>3, <2>4
<1>3. CASE desk = "vendors" /\ VendorStep(s)
  BY <1>3, VendorsWrite
<1> QED BY <1>1, <1>2, <1>3 DEF FieldStep

\* What holds at these desks.
FieldSoundInv ==
    /\ FieldFits(FieldTypes, FieldSound)
    /\ desk = "safety" => ClosedMarked
    /\ desk = "cards" => CompletedMarked

\* Types and what is sound do not change.
LEMMA FieldStays ==
    ASSUME Alike
    PROVE  FieldTypes' = FieldTypes /\ FieldSound' = FieldSound /\ FieldNames' = FieldNames
<1>1. desk' = desk /\ DOMAIN rows' = DOMAIN rows
  BY DEF Alike
<1>2. \A name : Table(name)' = Table(name)
  BY <1>1 DEF Table
<1>3. /\ ProjectTypes' = ProjectTypes /\ PlaceTypes' = PlaceTypes
      /\ DeliveryTypes' = DeliveryTypes /\ AllocationTypes' = AllocationTypes
      /\ SupplierTypes' = SupplierTypes /\ PayeeTypes' = PayeeTypes
      /\ IncidentTypes' = IncidentTypes /\ ActionTypes' = ActionTypes
  BY <1>2 DEF ProjectTypes, PlaceTypes, DeliveryTypes, AllocationTypes, SupplierTypes, PayeeTypes,
              IncidentTypes, ActionTypes
<1>4. /\ PlantTypes' = PlantTypes /\ LogTypes' = LogTypes /\ IssueTypes' = IssueTypes
      /\ ImportTypes' = ImportTypes /\ ImportedTypes' = ImportedTypes
      /\ BreakdownTypes' = BreakdownTypes /\ CardTypes' = CardTypes
  BY <1>2 DEF PlantTypes, LogTypes, IssueTypes, ImportTypes, ImportedTypes, BreakdownTypes, CardTypes
<1>5. /\ CardOrderTypes' = CardOrderTypes /\ AssessmentTypes' = AssessmentTypes
      /\ TrackedTypes' = TrackedTypes /\ PlanTypes' = PlanTypes /\ EntryTypes' = EntryTypes
      /\ BareTypes' = BareTypes
  BY <1>2 DEF CardOrderTypes, AssessmentTypes, TrackedTypes, PlanTypes, EntryTypes, BareTypes
<1>6. FieldTypes' = FieldTypes
  BY <1>1, <1>3, <1>4, <1>5 DEF FieldTypes
<1>7. PICK types : types = FieldTypes
  OBVIOUS
<1>8. Tables(types)' = Tables(types)
  BY <1>1, TablesStay
<1>9. FieldSound' = FieldSound
  BY <1>7, <1>6, <1>8 DEF FieldSound
<1>10. FieldNames' = FieldNames
  BY <1>1 DEF FieldNames
<1> QED BY <1>6, <1>9, <1>10

LEMMA FieldGoesOn ==
    FieldSoundInv /\ [SiteNext \/ WorkshopNext \/ VendorNext]_storeVars => FieldSoundInv'
<1> SUFFICES ASSUME FieldSoundInv, [SiteNext \/ WorkshopNext \/ VendorNext]_storeVars
             PROVE  FieldSoundInv'
  OBVIOUS
<1>1. PICK types, sound : types = FieldTypes /\ sound = FieldSound
  OBVIOUS
<1>2. FieldFits(types, sound)
  BY <1>1 DEF FieldSoundInv
<1>3. /\ Shape /\ Typed(types) /\ StaySound(sound) /\ desk \in FieldDesks
      /\ \A r \in DOMAIN rows : r[1] \in FieldNames /\ r[2] \in Nat
  BY <1>2 DEF FieldFits
<1>4. \/ \E s \in Sessions : FieldStep(s)
      \/ \E s \in Sessions : \E accepted : Commit(s, accepted)
      \/ \E s \in Sessions : Abort(s)
      \/ UNCHANGED storeVars
  BY DEF SiteNext, FieldStep, WorkshopNext, VendorNext
<1>5. SoundMove(types, sound)
  BY <1>2, <1>4, FieldWrites DEF SoundMove
<1>6. Shape' /\ Typed(types)' /\ StaySound(sound)' /\ Alike
  BY <1>3, <1>5, SoundMoves
<1>7. /\ types = FieldTypes' /\ sound = FieldSound' /\ FieldNames' = FieldNames
      /\ desk' = desk /\ DOMAIN rows' = DOMAIN rows
  BY <1>1, <1>6, FieldStays DEF Alike
<1>8. FieldDesks' = FieldDesks
  BY DEF FieldDesks
<1>9. FieldFits(types, sound)'
  BY <1>3, <1>6, <1>7, <1>8 DEF FieldFits
<1>10. ASSUME NEW name, NEW done, NEW mark, mark # "there", NEW unset, Marked(name, done, mark, unset),
              \A r \in Table(name) : {"status", mark} \subseteq DOMAIN types[r],
              \A s \in Sessions : FieldStep(s) => MarksPlain(s, types, name, done, mark, unset)
       PROVE  Marked(name, done, mark, unset)'
  BY <1>10, <1>3, MarkedStages, MarkedCommits, MarkedAborts, MarkedStutters, <1>4 DEF
     MarksPlain, Plain, Proper
<1>11. types = FieldTypes
  BY <1>1
<1>12. desk' = "safety" => ClosedMarked'
  BY <1>7, <1>11, FieldTyping, ActionColumns, <1>2, FieldWrites, <1>10 DEF FieldSoundInv,
     ClosedMarked
<1>13. desk' = "cards" => CompletedMarked'
  <2>1. SUFFICES ASSUME desk = "cards" PROVE CompletedMarked'
    BY <1>7
  <2>2. \A r \in Table("cards") : {"status", "completed"} \subseteq DOMAIN types[r]
    BY <1>11, FieldTyping, CardColumns
  <2>3. Marked("cards", "COMPLETED", "completed", FALSE)
    BY <2>1 DEF FieldSoundInv, CompletedMarked
  <2>4. \A s \in Sessions :
            FieldStep(s) => MarksPlain(s, types, "cards", "COMPLETED", "completed", FALSE)
    BY <1>2, <2>1, FieldWrites
  <2>5. Marked("cards", "COMPLETED", "completed", FALSE)'
    BY <1>10, <2>2, <2>3, <2>4
  <2> QED BY <2>5 DEF CompletedMarked
<1> QED BY <1>7, <1>9, <1>12, <1>13 DEF FieldSoundInv

\* The rows of each table as records.
LEMMA FieldRowsAre ==
    ASSUME NEW row
    PROVE  /\ IsRow(row, ProjectTypes) => row \in ProjectRows
           /\ IsRow(row, PlaceTypes) => row \in SiteRows
           /\ IsRow(row, DeliveryTypes) => row \in DeliveryRows
           /\ IsRow(row, AllocationTypes) => row \in AllocationRows
           /\ IsRow(row, SupplierTypes) => row \in SupplierRows
           /\ IsRow(row, PayeeTypes) => row \in PayeeRows
           /\ IsRow(row, IncidentTypes) => row \in IncidentRows
           /\ IsRow(row, ActionTypes) => row \in ActionRows
           /\ IsRow(row, PlantTypes) => row \in MachineRows
           /\ IsRow(row, LogTypes) => row \in LogRows
           /\ IsRow(row, IssueTypes) => row \in IssueRows
           /\ IsRow(row, ImportTypes) => row \in ImportRows
           /\ IsRow(row, ImportedTypes) => row \in ImportedRows
           /\ IsRow(row, BreakdownTypes) => row \in BreakdownRows
           /\ IsRow(row, CardTypes) => row \in CardRows
           /\ IsRow(row, CardOrderTypes) => row \in CardOrderRows
           /\ IsRow(row, AssessmentTypes) => row \in AssessmentRows
           /\ IsRow(row, TrackedTypes) => row \in TrackedActionRows
           /\ IsRow(row, PlanTypes) => row \in PlanRows
           /\ IsRow(row, EntryTypes) => row \in EntryRows
           /\ IsRow(row, BareTypes) => row \in [there : {TRUE}]
<1>1. IsRow(row, ProjectTypes) => row \in ProjectRows
  BY ProjectColumns DEF IsRow, ProjectRows
<1>2. IsRow(row, PlaceTypes) => row \in SiteRows
  BY PlaceColumns DEF IsRow, SiteRows
<1>3. IsRow(row, DeliveryTypes) => row \in DeliveryRows
  BY DeliveryColumns DEF IsRow, DeliveryRows
<1>4. IsRow(row, AllocationTypes) => row \in AllocationRows
  BY AllocationColumns DEF IsRow, AllocationRows
<1>5. IsRow(row, SupplierTypes) => row \in SupplierRows
  BY SupplierColumns DEF IsRow, SupplierRows
<1>6. IsRow(row, PayeeTypes) => row \in PayeeRows
  BY PayeeColumns DEF IsRow, PayeeRows
<1>7. IsRow(row, IncidentTypes) => row \in IncidentRows
  BY IncidentColumns DEF IsRow, IncidentRows
<1>8. IsRow(row, ActionTypes) => row \in ActionRows
  BY ActionColumns DEF IsRow, ActionRows
<1>9. IsRow(row, PlantTypes) => row \in MachineRows
  BY PlantColumns DEF IsRow, MachineRows
<1>10. IsRow(row, LogTypes) => row \in LogRows
  BY LogColumns DEF IsRow, LogRows
<1>11. IsRow(row, IssueTypes) => row \in IssueRows
  BY IssueColumns DEF IsRow, IssueRows
<1>12. IsRow(row, ImportTypes) => row \in ImportRows
  BY ImportColumns DEF IsRow, ImportRows
<1>13. IsRow(row, ImportedTypes) => row \in ImportedRows
  BY ImportedColumns DEF IsRow, ImportedRows
<1>14. IsRow(row, BreakdownTypes) => row \in BreakdownRows
  BY BreakdownColumns DEF IsRow, BreakdownRows
<1>15. IsRow(row, CardTypes) => row \in CardRows
  BY CardColumns DEF IsRow, CardRows
<1>16. IsRow(row, CardOrderTypes) => row \in CardOrderRows
  BY CardOrderColumns DEF IsRow, CardOrderRows
<1>17. IsRow(row, AssessmentTypes) => row \in AssessmentRows
  BY AssessmentColumns DEF IsRow, AssessmentRows
<1>18. IsRow(row, TrackedTypes) => row \in TrackedActionRows
  BY TrackedColumns DEF IsRow, TrackedActionRows
<1>19. IsRow(row, PlanTypes) => row \in PlanRows
  BY PlanColumns DEF IsRow, PlanRows
<1>20. IsRow(row, EntryTypes) => row \in EntryRows
  BY EntryColumns DEF IsRow, EntryRows
<1>21. IsRow(row, BareTypes) => row \in [there : {TRUE}]
  BY BareColumns DEF IsRow
<1> QED BY <1>1, <1>2, <1>3, <1>4, <1>5, <1>6, <1>7, <1>8, <1>9, <1>10, <1>11, <1>12, <1>13,
           <1>14, <1>15, <1>16, <1>17, <1>18, <1>19, <1>20, <1>21

\* The rows the desks begin with.
LEMMA FieldFirst ==
    ASSUME SiteInit \/ WorkshopInit \/ VendorInit, NEW types, types = FieldTypes
    PROVE  /\ StoreInit /\ desk \in FieldDesks /\ rows = [r \in DOMAIN rows |-> rows[r]]
           /\ \A r \in DOMAIN rows :
                 /\ r[1] \in FieldNames /\ r[2] \in Nat
                 /\ \/ rows[r] = Absent
                    \/ /\ IsRow(rows[r], types[r]) /\ rows[r].there
                       /\ r[1] \in {"projects", "sites", "machines", "logs", "orders"}
                       /\ r[1] = "projects" => InOrder(rows[r])
<1>1. PICK ids : rows = [r \in ids |-> rows[r]]
  BY DEF SiteInit, WorkshopInit, VendorInit
<1>2. rows = [r \in DOMAIN rows |-> rows[r]]
  BY <1>1
<1>3. StoreInit /\ desk \in FieldDesks
  BY DEF SiteInit, WorkshopInit, VendorInit, FieldDesks
<1>4. Numbers \subseteq Nat /\ Today \in Days
  BY RowStoreAssumption DEF RowStoreAssumption
<1>5. \A r \in DOMAIN rows : r[1] \in FieldNames /\ r[2] \in Nat
  <2>1. CASE SiteInit
    BY <2>1, <1>4 DEF SiteInit, FieldNames, SiteIds
  <2>2. CASE WorkshopInit
    BY <2>2, FieldDeskNames, <1>4 DEF WorkshopInit, FieldNames, WorkshopIds
  <2>3. CASE VendorInit
    BY <2>3, FieldDeskNames, <1>4 DEF VendorInit, FieldNames, VendorIds
  <2> QED BY <2>1, <2>2, <2>3
<1>6. PICK project, site, machine, log, order :
          /\ project = [there |-> TRUE, from |-> NoDay, until |-> NoDay, archived |-> FALSE]
          /\ site = [there |-> TRUE, project |-> <<"projects", 1>>, active |-> TRUE]
          /\ machine = [there |-> TRUE, active |-> TRUE]
          /\ log = [there |-> TRUE, kind |-> "READING", value |-> Today]
          /\ order = [there |-> TRUE, machine |-> <<"machines", 1>>]
  OBVIOUS
<1>7. \A r \in DOMAIN rows :
          \/ rows[r] = Absent
          \/ r[1] = "projects" /\ rows[r] = project
          \/ r[1] = "sites" /\ rows[r] = site /\ WorkshopInit
          \/ r[1] = "machines" /\ rows[r] = machine
          \/ r[1] = "logs" /\ rows[r] = log
          \/ r[1] = "orders" /\ rows[r] = order /\ WorkshopInit
  BY <1>6 DEF SiteInit, SiteFirst, WorkshopInit, WorkshopFirst, VendorInit
<1>8. IsRow(project, ProjectTypes) /\ project.there /\ InOrder(project)
  <2>1. /\ DOMAIN project = {"there", "from", "until", "archived"}
        /\ project = [c \in DOMAIN project |-> project[c]]
        /\ project.there = TRUE /\ project.from = NoDay /\ project.until = NoDay
        /\ project.archived = FALSE
    BY <1>6
  <2>2. \A c \in DOMAIN project : project[c] \in ProjectTypes[c]
    BY <2>1, ProjectColumns DEF Dates
  <2> QED BY <2>1, <2>2, ProjectColumns DEF IsRow, InOrder
<1>9. IsRow(machine, PlantTypes) /\ machine.there
  <2>1. /\ DOMAIN machine = {"there", "active"} /\ machine = [c \in DOMAIN machine |-> machine[c]]
        /\ machine.there = TRUE /\ machine.active = TRUE
    BY <1>6
  <2>2. \A c \in DOMAIN machine : machine[c] \in PlantTypes[c]
    BY <2>1, PlantColumns
  <2> QED BY <2>1, <2>2, PlantColumns DEF IsRow
<1>10. IsRow(log, LogTypes) /\ log.there
  <2>1. /\ DOMAIN log = {"there", "kind", "value"} /\ log = [c \in DOMAIN log |-> log[c]]
        /\ log.there = TRUE /\ log.kind = "READING" /\ log.value = Today
    BY <1>6
  <2>2. \A c \in DOMAIN log : log[c] \in LogTypes[c]
    BY <1>4, <2>1, LogColumns
  <2> QED BY <2>1, <2>2, LogColumns DEF IsRow
<1>11. ASSUME WorkshopInit, NEW r \in DOMAIN rows, r[1] = "sites"
       PROVE  IsRow(site, PlaceTypes) /\ site.there
  <2>1. <<"projects", 1>> \in Table("projects")
    BY <1>11, FieldDeskNames, MachineAssumption DEF WorkshopInit, WorkshopIds,
       WorkshopTables, MachineAssumption, Table
  <2>2. /\ DOMAIN site = {"there", "project", "active"} /\ site = [c \in DOMAIN site |-> site[c]]
        /\ site.there = TRUE /\ site.project = <<"projects", 1>> /\ site.active = TRUE
    BY <1>6
  <2>3. \A c \in DOMAIN site : site[c] \in PlaceTypes[c]
    BY <2>1, <2>2, PlaceColumns
  <2> QED BY <2>2, <2>3, PlaceColumns DEF IsRow
<1>12. ASSUME WorkshopInit, NEW r \in DOMAIN rows, r[1] = "orders"
       PROVE  IsRow(order, CardOrderTypes) /\ order.there
  <2>1. <<"machines", 1>> \in Table("machines")
    BY <1>12, FieldDeskNames, MachineAssumption DEF WorkshopInit, WorkshopIds,
       WorkshopTables, MachineAssumption, Table
  <2>2. /\ DOMAIN order = {"there", "machine"} /\ order = [c \in DOMAIN order |-> order[c]]
        /\ order.there = TRUE /\ order.machine = <<"machines", 1>>
    BY <1>6
  <2>3. \A c \in DOMAIN order : order[c] \in CardOrderTypes[c]
    BY <2>1, <2>2, CardOrderColumns
  <2> QED BY <2>2, <2>3, CardOrderColumns DEF IsRow
<1>13. ASSUME NEW r \in DOMAIN rows, rows[r] # Absent
       PROVE  /\ IsRow(rows[r], types[r]) /\ rows[r].there
              /\ r[1] \in {"projects", "sites", "machines", "logs", "orders"}
              /\ r[1] = "projects" => InOrder(rows[r])
  BY FieldTyping, <1>8, <1>11, <1>9, <1>10, <1>12, <1>7, <1>13 DEF Table
<1> QED BY <1>2, <1>3, <1>5, <1>13

LEMMA FieldBegins == SiteInit \/ WorkshopInit \/ VendorInit => FieldSoundInv
<1> SUFFICES ASSUME SiteInit \/ WorkshopInit \/ VendorInit PROVE FieldSoundInv
  OBVIOUS
<1>1. PICK types, sound : types = FieldTypes /\ sound = FieldSound
  OBVIOUS
<1>2. /\ StoreInit /\ desk \in FieldDesks /\ rows = [r \in DOMAIN rows |-> rows[r]]
      /\ \A r \in DOMAIN rows :
            /\ r[1] \in FieldNames /\ r[2] \in Nat
            /\ \/ rows[r] = Absent
               \/ /\ IsRow(rows[r], types[r]) /\ rows[r].there
                  /\ r[1] \in {"projects", "sites", "machines", "logs", "orders"}
                  /\ r[1] = "projects" => InOrder(rows[r])
  BY <1>1, FieldFirst
<1>3. \A r \in DOMAIN rows : There(r) \/ rows[r] = Absent
  BY <1>2 DEF There
<1>4. Shape
  BY <1>2, <1>3, InitShape
<1>5. \A r \in DOMAIN rows : /\ "there" \in DOMAIN types[r] /\ types[r].there = {TRUE}
                             /\ rows[r] = Absent \/ IsRow(rows[r], types[r])
  BY <1>1, <1>2, FieldThere
<1>6. Typed(types)
  BY <1>2, <1>5, TypedStarts
<1>7. IsTable(rows, types)
  BY <1>4, <1>6, TypedTables
<1>8. ~Absent.there
  BY DEF Absent
<1>9. Dated(rows)
  BY <1>2, <1>8 DEF Dated, DatedNames
<1>10. rows \in sound
  BY <1>1, <1>7, <1>9, TablesAre DEF FieldSound
<1>11. StaySound(sound)
  BY <1>2, <1>4, <1>10, SoundStarts
<1>12. FieldFits(types, sound)
  BY <1>1, <1>2, <1>4, <1>6, <1>11 DEF FieldFits
<1>13. Live("actions") = {} /\ Live("cards") = {}
  BY <1>2, <1>8 DEF There, Live, Table
<1>14. ClosedMarked /\ CompletedMarked
  BY <1>2, <1>13, MarkedStarts DEF ClosedMarked, CompletedMarked
<1> QED BY <1>1, <1>12, <1>14 DEF FieldSoundInv

\* The rows that are there are those their tables can hold,
LEMMA FieldRowsFit ==
    ASSUME NEW types, NEW sound, FieldFits(types, sound), NEW r \in DOMAIN rows, There(r)
    PROVE  /\ desk \in DOMAIN SiteTables => rows[r] \in SiteTableRows(r)
           /\ desk \in DOMAIN WorkshopTables => rows[r] \in WorkshopTableRows(r)
           /\ desk = "vendors" =>
                 rows[r] \in (IF r[1] = "suppliers" THEN SupplierRows ELSE PayeeRows)
<1>1. r[1] \in FieldNames /\ types = FieldTypes /\ desk \in FieldDesks
  BY FieldHas
<1>2. PICK name, row, ty : name = r[1] /\ row = rows[r] /\ ty = types[r]
  OBVIOUS
<1>3. r \in Live(name) /\ r \in Table(name)
  BY <1>2 DEF Live, Table
<1>4. IsRow(row, ty)
  BY <1>2, <1>3, FieldRow
<1>13. types = FieldTypes /\ r \in Table(name)
  BY <1>1, <1>3
<1>14. \A n : n = name => r \in Table(n)
  BY <1>13
<1>15. /\ name = "projects" => ty = ProjectTypes
       /\ name = "sites" => ty = PlaceTypes
       /\ name = "deliveries" => ty = DeliveryTypes
       /\ name = "allocations" => ty = AllocationTypes
       /\ name = "suppliers" => ty = SupplierTypes
       /\ name = "payees" => ty = PayeeTypes
       /\ name = "incidents" => ty = IncidentTypes
       /\ name = "actions" => ty = ActionTypes
       /\ name = "machines" => ty = PlantTypes
       /\ name = "logs" => ty = LogTypes
       /\ name = "issues" => ty = IssueTypes
       /\ name = "imports" => ty = ImportTypes
       /\ name = "items" => ty = ImportedTypes
       /\ name = "receipts" => ty = ImportedTypes
       /\ name = "clients" => ty = BareTypes
       /\ name = "notes" => ty = BareTypes
       /\ name = "breakdowns" => ty = BreakdownTypes
       /\ name = "cards" => ty = CardTypes
       /\ name = "orders" => ty = CardOrderTypes
       /\ name = "assessments" => ty = AssessmentTypes
       /\ name = "tracked" => ty = TrackedTypes
       /\ name = "plans" => ty = PlanTypes
       /\ name = "entries" => ty = EntryTypes
  BY <1>1, <1>2, <1>14, FieldTyping
<1>5. /\ name = "projects" => row \in ProjectRows
      /\ name = "sites" => row \in SiteRows
      /\ name = "deliveries" => row \in DeliveryRows
      /\ name = "allocations" => row \in AllocationRows
      /\ name = "suppliers" => row \in SupplierRows
      /\ name = "payees" => row \in PayeeRows
      /\ name = "incidents" => row \in IncidentRows
      /\ name = "actions" => row \in ActionRows
  BY <1>4, <1>15, FieldRowsAre
<1>6. /\ name = "machines" => row \in MachineRows
      /\ name = "logs" => row \in LogRows
      /\ name = "issues" => row \in IssueRows
      /\ name = "imports" => row \in ImportRows
      /\ name \in {"items", "receipts"} => row \in ImportedRows
      /\ name \in {"clients", "notes"} => row \in [there : {TRUE}]
  BY <1>4, <1>15, FieldRowsAre
<1>7. /\ name = "breakdowns" => row \in BreakdownRows
      /\ name = "cards" => row \in CardRows
      /\ name = "orders" => row \in CardOrderRows
      /\ name = "assessments" => row \in AssessmentRows
      /\ name = "tracked" => row \in TrackedActionRows
      /\ name = "plans" => row \in PlanRows
      /\ name = "entries" => row \in EntryRows
  BY <1>4, <1>15, FieldRowsAre
<1>8. ASSUME name \in {"projects", "sites", "deliveries", "allocations", "suppliers", "payees",
                       "incidents", "actions", "machines", "logs", "issues", "imports", "items",
                       "receipts", "clients", "notes"}
      PROVE  row \in SiteTableRows(r)
  <2>1. PICK held : held = SiteTableRows(r)
    OBVIOUS
  <2>2. /\ name = "projects" => held = ProjectRows
        /\ name = "sites" => held = SiteRows
        /\ name = "deliveries" => held = DeliveryRows
        /\ name = "allocations" => held = AllocationRows
        /\ name = "suppliers" => held = SupplierRows
        /\ name = "payees" => held = PayeeRows
        /\ name = "incidents" => held = IncidentRows
        /\ name = "actions" => held = ActionRows
        /\ name = "machines" => held = MachineRows
        /\ name = "logs" => held = LogRows
        /\ name = "issues" => held = IssueRows
        /\ name = "imports" => held = ImportRows
    BY <1>2, <2>1 DEF SiteTableRows, ImportKinds
  <2>3. name \in {"items", "receipts"} => held = ImportedRows
    BY <1>2, <2>1 DEF SiteTableRows, ImportKinds
  <2>4. name \in {"clients", "notes"} => held = [there : {TRUE}]
    BY <1>2, <2>1 DEF SiteTableRows, ImportKinds
  <2> QED BY <1>5, <1>6, <1>8, <2>1, <2>2, <2>3, <2>4
<1>9. desk \in DOMAIN SiteTables => row \in SiteTableRows(r)
  BY <1>1, <1>2, <1>8 DEF FieldNames, SiteTables
<1>10. desk \in DOMAIN WorkshopTables => row \in WorkshopTableRows(r)
  BY <1>1, <1>2, FieldDeskNames, <1>8, <1>7 DEF FieldNames, WorkshopTables,
     WorkshopTableRows
<1>11. desk = "vendors" => row \in (IF r[1] = "suppliers" THEN SupplierRows ELSE PayeeRows)
  BY <1>1, <1>2, FieldDeskNames, <1>5 DEF FieldNames
<1> QED BY <1>2, <1>9, <1>10, <1>11

\* and the rest that is said of these desks holds: dates are in order, an action that is
\* closed says since when and a card that is completed that it is.
LEMMA FieldSays ==
    ASSUME FieldSoundInv
    PROVE  /\ SiteTypeOK /\ WorkshopTypeOK /\ VendorTypeOK
           /\ SitesAreSound /\ WorkshopIsSound
<1>1. PICK types, sound : types = FieldTypes /\ sound = FieldSound
  OBVIOUS
<1>2. FieldFits(types, sound)
  BY <1>1 DEF FieldSoundInv
<1>3. /\ Shape /\ Typed(types) /\ StaySound(sound) /\ IsTable(rows, types)
      /\ \A r \in DOMAIN rows : r[1] \in FieldNames
  BY <1>2, TypedTables DEF FieldFits
<1>4. SiteTypeOK /\ WorkshopTypeOK /\ VendorTypeOK
  BY <1>2, FieldRowsFit DEF SiteTypeOK, WorkshopTypeOK, VendorTypeOK
<1>5. ASSUME ~torn, NEW name \in DatedNames, NEW r \in Live(name) PROVE InOrder(rows[r])
  BY <1>2, <1>3, <1>5, FieldAsks, FieldRow DEF StaySound, Dated
<1>6. ASSUME desk \in DOMAIN SiteTables, NEW a \in Live("actions"), rows[a].status = "CLOSED"
      PROVE  rows[a].closedAt # NoDay
  BY <1>2, <1>6, FieldRow, <1>3 DEF FieldNames, SiteTables, FieldSoundInv, ClosedMarked,
     Marked, MarkedRow
<1>7. ASSUME desk \in DOMAIN WorkshopTables, NEW c \in Live("cards"),
             rows[c].status = "COMPLETED"
      PROVE  rows[c].completed
  <2>1. /\ c \in Table("cards") /\ c \in DOMAIN rows /\ There(c) /\ c[1] = "cards"
        /\ IsRow(rows[c], types[c])
    BY <1>2, <1>7, FieldRow
  <2>2. "cards" \in WorkshopTables[desk]
    BY <1>3, <1>7, <2>1, FieldDeskNames DEF FieldNames
  <2>3. desk = "cards"
    BY <1>7, <2>2 DEF WorkshopTables
  <2>4. Marked("cards", "COMPLETED", "completed", FALSE)
    BY <2>3 DEF FieldSoundInv, CompletedMarked
  <2>5. rows[c]["completed"] # FALSE
    BY <1>7, <2>1, <2>4 DEF Marked, MarkedRow
  <2>6. types[c] = CardTypes
    BY <1>1, <2>1, FieldTyping
  <2>7. rows[c].completed \in BOOLEAN
    BY <2>1, <2>6, CardColumns DEF IsRow
  <2> QED BY <2>5, <2>7
<1>8. SitesAreSound
  BY <1>5, <1>6 DEF SitesAreSound, DatedNames
<1>9. WorkshopIsSound
  BY <1>5, <1>7 DEF WorkshopIsSound, DatedNames
<1> QED BY <1>4, <1>8, <1>9

-----------------------------------------------------------------------------
(* The types of what is bought and paid. *)

PoTypes == [there |-> {TRUE}, status |-> PoStatuses]
PoLineTypes ==
    [there |-> {TRUE}, order |-> Table("orders"), ordered |-> Quantities, received |-> Nat]
ExpenseTypes ==
    [there |-> {TRUE}, order |-> {NoRef} \cup Table("orders"), total |-> Quantities,
     status |-> {"SUBMITTED", "PARTIALLY_PAID", "COMPLETED"}]
PaymentTypes == [there |-> {TRUE}, expense |-> Table("expenses"), amount |-> Quantities]
CounterTypes == [there |-> {TRUE}, value |-> Nat]
NumberedTypes == [there |-> {TRUE}, number |-> Nat]

PurchaseTypes ==
    [r \in DOMAIN rows |->
        IF r[1] = "orders" THEN PoTypes
        ELSE IF r[1] = "lines" THEN PoLineTypes
        ELSE IF r[1] = "expenses" THEN ExpenseTypes
        ELSE IF r[1] = "payments" THEN PaymentTypes
        ELSE IF r[1] = "counters" THEN CounterTypes
        ELSE NumberedTypes]

\* Their columns.
LEMMA PoColumns ==
    /\ DOMAIN PoTypes = {"there", "status"}
    /\ PoTypes.there = {TRUE} /\ PoTypes.status = PoStatuses
  BY DEF PoTypes

LEMMA PoLineColumns ==
    /\ DOMAIN PoLineTypes = {"there", "order", "ordered", "received"}
    /\ PoLineTypes.there = {TRUE} /\ PoLineTypes.order = Table("orders")
    /\ PoLineTypes.ordered = Quantities /\ PoLineTypes.received = Nat
  BY DEF PoLineTypes

LEMMA ExpenseColumns ==
    /\ DOMAIN ExpenseTypes = {"there", "order", "total", "status"}
    /\ ExpenseTypes.there = {TRUE} /\ ExpenseTypes.order = {NoRef} \cup Table("orders")
    /\ ExpenseTypes.total = Quantities
    /\ ExpenseTypes.status = {"SUBMITTED", "PARTIALLY_PAID", "COMPLETED"}
  BY DEF ExpenseTypes

LEMMA PaymentColumns ==
    /\ DOMAIN PaymentTypes = {"there", "expense", "amount"}
    /\ PaymentTypes.there = {TRUE} /\ PaymentTypes.expense = Table("expenses")
    /\ PaymentTypes.amount = Quantities
  BY DEF PaymentTypes

LEMMA CounterColumns ==
    /\ DOMAIN CounterTypes = {"there", "value"}
    /\ CounterTypes.there = {TRUE} /\ CounterTypes.value = Nat
  BY DEF CounterTypes

LEMMA NumberedColumns ==
    /\ DOMAIN NumberedTypes = {"there", "number"}
    /\ NumberedTypes.there = {TRUE} /\ NumberedTypes.number = Nat
  BY DEF NumberedTypes

\* Every table says that its rows are there,
LEMMA PurchaseThere ==
    ASSUME NEW r \in DOMAIN rows
    PROVE  "there" \in DOMAIN PurchaseTypes[r] /\ PurchaseTypes[r].there = {TRUE}
  BY PoColumns, PoLineColumns, ExpenseColumns, PaymentColumns, CounterColumns,
     NumberedColumns DEF PurchaseTypes

\* and has its types.
LEMMA PurchaseTyping ==
    ASSUME NEW types, types = PurchaseTypes
    PROVE  /\ \A r \in Table("orders") : types[r] = PoTypes
           /\ \A r \in Table("lines") : types[r] = PoLineTypes
           /\ \A r \in Table("expenses") : types[r] = ExpenseTypes
           /\ \A r \in Table("payments") : types[r] = PaymentTypes
           /\ \A r \in Table("counters") : types[r] = CounterTypes
           /\ \A r \in Table("documents") : types[r] = NumberedTypes
  BY DEF Table, PurchaseTypes

\* At the desks for purchases, rows and writes are typed.
PurchaseFits(types) ==
    /\ Shape /\ desk \in DOMAIN PurchaseTables /\ DOMAIN rows = PurchaseIds
    /\ types = PurchaseTypes /\ Typed(types)

LEMMA PurchaseHas ==
    ASSUME NEW types, PurchaseFits(types)
    PROVE  /\ Shape /\ Typed(types) /\ types = PurchaseTypes /\ DOMAIN rows = PurchaseIds
           /\ \A name : \A r \in Table(name) : r \in DOMAIN rows /\ r[2] \in Nat /\ r[1] = name
           /\ \A name : Live(name) \subseteq Table(name) /\ Table(name) \subseteq DOMAIN rows
           /\ \A name : \A r \in Live(name) :
                 r \in DOMAIN rows /\ rows[r].there /\ IsRow(rows[r], types[r])
<1>1. Shape /\ Typed(types) /\ types = PurchaseTypes /\ DOMAIN rows = PurchaseIds
  BY DEF PurchaseFits
<1>2. \A name : Live(name) \subseteq Table(name) /\ Table(name) \subseteq DOMAIN rows
  BY DEF Live, Table
<1>3. \A name : \A r \in Table(name) : r \in DOMAIN rows /\ r[2] \in Nat /\ r[1] = name
  BY <1>1, PurchaseNumbers DEF Table
<1>4. ~Absent.there
  BY DEF Absent
<1>5. \A name : \A r \in Live(name) :
          r \in DOMAIN rows /\ rows[r].there /\ IsRow(rows[r], types[r])
  BY <1>1, <1>4 DEF Live, Table, There, Typed
<1> QED BY <1>1, <1>2, <1>3, <1>5

\* Lines of a basket are typed: new ones,
LEMMA BasketOf ==
    ASSUME NEW basket \in Baskets, NEW i \in DOMAIN basket
    PROVE  basket[i] \in Quantities /\ basket[i] \in Nat
<1>1. PICK S : basket \in [S -> Quantities]
  BY DEF Baskets
<1>2. basket[i] \in Quantities
  BY <1>1
<1> QED BY <1>2, RowStoreAssumption DEF RowStoreAssumption, Quantities

LEMMA NewLinesProper ==
    ASSUME NEW types, PurchaseFits(types), NEW o \in Table("orders"), NEW basket,
           \A i \in DOMAIN basket : basket[i] \in Quantities, RoomFor(basket)
    PROVE  Proper(NewLines(o, basket), types)
<1>1. DOMAIN rows = PurchaseIds /\ types = PurchaseTypes
  BY PurchaseHas
<1>2. PICK new : new = NewLines(o, basket)
  OBVIOUS
<1>3. NewLineRows(new, o, basket)
  BY <1>1, <1>2, NewLinesAre
<1>4. ASSUME NEW l \in DOMAIN new PROVE l \in DOMAIN rows /\ MayWrite(new[l], types[l])
  <2>1. /\ l \in DOMAIN rows /\ l[1] = "lines" /\ ItemOf(l) \in DOMAIN basket
        /\ new[l] = [there |-> TRUE, order |-> o, ordered |-> basket[ItemOf(l)], received |-> 0]
    BY <1>3, <1>4 DEF NewLineRows
  <2>2. types[l] = PoLineTypes
    BY <1>1, <2>1, PurchaseTyping DEF Table
  <2>3. PICK n, row : /\ n = basket[ItemOf(l)] /\ row = new[l]
                      /\ row = [there |-> TRUE, order |-> o, ordered |-> n, received |-> 0]
    BY <2>1
  <2>4. n \in Quantities
    BY <2>1, <2>3
  <2>5. /\ DOMAIN row = {"there", "order", "ordered", "received"} /\ row.there = TRUE
        /\ row.order = o /\ row.ordered = n /\ row.received = 0
        /\ row = [c \in DOMAIN row |-> row[c]]
    BY <2>3
  <2>6. /\ row.there \in PoLineTypes.there /\ row.order \in PoLineTypes.order
        /\ row.ordered \in PoLineTypes.ordered /\ row.received \in PoLineTypes.received
    <3>1. row.there \in PoLineTypes.there /\ row.order \in PoLineTypes.order
      BY <2>5, PoLineColumns
    <3>2. row.ordered \in PoLineTypes.ordered
      BY <2>4, <2>5, PoLineColumns
    <3>3. row.received \in PoLineTypes.received
      BY <2>5, PoLineColumns
    <3> QED BY <3>1, <3>2, <3>3
  <2>7. IsRow(row, PoLineTypes)
    BY <2>5, <2>6, PoLineColumns DEF IsRow
  <2> QED BY <2>1, <2>2, <2>3, <2>7 DEF MayWrite
<1> QED BY <1>2, <1>4 DEF Proper

\* and those of an order that are dropped,
LEMMA DroppedProper ==
    ASSUME NEW types, PurchaseFits(types), NEW S \in SUBSET Live("lines")
    PROVE  Proper(SetAll(S, Absent), types)
  BY PurchaseHas, MayDelete, ProperSetAll

\* or are written one by one.
LEMMA LinesProper ==
    ASSUME NEW types, PurchaseFits(types), NEW S \in SUBSET Live("lines"), NEW writes,
           DOMAIN writes = S, NEW c \in {"ordered", "received"},
           \A l \in S : DOMAIN writes[l] = {c} /\ writes[l][c] \in PoLineTypes[c]
    PROVE  Proper(writes, types)
  BY PurchaseHas, PurchaseTyping, PoLineColumns DEF MayWrite, Proper

\* What is bought is typed,
LEMMA OrderCreateWrites ==
    ASSUME NEW types, PurchaseFits(types), NEW s \in Sessions, OrderCreate(s)
    PROVE  Writes(s, types)
  BY PurchaseHas, NewRowIsSpare, BasketOf, NewLinesProper, PurchaseTyping, PoColumns,
     InsertWrites DEF OrderCreate, PoStatuses, Stage

LEMMA OrderUpdateWrites ==
    ASSUME NEW types, PurchaseFits(types), NEW s \in Sessions, OrderUpdate(s)
    PROVE  Writes(s, types)
  BY PurchaseHas, BasketOf, NewLinesProper, DroppedProper, ProperOver DEF OrderUpdate,
     LinesOf, Stage, Writes

LEMMA OrderMoveWrites ==
    ASSUME NEW types, PurchaseFits(types), NEW s \in Sessions, OrderSubmit(s) \/ OrderApprove(s)
    PROVE  Writes(s, types)
  BY PurchaseHas, PurchaseTyping, PoColumns, SetWrites DEF OrderSubmit, OrderApprove,
     PoStatuses, Stage

LEMMA ReceiveWrites ==
    ASSUME NEW types, PurchaseFits(types), NEW s \in Sessions, ReceiveGoods(s)
    PROVE  Writes(s, types)
<1>1. PICK o \in Live("orders"), basket \in Baskets :
          LET now(l) == rows[l].received
                        + (IF ItemOf(l) \in DOMAIN basket THEN basket[ItemOf(l)] ELSE 0)
              status == IF \A l \in LinesOf(o) : now(l) = rows[l].ordered THEN "RECEIVED"
                        ELSE IF \E l \in LinesOf(o) : now(l) > 0 THEN "PARTIALLY_RECEIVED"
                        ELSE rows[o].status
          IN Stage(s, Over(Set(o, [status |-> status]),
                           [l \in LinesOf(o) |-> [received |-> now(l)]]))
  BY DEF ReceiveGoods
<1>2. PICK old, got : /\ old = LinesOf(o)
                      /\ got = [l \in old |-> rows[l].received
                                  + (IF ItemOf(l) \in DOMAIN basket THEN basket[ItemOf(l)] ELSE 0)]
  OBVIOUS
<1>3. PICK status :
          status = IF \A l \in old : got[l] = rows[l].ordered THEN "RECEIVED"
                   ELSE IF \E l \in old : got[l] > 0 THEN "PARTIALLY_RECEIVED"
                   ELSE rows[o].status
  OBVIOUS
<1>4. PICK cols, b : cols = [status |-> status] /\ b = [l \in old |-> [received |-> got[l]]]
  OBVIOUS
<1>5. Stage(s, Over(Set(o, cols), b))
  BY <1>1, <1>2, <1>3, <1>4
<1>6. /\ o \in DOMAIN rows /\ o \in Table("orders") /\ types = PurchaseTypes
      /\ IsRow(rows[o], types[o])
  BY PurchaseHas
<1>7. types[o] = PoTypes
  BY <1>6, PurchaseTyping
<1>8. status \in PoStatuses
  BY <1>6, <1>7, PoColumns, <1>3 DEF IsRow, PoStatuses
<1>9. DOMAIN cols = {"status"} /\ cols.status = status
  BY <1>4
<1>10. MayWrite(cols, types[o])
  BY <1>7, <1>8, <1>9, PoColumns DEF MayWrite
<1>11. Proper(Set(o, cols), types)
  BY <1>6, <1>10, ProperSet
<1>12. old \in SUBSET Live("lines")
  BY <1>2 DEF LinesOf
<1>13. ASSUME NEW l \in old PROVE got[l] \in Nat
  <2>1. l \in Live("lines") /\ l \in Table("lines") /\ IsRow(rows[l], types[l])
    BY <1>12, PurchaseHas
  <2>2. types[l] = PoLineTypes
    BY <1>6, <2>1, PurchaseTyping
  <2>3. rows[l].received \in Nat
    BY <2>1, <2>2, PoLineColumns DEF IsRow
  <2>4. got[l] = rows[l].received
                   + (IF ItemOf(l) \in DOMAIN basket THEN basket[ItemOf(l)] ELSE 0)
    BY <1>2
  <2> QED BY <2>3, <2>4, BasketOf
<1>14. DOMAIN b = old /\ \A l \in old : DOMAIN b[l] = {"received"} /\ b[l].received = got[l]
  BY <1>4
<1>15. \A l \in old : DOMAIN b[l] = {"received"} /\ b[l]["received"] \in PoLineTypes["received"]
  BY <1>13, <1>14, PoLineColumns
<1>16. Proper(b, types)
  BY <1>12, <1>14, <1>15, LinesProper
<1>17. Proper(Over(Set(o, cols), b), types)
  BY <1>11, <1>16, ProperOver
<1> QED BY <1>5, <1>17 DEF Writes, Stage

\* what an expense makes of the lines of its order,
LEMMA SyncProper ==
    ASSUME NEW types, PurchaseFits(types), NEW o \in Table("orders"), NEW basket,
           \A i \in DOMAIN basket : basket[i] \in Quantities, RoomFor(basket)
    PROVE  Proper(SyncLines(o, basket), types)
<1>1. /\ DOMAIN rows = PurchaseIds /\ types = PurchaseTypes
      /\ \A l \in Live("lines") : l \in DOMAIN rows /\ l \in Table("lines")
  BY PurchaseHas
<1>2. PICK sync : sync = SyncLines(o, basket)
  OBVIOUS
<1>3. ASSUME NEW l \in DOMAIN sync PROVE l \in DOMAIN rows /\ MayWrite(sync[l], types[l])
  <2>1. \/ Resized(o, basket, l, sync[l]) \/ AddedLine(o, basket, l, sync[l])
        \/ Dropped(o, l, sync[l])
    BY <1>1, <1>2, <1>3, SyncLinesAre
  <2>2. l \in DOMAIN rows /\ l \in Table("lines")
    BY <1>1, <2>1 DEF Resized, AddedLine, Dropped, LinesOf, Table
  <2>3. types[l] = PoLineTypes
    BY <1>1, <2>2, PurchaseTyping
  <2>4. PICK row : row = sync[l]
    OBVIOUS
  <2>5. CASE Resized(o, basket, l, sync[l])
    BY <2>4, <2>5, PoLineColumns, <2>2, <2>3 DEF Resized, MayWrite
  <2>6. CASE AddedLine(o, basket, l, sync[l])
    <3>1. /\ ItemOf(l) \in DOMAIN basket
          /\ row = [there |-> TRUE, order |-> o, ordered |-> basket[ItemOf(l)], received |-> 0]
      BY <2>4, <2>6 DEF AddedLine
    <3>2. PICK n \in Quantities : n = basket[ItemOf(l)]
      BY <3>1
    <3>3. /\ DOMAIN row = {"there", "order", "ordered", "received"} /\ row.there = TRUE
          /\ row.order = o /\ row.ordered = n /\ row.received = 0
          /\ row = [c \in DOMAIN row |-> row[c]]
      BY <3>1, <3>2
    <3>4. row.there \in PoLineTypes.there /\ row.order \in PoLineTypes.order
      BY <3>3, PoLineColumns
    <3>5. row.ordered \in PoLineTypes.ordered
      BY <3>2, <3>3, PoLineColumns
    <3>6. row.received \in PoLineTypes.received
      BY <3>3, PoLineColumns
    <3>7. IsRow(row, PoLineTypes)
      BY <3>3, <3>4, <3>5, <3>6, PoLineColumns DEF IsRow
    <3> QED BY <2>2, <2>3, <2>4, <3>7 DEF MayWrite
  <2>7. CASE Dropped(o, l, sync[l])
    BY <2>4, <2>7, <2>2, MayDelete DEF Dropped
  <2> QED BY <2>1, <2>5, <2>6, <2>7
<1> QED BY <1>2, <1>3 DEF Proper

LEMMA ExpenseCreateWrites ==
    ASSUME NEW types, PurchaseFits(types), NEW s \in Sessions, ExpenseCreate(s)
    PROVE  Writes(s, types)
  BY PurchaseHas, BasketOf, ProperNothing, SyncProper, ExpenseColumns, PurchaseTyping,
     InsertWrites DEF ExpenseCreate, Stage

\* and what is paid,
LEMMA ExpenseUpdateWrites ==
    ASSUME NEW types, PurchaseFits(types), NEW s \in Sessions, ExpenseUpdate(s)
    PROVE  Writes(s, types)
  BY PurchaseHas, PurchaseTyping, ExpenseColumns, SetWrites DEF ExpenseUpdate

LEMMA PayWrites ==
    ASSUME NEW types, PurchaseFits(types), NEW s \in Sessions, CompleteExpense(s)
    PROVE  Writes(s, types)
<1>1. PICK x \in Live("expenses"), amount \in Quantities,
           status \in {"COMPLETED", "PARTIALLY_PAID"} :
          /\ Spare("payments") # {}
          /\ StageLocked(s, {x}, Over(Insert("payments", [expense |-> x, amount |-> amount]),
                                      Set(x, [status |-> status])))
  BY DEF CompleteExpense
<1>2. /\ Typed(types) /\ types = PurchaseTypes /\ x \in DOMAIN rows /\ x \in Table("expenses")
      /\ \A r \in Table("payments") : r[2] \in Nat
  BY PurchaseHas
<1>3. PICK cols, others : cols = [status |-> status] /\ others = Set(x, cols)
  OBVIOUS
<1>4. DOMAIN cols = {"status"} /\ cols.status = status
  BY <1>3
<1>5. types[x] = ExpenseTypes
  BY <1>2, PurchaseTyping
<1>6. MayWrite(cols, types[x])
  BY <1>4, <1>5, ExpenseColumns DEF MayWrite
<1>7. Proper(others, types)
  BY <1>2, <1>3, <1>6, ProperSet
<1>8. PICK given, ty : given = [expense |-> x, amount |-> amount] /\ ty = PaymentTypes
  OBVIOUS
<1>9. DOMAIN given = {"expense", "amount"} /\ given.expense = x /\ given.amount = amount
  BY <1>8
<1>10. /\ \A r \in Table("payments") : types[r] = ty
       /\ DOMAIN ty = {"there"} \cup DOMAIN given
       /\ \A c \in DOMAIN given \ {"there"} : given[c] \in ty[c]
  BY <1>2, <1>8, <1>9, PurchaseTyping, PaymentColumns
<1>11. {x} \subseteq DOMAIN rows \cup Advisory
  BY <1>2
<1>12. StageLocked(s, {x}, Over(Insert("payments", given), others))
  BY <1>1, <1>3, <1>8
<1> QED BY <1>1, <1>2, <1>7, <1>10, <1>11, <1>12, InsertWrites

\* and the numbers that are drawn.
LEMMA DrawWrites ==
    ASSUME NEW types, PurchaseFits(types), NEW s \in Sessions, NextBusinessNumber(s)
    PROVE  Writes(s, types)
<1>1. /\ Typed(types) /\ types = PurchaseTypes
      /\ \A r \in Table("documents") : r[2] \in Nat
      /\ \A r \in Table("counters") : r[2] \in Nat
  BY PurchaseHas
<1>2. PICK ty, cy : ty = NumberedTypes /\ cy = CounterTypes
  OBVIOUS
<1>3. /\ \A r \in Table("documents") : types[r] = ty
      /\ \A r \in Table("counters") : types[r] = cy
      /\ DOMAIN ty = {"there", "number"} /\ ty.number = Nat
      /\ DOMAIN cy = {"there", "value"} /\ cy.value = Nat
  BY <1>1, <1>2, PurchaseTyping, NumberedColumns, CounterColumns
<1>4. Spare("documents") # {}
  BY DEF NextBusinessNumber
<1>5. ASSUME NEW n \in Nat
      PROVE  Proper(Insert("documents", [number |-> n]), types)
  BY <1>3, <1>1, <1>4, ProperInsert
<1>6. ASSUME NEW c \in Live("counters"),
             StageLocked(s, {c}, Over(Set(c, [value |-> rows[c].value + 1]),
                                      Insert("documents", [number |-> rows[c].value + 1])))
      PROVE  Writes(s, types)
  <2>1. c \in DOMAIN rows /\ c \in Table("counters") /\ IsRow(rows[c], types[c])
    BY PurchaseHas
  <2>2. rows[c].value \in Nat
    BY <1>3, <2>1 DEF IsRow
  <2>3. PICK n \in Nat : n = rows[c].value + 1
    BY <2>2
  <2>4. PICK cols, a, b : cols = [value |-> n] /\ a = Set(c, cols)
                          /\ b = Insert("documents", [number |-> n])
    OBVIOUS
  <2>5. DOMAIN cols = {"value"} /\ cols.value = n
    BY <2>4
  <2>6. MayWrite(cols, types[c])
    BY <1>3, <2>1, <2>5 DEF MayWrite
  <2>7. Proper(a, types) /\ Proper(b, types)
    BY <1>5, <2>1, <2>4, <2>6, ProperSet
  <2>8. Proper(Over(a, b), types) /\ StageLocked(s, {c}, Over(a, b))
    BY <1>6, <2>3, <2>4, <2>7, ProperOver
  <2>9. {c} \subseteq DOMAIN rows \cup Advisory
    BY <2>1
  <2> QED BY <2>8, <2>9 DEF Writes
<1>7. ASSUME Spare("counters") # {},
             Stage(s, Over(Insert("counters", [value |-> 1]), Insert("documents", [number |-> 1])))
      PROVE  Writes(s, types)
  BY <1>3, <1>5, <1>7, <1>1, InsertWrites DEF Stage
<1> QED BY <1>6, <1>7 DEF NextBusinessNumber
\* The rows of each table as records.
LEMMA PurchaseRowsAre ==
    ASSUME NEW row
    PROVE  /\ IsRow(row, PoTypes) => row \in OrderRows
           /\ IsRow(row, PoLineTypes) => row \in LineRows
           /\ IsRow(row, ExpenseTypes) => row \in ExpenseRows
           /\ IsRow(row, PaymentTypes) => row \in PaymentRows
           /\ IsRow(row, CounterTypes) => row \in CounterRows
           /\ IsRow(row, NumberedTypes) => row \in NumberedRows
<1>1. IsRow(row, PoTypes) => row \in OrderRows
  BY PoColumns DEF IsRow, OrderRows
<1>2. IsRow(row, PoLineTypes) => row \in LineRows
  BY PoLineColumns DEF IsRow, LineRows
<1>3. IsRow(row, ExpenseTypes) => row \in ExpenseRows
  BY ExpenseColumns DEF IsRow, ExpenseRows
<1>4. IsRow(row, PaymentTypes) => row \in PaymentRows
  BY PaymentColumns DEF IsRow, PaymentRows
<1>5. IsRow(row, CounterTypes) => row \in CounterRows
  BY CounterColumns DEF IsRow, CounterRows
<1>6. IsRow(row, NumberedTypes) => row \in NumberedRows
  BY NumberedColumns DEF IsRow, NumberedRows
<1> QED BY <1>1, <1>2, <1>3, <1>4, <1>5, <1>6

\* Whatever these desks do, what they hold stays typed.
PurchaseTypedInv == PurchaseFits(PurchaseTypes)

LEMMA PurchaseStays == Alike => PurchaseTypes' = PurchaseTypes
  BY DEF Alike, Table, PoTypes, PoLineTypes, ExpenseTypes, PaymentTypes, CounterTypes,
     NumberedTypes, PurchaseTypes

LEMMA PurchaseGoesOn == PurchaseTypedInv /\ [PurchaseNext]_storeVars => PurchaseTypedInv'
<1> SUFFICES ASSUME PurchaseTypedInv, [PurchaseNext]_storeVars PROVE PurchaseTypedInv'
  OBVIOUS
<1>1. PICK types : types = PurchaseTypes
  OBVIOUS
<1>2. PurchaseFits(types)
  BY <1>1 DEF PurchaseTypedInv
<1>3. /\ Shape /\ Typed(types) /\ desk \in DOMAIN PurchaseTables /\ DOMAIN rows = PurchaseIds
  BY <1>2 DEF PurchaseFits
<1>4. ASSUME NEW s \in Sessions, PurchaseStep(s) PROVE Writes(s, types)
  BY <1>2, <1>4, OrderCreateWrites, OrderUpdateWrites, OrderMoveWrites, ReceiveWrites,
     ExpenseCreateWrites, ExpenseUpdateWrites, PayWrites, DrawWrites DEF PurchaseStep
<1>5. Moves(types)
  BY <1>4 DEF PurchaseNext, PurchaseCommit, Moves
<1>6. Shape' /\ Typed(types)' /\ Alike
  BY <1>3, <1>5, TypedMoves
<1>7. types = PurchaseTypes' /\ desk' = desk /\ DOMAIN rows' = DOMAIN rows
  BY <1>1, <1>6, PurchaseStays DEF Alike
<1>8. PurchaseIds' = PurchaseIds
  BY <1>7 DEF PurchaseIds
<1>9. PurchaseFits(types)'
  BY <1>3, <1>6, <1>7, <1>8 DEF PurchaseFits
<1> QED BY <1>7, <1>9 DEF PurchaseTypedInv

LEMMA PurchaseBegins == PurchaseInit => PurchaseTypedInv
  BY InitShape, PurchaseThere, TypedStarts DEF PurchaseInit, PurchaseTypedInv, PurchaseFits

\* Rows are those their tables can hold.
LEMMA PurchaseSays == PurchaseTypedInv => PurchaseTypeOK
  BY PurchaseHas, PurchaseTyping, PurchaseRowsAre DEF PurchaseTypedInv, Live, Table,
     PurchaseFits, PurchaseTables, PurchaseIds, PurchaseTypeOK

-----------------------------------------------------------------------------
(* Stock that is told apart by serial numbers. *)

PieceTypes == [there |-> {TRUE}, store |-> Stores \cup {Nowhere}, status |-> SerialStatuses]
BucketTypes ==
    [there |-> {TRUE}, counted |-> BOOLEAN,
     onHand |-> Nat, reserved |-> Nat, quarantined |-> Nat, transit |-> Nat]
HoldTypes == [there |-> {TRUE}, store |-> Stores]
WayTypes == [there |-> {TRUE}, origin |-> Stores, to |-> Stores]
MovementTypes ==
    [there |-> {TRUE}, kind |-> {"ISSUE", "RECEIPT", "OTHER"},
     serial |-> {NoRef} \cup ({"serials"} \X SerialNumbers), store |-> Stores \cup {Nowhere}]

SerialTypes ==
    [r \in SerialIds |->
        IF r[1] = "serials" THEN PieceTypes
        ELSE IF r[1] = "buckets" THEN BucketTypes
        ELSE IF r[1] = "reservations" THEN HoldTypes
        ELSE IF r[1] = "transfers" THEN WayTypes
        ELSE MovementTypes]

\* Their columns.
LEMMA PieceColumns ==
    /\ DOMAIN PieceTypes = {"there", "store", "status"}
    /\ PieceTypes.there = {TRUE} /\ PieceTypes.store = Stores \cup {Nowhere}
    /\ PieceTypes.status = SerialStatuses
  BY DEF PieceTypes

LEMMA BucketColumns ==
    /\ DOMAIN BucketTypes = {"there", "counted"} \cup Fields
    /\ BucketTypes.there = {TRUE} /\ BucketTypes.counted = BOOLEAN
    /\ \A f \in Fields : BucketTypes[f] = Nat
  BY DEF BucketTypes, Fields

LEMMA HoldColumns ==
    /\ DOMAIN HoldTypes = {"there", "store"}
    /\ HoldTypes.there = {TRUE} /\ HoldTypes.store = Stores
  BY DEF HoldTypes

LEMMA WayColumns ==
    /\ DOMAIN WayTypes = {"there", "origin", "to"}
    /\ WayTypes.there = {TRUE} /\ WayTypes.origin = Stores /\ WayTypes.to = Stores
  BY DEF WayTypes

LEMMA MovementColumns ==
    /\ DOMAIN MovementTypes = {"there", "kind", "serial", "store"}
    /\ MovementTypes.there = {TRUE} /\ MovementTypes.kind = {"ISSUE", "RECEIPT", "OTHER"}
    /\ MovementTypes.serial = {NoRef} \cup ({"serials"} \X SerialNumbers)
    /\ MovementTypes.store = Stores \cup {Nowhere}
  BY DEF MovementTypes

\* The pieces, and the rows that are of one.
Pieces == {"serials"} \X SerialNumbers

LEMMA PieceIds ==
    /\ \A n \in Pieces : /\ n \in SerialIds /\ SerialTypes[n] = PieceTypes
                         /\ Reservation(n) \in SerialIds /\ SerialTypes[Reservation(n)] = HoldTypes
                         /\ TransferRow(n) \in SerialIds /\ SerialTypes[TransferRow(n)] = WayTypes
    /\ \A at \in Stores : Bucket(at) \in SerialIds /\ SerialTypes[Bucket(at)] = BucketTypes
    /\ LastMovement \in SerialIds /\ SerialTypes[LastMovement] = MovementTypes
  BY DEF Pieces, SerialIds, Reservation, TransferRow, Bucket, LastMovement, SerialTypes

\* and none is another.
LEMMA OwnIds ==
    /\ \A n \in Pieces : /\ n # LastMovement /\ Reservation(n) # LastMovement
                         /\ TransferRow(n) # LastMovement
    /\ \A n, m \in Pieces : /\ n # Reservation(m) /\ n # TransferRow(m)
                            /\ Reservation(n) # TransferRow(m)
                            /\ n # m => /\ Reservation(n) # Reservation(m)
                                        /\ TransferRow(n) # TransferRow(m)
    /\ \A n \in Pieces : \A at \in Stores : /\ n # Bucket(at) /\ Reservation(n) # Bucket(at)
                                            /\ TransferRow(n) # Bucket(at)
    /\ \A at \in Stores : Bucket(at) # LastMovement /\ Bucket(at)[2] = at
  BY DEF Pieces, LastMovement, Reservation, TransferRow, Bucket

\* Of a table: where pieces are and in what state; the reservation and the transfer of each
\* say the same; the latest movement may be reversed; and the buckets count the pieces.
PiecesIn(tab, store, statuses) ==
    {n \in Pieces : tab[n].there /\ tab[n].store = store /\ tab[n].status \in statuses}

OnTheWay(tab, store) ==
    {n \in Pieces : tab[TransferRow(n)].there /\ tab[TransferRow(n)].origin = store}

Linked(tab, n) ==
    LET hold == tab[Reservation(n)]
        way == tab[TransferRow(n)]
    IN /\ tab[n].there /\ tab[n].status \in Held => tab[n].store \in Stores
       /\ hold.there <=> tab[n].there /\ tab[n].status = "RESERVED"
       /\ hold.there => hold.store = tab[n].store
       /\ way.there <=> tab[n].there /\ tab[n].status = "IN_TRANSIT"
       /\ way.there => way.origin # way.to

Latest(tab) ==
    LET last == tab[LastMovement]
    IN /\ last.there
       /\ last.kind # "OTHER" => /\ last.serial \in Pieces /\ last.store \in Stores
                                 /\ tab[last.serial].there
       /\ last.kind = "RECEIPT" => /\ tab[last.serial].status = "IN_STOCK"
                                   /\ tab[last.serial].store = last.store
       /\ last.kind = "ISSUE" => tab[last.serial].status = "ISSUED"

BucketFits(tab, store) ==
    LET b == tab[Bucket(store)]
        held == Cardinality(PiecesIn(tab, store, Held))
    IN /\ b.there /\ b.onHand >= b.reserved + b.quarantined
       /\ b.onHand <= held /\ (b.counted \/ b.onHand = held)
       /\ b.reserved = Cardinality(PiecesIn(tab, store, {"RESERVED"}))
       /\ b.transit = Cardinality(OnTheWay(tab, store))

StockFits(tab) ==
    /\ \A n \in Pieces : Linked(tab, n)
    /\ Latest(tab)
    /\ \A store \in Stores : BucketFits(tab, store)

StockSound == {tab \in Tables(SerialTypes) : StockFits(tab)}

\* Two sets that differ in one element at most.
Has(n, S) == IF n \in S THEN 1 ELSE 0

LEMMA OneApart ==
    ASSUME NEW S, NEW T, IsFiniteSet(S), IsFiniteSet(T), NEW n,
           \A x : x # n => (x \in S <=> x \in T)
    PROVE  /\ Cardinality(S) \in Nat /\ Cardinality(T) \in Nat
           /\ Cardinality(T) = Cardinality(S) + Has(n, T) - Has(n, S)
<1>1. PICK R : R = S \ {n}
  OBVIOUS
<1>2. IsFiniteSet(R) /\ n \notin R
  BY <1>1, FS_Subset
<1>3. Cardinality(R) \in Nat /\ Cardinality(R \cup {n}) = Cardinality(R) + 1
  BY <1>2, FS_CardinalityType, FS_AddElement
<1>4. ASSUME NEW X \in {S, T} PROVE Cardinality(X) = Cardinality(R) + Has(n, X)
  <2>1. \A x : x # n => (x \in X <=> x \in R)
    BY <1>1, <1>4
  <2>2. CASE n \in X
    BY <2>1, <2>2, <1>3 DEF Has
  <2>3. CASE n \notin X
    <3>1. X = R
      BY <1>2, <2>1, <2>3
    <3> QED BY <1>3, <2>3, <3>1 DEF Has
  <2> QED BY <2>2, <2>3
<1>5. Cardinality(S) = Cardinality(R) + Has(n, S) /\ Cardinality(T) = Cardinality(R) + Has(n, T)
  BY <1>4
<1>6. Has(n, S) \in {0, 1} /\ Has(n, T) \in {0, 1}
  BY DEF Has
<1> QED BY <1>3, <1>5, <1>6

\* There are three pieces, so there are no more of any sort.
LEMMA ThreePieces ==
    ASSUME NEW S, S \subseteq Pieces
    PROVE  IsFiniteSet(S) /\ Cardinality(S) \in 0..3
<1>1. PICK one, two, three : one = <<"serials", 1>> /\ two = <<"serials", 2>> /\ three = <<"serials", 3>>
  OBVIOUS
<1>2. Pieces = {one} \cup {two} \cup {three}
  BY <1>1 DEF SerialNumbers, Pieces
<1>3. IsFiniteSet({one}) /\ Cardinality({one}) = 1
  BY FS_Singleton
<1>4. PICK pair : pair = {one} \cup {two}
  OBVIOUS
<1>5. IsFiniteSet(pair) /\ Cardinality(pair) \in 0..2
  BY <1>3, <1>4, FS_AddElement
<1>6. IsFiniteSet(Pieces) /\ Cardinality(Pieces) \in 0..3
  BY <1>2, <1>4, <1>5, FS_AddElement
<1>7. IsFiniteSet(S) /\ Cardinality(S) <= Cardinality(Pieces)
  BY <1>6, FS_Subset
<1> QED BY <1>6, <1>7, FS_CardinalityType

\* A movement of one piece counts it out of one place and into another.
Shifted(tab, now, n, store) ==
    LET b == tab[Bucket(store)]
        c == now[Bucket(store)]
        moved(statuses) == Has(n, PiecesIn(now, store, statuses)) - Has(n, PiecesIn(tab, store, statuses))
    IN /\ c.there /\ c.onHand >= c.reserved + c.quarantined
       /\ \/ c.onHand = b.onHand + moved(Held) /\ c.counted = b.counted
          \/ c.onHand <= b.onHand + moved(Held) /\ c.counted
       /\ c.reserved = b.reserved + moved({"RESERVED"})
       /\ c.transit = b.transit + Has(n, OnTheWay(now, store)) - Has(n, OnTheWay(tab, store))

\* The rest stays as it is.
OthersLie(tab, now, n) ==
    \A m \in Pieces \ {n} : /\ now[m] = tab[m] /\ now[Reservation(m)] = tab[Reservation(m)]
                            /\ now[TransferRow(m)] = tab[TransferRow(m)]

LEMMA StockMoves ==
    ASSUME NEW tab, NEW now, NEW n \in Pieces, StockFits(tab), OthersLie(tab, now, n),
           Linked(now, n), Latest(now), \A store \in Stores : Shifted(tab, now, n, store),
           \A store \in Stores : now[Bucket(store)].onHand \in Nat /\ tab[Bucket(store)].onHand \in Nat
    PROVE  StockFits(now)
<1>1. ASSUME NEW m \in Pieces PROVE Linked(now, m)
  BY <1>1 DEF StockFits, OthersLie, Linked
<1>2. ASSUME NEW store \in Stores PROVE BucketFits(now, store)
  <2>1. ASSUME NEW statuses
        PROVE  /\ Cardinality(PiecesIn(tab, store, statuses)) \in Nat
               /\ Cardinality(PiecesIn(now, store, statuses)) \in Nat
               /\ Cardinality(PiecesIn(now, store, statuses)) = Cardinality(PiecesIn(tab, store, statuses))
                      + Has(n, PiecesIn(now, store, statuses)) - Has(n, PiecesIn(tab, store, statuses))
    BY ThreePieces, OneApart DEF PiecesIn, OthersLie
  <2>2. /\ Cardinality(OnTheWay(tab, store)) \in Nat
        /\ Cardinality(OnTheWay(now, store)) = Cardinality(OnTheWay(tab, store))
               + Has(n, OnTheWay(now, store)) - Has(n, OnTheWay(tab, store))
    BY ThreePieces, OneApart DEF OnTheWay, OthersLie
  <2>3. \A S : Has(n, S) \in {0, 1}
    BY DEF Has
  <2>4. PICK b, c, old, new, res, left, way, gone :
            /\ b = tab[Bucket(store)] /\ c = now[Bucket(store)]
            /\ old = Cardinality(PiecesIn(tab, store, Held))
            /\ new = Cardinality(PiecesIn(now, store, Held))
            /\ res = Cardinality(PiecesIn(tab, store, {"RESERVED"}))
            /\ left = Cardinality(PiecesIn(now, store, {"RESERVED"}))
            /\ way = Cardinality(OnTheWay(tab, store)) /\ gone = Cardinality(OnTheWay(now, store))
    OBVIOUS
  <2>5. PICK a1, a2, r1, r2, w1, w2 :
            /\ a1 = Has(n, PiecesIn(tab, store, Held)) /\ a2 = Has(n, PiecesIn(now, store, Held))
            /\ r1 = Has(n, PiecesIn(tab, store, {"RESERVED"}))
            /\ r2 = Has(n, PiecesIn(now, store, {"RESERVED"}))
            /\ w1 = Has(n, OnTheWay(tab, store)) /\ w2 = Has(n, OnTheWay(now, store))
    OBVIOUS
  <2>6. /\ old \in Nat /\ new = old + a2 - a1 /\ new \in Nat
        /\ res \in Nat /\ left = res + r2 - r1
        /\ way \in Nat /\ gone = way + w2 - w1
    BY <2>1, <2>2, <2>4, <2>5
  <2>7. {a1, a2, r1, r2, w1, w2} \subseteq {0, 1}
    BY <2>3, <2>5
  <2>8. /\ b.onHand <= old /\ (b.counted \/ b.onHand = old) /\ b.reserved = res /\ b.transit = way
    BY <2>4 DEF StockFits, BucketFits
  <2>9. /\ c.there /\ c.onHand >= c.reserved + c.quarantined
        /\ \/ c.onHand = b.onHand + (a2 - a1) /\ c.counted = b.counted
           \/ c.onHand <= b.onHand + (a2 - a1) /\ c.counted
        /\ c.reserved = b.reserved + (r2 - r1) /\ c.transit = b.transit + w2 - w1
    BY <2>4, <2>5 DEF Shifted
  <2>10. c.onHand \in Nat /\ b.onHand \in Nat
    BY <2>4
  <2>11. c.onHand <= new /\ (c.counted \/ c.onHand = new) /\ c.reserved = left /\ c.transit = gone
    BY <2>6, <2>7, <2>8, <2>9, <2>10
  <2> QED BY <2>4, <2>9, <2>11 DEF BucketFits
<1> QED BY <1>1, <1>2 DEF StockFits

\* What holds at the desk of the serials.
SerialFits(types, sound) ==
    /\ Shape /\ desk = "serials" /\ DOMAIN rows = SerialIds
    /\ types = SerialTypes /\ sound = StockSound /\ Typed(types)
    /\ StayAlone(InventoryLock, {}, sound)

LEMMA SerialHas ==
    ASSUME NEW types, NEW sound, SerialFits(types, sound)
    PROVE  /\ Table("serials") = Pieces /\ Live("serials") \subseteq Pieces
           /\ \A n \in Live("serials") : There(n)
           /\ StockFits(rows)
           /\ \A n \in Pieces :
                 /\ There(n) => IsRow(rows[n], PieceTypes)
                 /\ There(Reservation(n)) => IsRow(rows[Reservation(n)], HoldTypes)
                 /\ There(TransferRow(n)) => IsRow(rows[TransferRow(n)], WayTypes)
           /\ \A at \in Stores : There(Bucket(at)) /\ IsRow(rows[Bucket(at)], BucketTypes)
           /\ There(LastMovement) /\ IsRow(rows[LastMovement], MovementTypes)
<1>1. /\ DOMAIN rows = SerialIds /\ Typed(types) /\ types = SerialTypes
      /\ StockFits(rows) /\ Shape
  BY DEF SerialFits, StayAlone, StockSound
<1>2. \A r \in SerialIds : There(r) => IsRow(rows[r], SerialTypes[r])
  <2>1. ~Absent.there
    BY DEF Absent
  <2> QED BY <1>1, <2>1 DEF Typed, There
<1>3. Table("serials") = Pieces
  BY PieceIds, <1>1 DEF SerialIds, Pieces, LastMovement, Table
<1>4. Live("serials") \subseteq Pieces /\ \A n \in Live("serials") : There(n)
  BY <1>3 DEF Live
<1>5. (\A at \in Stores : There(Bucket(at))) /\ There(LastMovement)
  BY <1>1 DEF StockFits, BucketFits, Latest, There
<1>6. \A n \in Pieces : /\ There(n) => IsRow(rows[n], PieceTypes)
                        /\ There(Reservation(n)) => IsRow(rows[Reservation(n)], HoldTypes)
                        /\ There(TransferRow(n)) => IsRow(rows[TransferRow(n)], WayTypes)
  BY <1>2, PieceIds
<1>7. \A at \in Stores : IsRow(rows[Bucket(at)], BucketTypes)
  BY <1>2, <1>5, PieceIds
<1>8. IsRow(rows[LastMovement], MovementTypes)
  BY <1>2, <1>5, PieceIds
<1> QED BY <1>1, <1>3, <1>4, <1>5, <1>6, <1>7, <1>8

\* The same, column by column.
LEMMA StockHas ==
    ASSUME NEW types, NEW sound, SerialFits(types, sound)
    PROVE  /\ \A n \in Pieces :
                 /\ There(n) => rows[n].store \in Stores \cup {Nowhere}
                                /\ rows[n].status \in SerialStatuses
                 /\ There(Reservation(n)) => rows[Reservation(n)].store \in Stores
                 /\ There(TransferRow(n)) => /\ rows[TransferRow(n)].origin \in Stores
                                             /\ rows[TransferRow(n)].to \in Stores
           /\ \A at \in Stores : \A f \in Fields : rows[Bucket(at)][f] \in Nat
           /\ rows[LastMovement].kind \in {"ISSUE", "RECEIPT", "OTHER"}
<1>1. ASSUME NEW n \in Pieces, There(n)
      PROVE  rows[n].store \in Stores \cup {Nowhere} /\ rows[n].status \in SerialStatuses
  BY <1>1, SerialHas, PieceColumns DEF IsRow
<1>2. ASSUME NEW n \in Pieces, There(Reservation(n)) PROVE rows[Reservation(n)].store \in Stores
  BY <1>2, SerialHas, HoldColumns DEF IsRow
<1>3. ASSUME NEW n \in Pieces, There(TransferRow(n))
      PROVE  rows[TransferRow(n)].origin \in Stores /\ rows[TransferRow(n)].to \in Stores
  BY <1>3, SerialHas, WayColumns DEF IsRow
<1>4. ASSUME NEW at \in Stores, NEW f \in Fields PROVE rows[Bucket(at)][f] \in Nat
  BY SerialHas, BucketColumns DEF IsRow
<1>5. rows[LastMovement].kind \in {"ISSUE", "RECEIPT", "OTHER"}
  BY SerialHas, MovementColumns DEF IsRow
<1> QED BY <1>1, <1>2, <1>3, <1>4, <1>5

\* What a movement does to a bucket.
Delta(moves, at, f) == IF at \in DOMAIN moves /\ f \in DOMAIN moves[at] THEN moves[at][f] ELSE 0

\* What a handler has made sure of: the piece it moves and where to, at, and from, where a
\* transfer of it is from;
Handles(n, kind, store, row, moves, at) ==
    /\ n \in Pieces /\ store \in Stores /\ kind \in {"ISSUE", "RECEIPT", "OTHER"}
    /\ MayWrite(row, PieceTypes) /\ "status" \in DOMAIN row
    /\ There(n) \/ "there" \in DOMAIN row
    /\ at = IF "store" \in DOMAIN row THEN row.store ELSE rows[n].store
    /\ row.status \in Held => at \in Stores
    /\ kind = "RECEIPT" => row.status = "IN_STOCK" /\ at = store
    /\ kind = "ISSUE" => row.status = "ISSUED"
    /\ \A to \in DOMAIN moves : /\ to \in Stores /\ DOMAIN moves[to] \subseteq Fields
                                /\ \A f \in DOMAIN moves[to] : moves[to][f] \in Int

\* the reservation and the transfer of it, and what a count says of a bucket;
Accompanies(n, status, moves, at, from, more) ==
    /\ \A r \in DOMAIN more :
          /\ r \in SerialIds /\ MayWrite(more[r], SerialTypes[r])
          /\ \/ r \in {Reservation(n), TransferRow(n)}
             \/ \E to \in DOMAIN moves :
                   /\ r = Bucket(to) /\ "there" \notin DOMAIN more[r]
                   /\ "counted" \in DOMAIN more[r] /\ more[r].counted
                   /\ \A f \in Fields : f \in DOMAIN more[r] /\ more[r][f] = Effect(to, moves[to])[f]
    /\ IF status = "RESERVED"
       THEN /\ Reservation(n) \in DOMAIN more
            /\ more[Reservation(n)] = [there |-> TRUE, store |-> at]
       ELSE IF Reservation(n) \in DOMAIN more THEN more[Reservation(n)] = Absent
            ELSE ~There(Reservation(n))
    /\ IF status = "IN_TRANSIT"
       THEN /\ TransferRow(n) \in DOMAIN more
            /\ \E to \in Stores \ {from} :
                  more[TransferRow(n)] = [there |-> TRUE, origin |-> from, to |-> to]
       ELSE IF TransferRow(n) \in DOMAIN more THEN more[TransferRow(n)] = Absent
            ELSE ~There(TransferRow(n))

\* and that the buckets count the piece where it is.
Counts(n, status, moves, at, from, more) ==
    \A x \in Stores :
        LET now(statuses) == IF at = x /\ status \in statuses THEN 1 ELSE 0
            was(statuses) == Has(n, PiecesIn(rows, x, statuses))
            gone == IF from = x /\ status = "IN_TRANSIT" THEN 1 ELSE 0
        IN /\ IF Bucket(x) \in DOMAIN more
              THEN Delta(moves, x, "onHand") <= now(Held) - was(Held)
              ELSE Delta(moves, x, "onHand") = now(Held) - was(Held)
           /\ Delta(moves, x, "reserved") = now({"RESERVED"}) - was({"RESERVED"})
           /\ Delta(moves, x, "transit") = gone - Has(n, OnTheWay(rows, x))

\* What a movement writes,
Posting(writes, n, kind, store, row, moves, more) ==
    /\ DOMAIN writes =
           {n, LastMovement} \cup DOMAIN more \cup {Bucket(to) : to \in DOMAIN moves}
    /\ writes[n] = row
    /\ writes[LastMovement] = [kind |-> kind, serial |-> n, store |-> store]
    /\ \A r \in DOMAIN more : writes[r] = more[r]
    /\ \A to \in DOMAIN moves :
          Bucket(to) \notin DOMAIN more => writes[Bucket(to)] = Effect(to, moves[to])

LEMMA PostWrites ==
    ASSUME NEW types, NEW sound, SerialFits(types, sound), NEW s \in Sessions,
           NEW kind, NEW n, NEW store, NEW row, NEW moves, NEW more, NEW at, NEW from,
           PostSerial(s, kind, n, store, row, moves, more),
           Handles(n, kind, store, row, moves, at),
           Accompanies(n, row.status, moves, at, from, more)
    PROVE  \E writes : /\ StageLocked(s, InventoryLock \cup {n}, writes)
                       /\ Proper(writes, types)
                       /\ Posting(writes, n, kind, store, row, moves, more)
<1>1. PICK mark : mark = [kind |-> kind, serial |-> n, store |-> store]
  OBVIOUS
<1>2. /\ DOMAIN mark = {"kind", "serial", "store"}
      /\ mark.kind = kind /\ mark.serial = n /\ mark.store = store
  BY <1>1
<1>3. PICK moved : moved = [b \in {Bucket(to) : to \in DOMAIN moves} |-> Effect(b[2], moves[b[2]])]
  OBVIOUS
<1>4. PICK base, rest, writes : /\ base = Over(Set(n, row), Set(LastMovement, mark))
                                /\ rest = Over(more, moved) /\ writes = Over(base, rest)
  OBVIOUS
<1>5. /\ StageLocked(s, InventoryLock \cup {n}, writes)
      /\ \A to \in DOMAIN moves : Enough(Effect(to, moves[to]))
  BY <1>1, <1>3, <1>4 DEF PostSerial
<1>6. /\ n \in Pieces /\ store \in Stores /\ kind \in {"ISSUE", "RECEIPT", "OTHER"}
      /\ MayWrite(row, PieceTypes)
      /\ \A to \in DOMAIN moves : /\ to \in Stores /\ DOMAIN moves[to] \subseteq Fields
                                  /\ \A f \in DOMAIN moves[to] : moves[to][f] \in Int
  BY DEF Handles
<1>7. /\ DOMAIN moved = {Bucket(to) : to \in DOMAIN moves}
      /\ \A to \in DOMAIN moves : moved[Bucket(to)] = Effect(to, moves[to])
  BY <1>6, OwnIds, <1>3
<1>8. /\ n # LastMovement /\ n \in SerialIds /\ LastMovement \in SerialIds
      /\ SerialTypes[n] = PieceTypes /\ SerialTypes[LastMovement] = MovementTypes
      /\ \A to \in DOMAIN moves : Bucket(to) \in SerialIds /\ SerialTypes[Bucket(to)] = BucketTypes
  BY <1>6, PieceIds, OwnIds
<1>9. DOMAIN rows = SerialIds /\ types = SerialTypes
  BY DEF SerialFits
<1>10. \A r \in DOMAIN more : r \in SerialIds /\ MayWrite(more[r], SerialTypes[r])
  BY DEF Accompanies
<1>11. Proper(base, types)
  <2>1. MayWrite(mark, MovementTypes)
    BY <1>6, <1>2, MovementColumns, MaySet DEF Pieces
  <2>2. Proper(Set(n, row), types)
    BY <1>6, <1>8, <1>9, ProperSet
  <2>3. Proper(Set(LastMovement, mark), types)
    BY <1>8, <1>9, <2>1, ProperSet
  <2> QED BY <1>4, <2>2, <2>3, ProperOver
<1>12. Proper(moved, types)
  <2>1. ASSUME NEW to \in DOMAIN moves PROVE MayWrite(Effect(to, moves[to]), BucketTypes)
    BY <1>6, <2>1, StockHas, <1>5, BucketColumns, MaySet DEF Effect, Enough, Fields
  <2>2. \A r \in DOMAIN moved : r \in SerialIds /\ MayWrite(moved[r], SerialTypes[r])
    BY <1>7, <1>8, <2>1
  <2> QED BY <1>9, <2>2 DEF Proper
<1>13. Proper(more, types)
  BY <1>9, <1>10 DEF Proper
<1>14. Proper(writes, types)
  BY <1>4, <1>11, <1>12, <1>13, ProperOver
<1>15. /\ DOMAIN base = {n, LastMovement} /\ base[n] = row /\ base[LastMovement] = mark
  BY <1>4, <1>8 DEF Over, Set
<1>16. /\ DOMAIN rest = DOMAIN more \cup DOMAIN moved
       /\ \A r \in DOMAIN rest : rest[r] = IF r \in DOMAIN more THEN more[r] ELSE moved[r]
  BY <1>4 DEF Over
<1>17. /\ DOMAIN writes = DOMAIN base \cup DOMAIN rest
       /\ \A r \in DOMAIN writes : writes[r] = IF r \in DOMAIN base THEN base[r] ELSE rest[r]
  BY <1>4 DEF Over
<1>18. \A r \in DOMAIN rest : r # n /\ r # LastMovement
  BY <1>6, <1>7, <1>16, OwnIds DEF Accompanies
<1>19. \A r \in DOMAIN more : writes[r] = more[r]
  BY <1>15, <1>16, <1>17, <1>18
<1>20. \A to \in DOMAIN moves :
           Bucket(to) \notin DOMAIN more => writes[Bucket(to)] = Effect(to, moves[to])
  BY <1>7, <1>15, <1>16, <1>17, <1>18
<1>21. writes[n] = row /\ writes[LastMovement] = mark
  BY <1>15, <1>17
<1>22. DOMAIN writes = {n, LastMovement} \cup DOMAIN more \cup {Bucket(to) : to \in DOMAIN moves}
  BY <1>7, <1>15, <1>16, <1>17
<1>23. Posting(writes, n, kind, store, row, moves, more)
  BY <1>1, <1>19, <1>20, <1>21, <1>22 DEF Posting
<1> QED BY <1>5, <1>14, <1>23

\* makes of the piece and of the latest movement,
LEMMA PostedPiece ==
    ASSUME NEW types, NEW sound, SerialFits(types, sound), NEW kind, NEW n, NEW store, NEW row,
           NEW moves, NEW more, NEW at, Handles(n, kind, store, row, moves, at),
           NEW writes, Posting(writes, n, kind, store, row, moves, more),
           NEW now, Laid(rows, now, writes)
    PROVE  /\ now[n].there /\ now[n].status = row.status /\ now[n].store = at
           /\ now[LastMovement].there /\ now[LastMovement].kind = kind
           /\ now[LastMovement].serial = n /\ now[LastMovement].store = store
<1>1. /\ DOMAIN rows = SerialIds
      /\ n \in SerialIds /\ LastMovement \in SerialIds
      /\ There(LastMovement) /\ IsRow(rows[LastMovement], MovementTypes)
      /\ There(n) => IsRow(rows[n], PieceTypes)
  BY PieceIds, SerialHas DEF SerialFits, Handles
<1>2. /\ n \in DOMAIN writes /\ writes[n] = row /\ LastMovement \in DOMAIN writes
  BY DEF Posting
<1>3. LaidRow(now[n], row, rows[n])
  BY <1>1, <1>2 DEF Laid
<1>4. PICK mark : mark = [kind |-> kind, serial |-> n, store |-> store]
  OBVIOUS
<1>5. /\ DOMAIN mark = {"kind", "serial", "store"}
      /\ mark.kind = kind /\ mark.serial = n /\ mark.store = store
  BY <1>4
<1>6. LaidRow(now[LastMovement], mark, rows[LastMovement])
  BY <1>1, <1>2, <1>4 DEF Laid, Posting
<1>7. /\ now[LastMovement].there /\ now[LastMovement].kind = kind
      /\ now[LastMovement].serial = n /\ now[LastMovement].store = store
  BY <1>1, <1>5, <1>6 DEF LaidRow, There
<1>8. /\ MayWrite(row, PieceTypes) /\ "status" \in DOMAIN row
      /\ There(n) \/ "there" \in DOMAIN row
      /\ at = IF "store" \in DOMAIN row THEN row.store ELSE rows[n].store
  BY DEF Handles
<1>9. CASE "there" \in DOMAIN row
  BY <1>8, <1>9, PieceColumns, <1>3, <1>7 DEF MayWrite, IsRow, LaidRow
<1>10. CASE "there" \notin DOMAIN row
  BY <1>1, <1>8, <1>10, PieceColumns, <1>3, <1>7 DEF IsRow, LaidRow, There
<1> QED BY <1>9, <1>10

\* of what goes with it,
LEMMA PostedRest ==
    ASSUME NEW types, NEW sound, SerialFits(types, sound), NEW kind, NEW n, NEW store, NEW row,
           NEW moves, NEW more, NEW at, NEW from, Handles(n, kind, store, row, moves, at),
           Accompanies(n, row.status, moves, at, from, more),
           NEW writes, Posting(writes, n, kind, store, row, moves, more),
           NEW now, Laid(rows, now, writes)
    PROVE  /\ OthersLie(rows, now, n)
           /\ now[Reservation(n)].there <=> row.status = "RESERVED"
           /\ now[Reservation(n)].there => now[Reservation(n)].store = at
           /\ now[TransferRow(n)].there <=> row.status = "IN_TRANSIT"
           /\ now[TransferRow(n)].there => /\ now[TransferRow(n)].origin = from
                                           /\ now[TransferRow(n)].to # from
<1>1. DOMAIN rows = SerialIds /\ n \in Pieces
  BY DEF SerialFits, Handles
<1>2. \A r \in DOMAIN writes :
          r \in {n, LastMovement, Reservation(n), TransferRow(n)} \/ \E to \in Stores : r = Bucket(to)
  BY DEF Accompanies, Handles, Posting
<1>3. OthersLie(rows, now, n)
  BY <1>1, <1>2, PieceIds, OwnIds DEF OthersLie, Laid
<1>4. /\ Reservation(n) \in DOMAIN rows /\ TransferRow(n) \in DOMAIN rows
      /\ Reservation(n) \in DOMAIN more <=> Reservation(n) \in DOMAIN writes
      /\ TransferRow(n) \in DOMAIN more <=> TransferRow(n) \in DOMAIN writes
  BY <1>1, PieceIds, OwnIds DEF Handles, Posting
<1>5. ASSUME NEW r \in {Reservation(n), TransferRow(n)}
      PROVE  /\ r \in DOMAIN more => LaidRow(now[r], more[r], rows[r])
             /\ r \notin DOMAIN more => now[r] = rows[r]
  BY <1>4, <1>5 DEF Laid, Posting
<1>6. DOMAIN Absent = {"there"} /\ Absent.there = FALSE
  BY DEF Absent
<1>7. /\ now[Reservation(n)].there <=> row.status = "RESERVED"
      /\ now[Reservation(n)].there => now[Reservation(n)].store = at
  BY <1>5, <1>6 DEF Accompanies, LaidRow, There
<1>8. /\ now[TransferRow(n)].there <=> row.status = "IN_TRANSIT"
      /\ now[TransferRow(n)].there => /\ now[TransferRow(n)].origin = from
                                      /\ now[TransferRow(n)].to # from
  <2>1. CASE row.status = "IN_TRANSIT"
    BY <2>1, <1>5 DEF Accompanies, LaidRow
  <2>2. CASE row.status # "IN_TRANSIT"
    BY <2>2, <1>5, <1>6 DEF Accompanies, LaidRow, There
  <2> QED BY <2>1, <2>2
<1> QED BY <1>3, <1>7, <1>8

\* and of a bucket.
BucketMoves(now, x, moves, more) ==
    /\ now[Bucket(x)].there
    /\ \A f \in Fields : now[Bucket(x)][f] = rows[Bucket(x)][f] + Delta(moves, x, f)
    /\ \A f \in Fields : now[Bucket(x)][f] \in Nat /\ rows[Bucket(x)][f] \in Nat
    /\ now[Bucket(x)].onHand >= now[Bucket(x)].reserved + now[Bucket(x)].quarantined
    /\ IF Bucket(x) \in DOMAIN more THEN now[Bucket(x)].counted
       ELSE now[Bucket(x)].counted = rows[Bucket(x)].counted

LEMMA PostedBucket ==
    ASSUME NEW types, NEW sound, SerialFits(types, sound), NEW kind, NEW n, NEW store, NEW row,
           NEW moves, NEW more, NEW at, NEW from, Handles(n, kind, store, row, moves, at),
           Accompanies(n, row.status, moves, at, from, more),
           \A to \in DOMAIN moves : Enough(Effect(to, moves[to])),
           NEW writes, Posting(writes, n, kind, store, row, moves, more),
           NEW now, Laid(rows, now, writes), NEW x \in Stores
    PROVE  BucketMoves(now, x, moves, more)
<1>1. /\ DOMAIN rows = SerialIds /\ Bucket(x) \in DOMAIN rows
      /\ There(Bucket(x)) /\ IsRow(rows[Bucket(x)], BucketTypes)
      /\ \A f \in Fields : rows[Bucket(x)][f] \in Nat
      /\ rows[Bucket(x)].onHand >= rows[Bucket(x)].reserved + rows[Bucket(x)].quarantined
  BY SerialHas, PieceIds, StockHas DEF StockFits, SerialFits, BucketFits
<1>2. DOMAIN rows[Bucket(x)] = {"there", "counted"} \cup Fields
  BY <1>1, BucketColumns DEF IsRow
<1>3. n \in Pieces /\ \A to \in DOMAIN moves : to \in Stores
  BY DEF Handles
<1>4. Bucket(x) \notin {n, LastMovement, Reservation(n), TransferRow(n)}
  BY <1>3, OwnIds
<1>5. \A to \in Stores : Bucket(to) = Bucket(x) => to = x
  BY OwnIds
<1>6. "there" \notin Fields /\ "counted" \notin Fields /\ {"onHand", "reserved", "quarantined"} \subseteq Fields
  BY DEF Fields
<1>7. Bucket(x) \in DOMAIN more => x \in DOMAIN moves
  BY <1>3, <1>4, <1>5 DEF Accompanies
<1>8. Bucket(x) \in DOMAIN writes <=> x \in DOMAIN moves
  BY <1>3, <1>4, <1>5, <1>7 DEF Posting
<1>9. CASE x \notin DOMAIN moves
  BY <1>1, <1>8, <1>9, <1>7 DEF Laid, Delta, There, BucketMoves
<1>10. CASE x \in DOMAIN moves
  <2>1. PICK e, cols : e = Effect(x, moves[x]) /\ cols = writes[Bucket(x)]
    OBVIOUS
  <2>2. \A f \in Fields : e[f] = rows[Bucket(x)][f] + Delta(moves, x, f)
    BY <1>10, <2>1 DEF Effect, Delta
  <2>3. DOMAIN e = Fields
    BY <2>1 DEF Effect
  <2>4. /\ "there" \notin DOMAIN cols
        /\ \A f \in Fields : f \in DOMAIN cols /\ cols[f] = e[f]
        /\ Bucket(x) \in DOMAIN more => "counted" \in DOMAIN cols /\ cols.counted
        /\ Bucket(x) \notin DOMAIN more => "counted" \notin DOMAIN cols
    BY <1>4, <1>3, <1>5, <2>1, <1>10, <1>6, <2>3 DEF Accompanies, Posting
  <2>5. LaidRow(now[Bucket(x)], cols, rows[Bucket(x)])
    BY <1>1, <1>8, <1>10, <2>1 DEF Laid
  <2>6. /\ now[Bucket(x)].there
        /\ \A f \in Fields : now[Bucket(x)][f] = e[f]
        /\ IF Bucket(x) \in DOMAIN more THEN now[Bucket(x)].counted
           ELSE now[Bucket(x)].counted = rows[Bucket(x)].counted
    BY <1>1, <1>2, <2>4, <2>5 DEF LaidRow, There
  <2>7. /\ \A f \in Fields : e[f] >= 0
        /\ e.onHand >= e.reserved + e.quarantined
    BY <1>10, <2>1 DEF Enough
  <2>8. \A f \in Fields : e[f] \in Nat
    BY <1>10, <1>1, <2>2, <2>7 DEF Handles, Delta
  <2> QED BY <1>1, <1>6, <2>2, <2>6, <2>7, <2>8 DEF BucketMoves
<1> QED BY <1>9, <1>10

\* So the stock is sound after it.
LEMMA PostSound ==
    ASSUME NEW types, NEW sound, SerialFits(types, sound), NEW kind, NEW n, NEW store, NEW row,
           NEW moves, NEW more, NEW at, NEW from, Handles(n, kind, store, row, moves, at),
           Accompanies(n, row.status, moves, at, from, more),
           Counts(n, row.status, moves, at, from, more),
           \A to \in DOMAIN moves : Enough(Effect(to, moves[to])),
           NEW writes, Posting(writes, n, kind, store, row, moves, more),
           NEW now, Laid(rows, now, writes)
    PROVE  StockFits(now)
<1>1. /\ now[n].there /\ now[n].status = row.status /\ now[n].store = at
      /\ now[LastMovement].there /\ now[LastMovement].kind = kind
      /\ now[LastMovement].serial = n /\ now[LastMovement].store = store
  BY PostedPiece
<1>2. /\ OthersLie(rows, now, n)
      /\ now[Reservation(n)].there <=> row.status = "RESERVED"
      /\ now[Reservation(n)].there => now[Reservation(n)].store = at
      /\ now[TransferRow(n)].there <=> row.status = "IN_TRANSIT"
      /\ now[TransferRow(n)].there => /\ now[TransferRow(n)].origin = from
                                      /\ now[TransferRow(n)].to # from
  BY PostedRest
<1>3. n \in Pieces /\ store \in Stores /\ (row.status \in Held => at \in Stores)
  BY DEF Handles
<1>4. Linked(now, n)
  BY <1>1, <1>2, <1>3 DEF Linked
<1>5. Latest(now)
  BY <1>1, <1>3 DEF Handles, Latest
<1>6. ASSUME NEW x \in Stores PROVE Shifted(rows, now, n, x)
  <2>1. PICK b, c : b = rows[Bucket(x)] /\ c = now[Bucket(x)]
    OBVIOUS
  <2>2. /\ c.there /\ \A f \in Fields : c[f] = b[f] + Delta(moves, x, f)
        /\ c.onHand >= c.reserved + c.quarantined
        /\ IF Bucket(x) \in DOMAIN more THEN c.counted ELSE c.counted = b.counted
        /\ \A f \in Fields : c[f] \in Nat /\ b[f] \in Nat
    <3>1. BucketMoves(now, x, moves, more)
      BY PostedBucket
    <3> QED BY <2>1, <3>1 DEF BucketMoves
  <2>3. {"onHand", "reserved", "transit"} \subseteq Fields
    BY DEF Fields
  <2>4. \A statuses : Has(n, PiecesIn(now, x, statuses))
                          = IF at = x /\ row.status \in statuses THEN 1 ELSE 0
    BY <1>1, <1>3 DEF PiecesIn, Has
  <2>5. Has(n, OnTheWay(now, x)) = IF from = x /\ row.status = "IN_TRANSIT" THEN 1 ELSE 0
    BY <1>2, <1>3 DEF Has, OnTheWay
  <2>6. PICK a1, a2, r1, r2, w1, w2, d, e, g :
            /\ a1 = Has(n, PiecesIn(rows, x, Held)) /\ a2 = Has(n, PiecesIn(now, x, Held))
            /\ r1 = Has(n, PiecesIn(rows, x, {"RESERVED"}))
            /\ r2 = Has(n, PiecesIn(now, x, {"RESERVED"}))
            /\ w1 = Has(n, OnTheWay(rows, x)) /\ w2 = Has(n, OnTheWay(now, x))
            /\ d = Delta(moves, x, "onHand") /\ e = Delta(moves, x, "reserved")
            /\ g = Delta(moves, x, "transit")
    OBVIOUS
  <2>7. /\ IF Bucket(x) \in DOMAIN more THEN d <= a2 - a1 ELSE d = a2 - a1
        /\ e = r2 - r1 /\ g = w2 - w1
    BY <2>4, <2>5, <2>6 DEF Counts
  <2>8. \A S : Has(n, S) \in {0, 1}
    BY DEF Has
  <2>9. {a1, a2, r1, r2, w1, w2} \subseteq {0, 1}
    BY <2>6, <2>8
  <2>10. /\ c.onHand = b.onHand + d /\ c.reserved = b.reserved + e /\ c.transit = b.transit + g
         /\ {c.onHand, b.onHand, b.reserved, c.reserved, b.transit, c.transit} \subseteq Nat
    BY <2>2, <2>3, <2>6
  <2>11. d \in Int
    BY <2>6 DEF Handles, Delta
  <2>12. /\ \/ c.onHand = b.onHand + (a2 - a1) /\ c.counted = b.counted
            \/ c.onHand <= b.onHand + (a2 - a1) /\ c.counted
         /\ c.reserved = b.reserved + (r2 - r1)
         /\ c.transit = b.transit + w2 - w1
    BY <2>2, <2>7, <2>9, <2>10, <2>11
  <2> QED BY <2>1, <2>2, <2>6, <2>12 DEF Shifted
<1>7. \A x \in Stores : now[Bucket(x)].onHand \in Nat /\ rows[Bucket(x)].onHand \in Nat
  BY PostedBucket DEF Fields, BucketMoves
<1>8. StockFits(rows)
  BY SerialHas
<1> QED BY <1>2, <1>3, <1>4, <1>5, <1>6, <1>7, <1>8, StockMoves

LEMMA PostAlone ==
    ASSUME NEW types, NEW sound, SerialFits(types, sound), NEW s \in Sessions,
           NEW kind, NEW n, NEW store, NEW row, NEW moves, NEW more, NEW at, NEW from,
           PostSerial(s, kind, n, store, row, moves, more),
           Handles(n, kind, store, row, moves, at),
           Accompanies(n, row.status, moves, at, from, more),
           Counts(n, row.status, moves, at, from, more)
    PROVE  AloneWrites(s, types, InventoryLock, {}, sound)
<1>1. PICK writes : /\ StageLocked(s, InventoryLock \cup {n}, writes)
                    /\ Proper(writes, types)
                    /\ Posting(writes, n, kind, store, row, moves, more)
  BY PostWrites
<1>2. \A to \in DOMAIN moves : Enough(Effect(to, moves[to]))
  BY DEF PostSerial
<1>3. LaysSound(writes, types, sound)
  BY <1>1, <1>2, PostSound, TablesAre DEF LaysSound, SerialFits, StockSound
<1>4. PICK locked : locked = InventoryLock \cup {n}
  OBVIOUS
<1>5. locked \subseteq DOMAIN rows \cup Advisory /\ InventoryLock \subseteq locked
  BY PieceIds, <1>4 DEF InventoryLock, Advisory, SerialFits, Handles
<1> QED BY <1>1, <1>3, <1>4, <1>5 DEF AloneWrites

\* Where a piece was, old in the state was, and where it is: what the buckets must say.
Balanced(x, moves, was, old, away, status, at, from, more) ==
    LET count(place, state, states) == IF place = x /\ state \in states THEN 1 ELSE 0
    IN /\ IF Bucket(x) \in DOMAIN more
          THEN Delta(moves, x, "onHand") <= count(at, status, Held) - count(old, was, Held)
          ELSE Delta(moves, x, "onHand") = count(at, status, Held) - count(old, was, Held)
       /\ Delta(moves, x, "reserved")
              = count(at, status, {"RESERVED"}) - count(old, was, {"RESERVED"})
       /\ Delta(moves, x, "transit")
              = count(from, status, {"IN_TRANSIT"}) - count(away, was, {"IN_TRANSIT"})

LEMMA CountsIf ==
    ASSUME NEW types, NEW sound, SerialFits(types, sound), NEW n \in Pieces, NEW moves, NEW status,
           NEW at, NEW from, NEW more, NEW was, NEW old, NEW away,
           IF There(n) THEN was = rows[n].status /\ old = rows[n].store ELSE was = "NONE",
           There(TransferRow(n)) => away = rows[TransferRow(n)].origin,
           \A x \in Stores : Balanced(x, moves, was, old, away, status, at, from, more)
    PROVE  Counts(n, status, moves, at, from, more)
  BY SerialHas DEF PiecesIn, There, Has, StockFits, Linked, OnTheWay, Held, Balanced, Counts

\* The columns of a piece that a handler sets.
LEMMA RowIn ==
    ASSUME NEW at \in Stores \cup {Nowhere}, NEW status \in SerialStatuses,
           NEW row, row = In(at, status)
    PROVE  /\ DOMAIN row = {"store", "status"} /\ row.store = at /\ row.status = status
           /\ MayWrite(row, PieceTypes)
  BY PieceColumns, MaySet DEF In

\* What is moved into or out of one store.
LEMMA OneStore ==
    ASSUME NEW store \in Stores, NEW deltas, DOMAIN deltas \subseteq Fields,
           \A f \in DOMAIN deltas : deltas[f] \in Int,
           NEW moves, moves = Set(store, deltas)
    PROVE  /\ \A to \in DOMAIN moves : /\ to \in Stores /\ DOMAIN moves[to] \subseteq Fields
                                       /\ \A f \in DOMAIN moves[to] : moves[to][f] \in Int
           /\ \A x, f : Delta(moves, x, f)
                            = IF x = store /\ f \in DOMAIN deltas THEN deltas[f] ELSE 0
           /\ DOMAIN moves = {store} /\ moves[store] = deltas
  BY DEF Set, Delta

\* What goes with it: nothing,
LEMMA GoesAlone ==
    ASSUME NEW n \in Pieces, NEW status, status \notin {"RESERVED", "IN_TRANSIT"}, NEW moves, NEW at,
           NEW from,
           ~There(Reservation(n)), ~There(TransferRow(n)), NEW more, more = <<>>
    PROVE  Accompanies(n, status, moves, at, from, more) /\ \A x \in Stores : Bucket(x) \notin DOMAIN more
  BY DEF Accompanies

\* the end of its reservation or of its transfer,
LEMMA GoesOff ==
    ASSUME NEW n \in Pieces, NEW status, status \notin {"RESERVED", "IN_TRANSIT"}, NEW moves, NEW at,
           NEW from,
           NEW r \in {Reservation(n), TransferRow(n)},
           \A x \in {Reservation(n), TransferRow(n)} \ {r} : ~There(x),
           NEW more, more = Set(r, Absent)
    PROVE  Accompanies(n, status, moves, at, from, more) /\ \A x \in Stores : Bucket(x) \notin DOMAIN more
  BY PieceIds, MayDelete, OwnIds DEF Set, Accompanies

\* a reservation,
LEMMA GoesHeld ==
    ASSUME NEW n \in Pieces, NEW moves, NEW at \in Stores, NEW from, ~There(TransferRow(n)),
           NEW more, more = Set(Reservation(n), [there |-> TRUE, store |-> at])
    PROVE  Accompanies(n, "RESERVED", moves, at, from, more)
           /\ \A x \in Stores : Bucket(x) \notin DOMAIN more
<1>1. PICK r, cols : r = Reservation(n) /\ cols = [there |-> TRUE, store |-> at]
  OBVIOUS
<1>2. /\ DOMAIN cols = {"there", "store"} /\ cols.there = TRUE /\ cols.store = at
      /\ cols = [c \in DOMAIN cols |-> cols[c]]
  BY <1>1
<1>3. DOMAIN more = {r} /\ more[r] = cols
  BY <1>1 DEF Set
<1>4. r \in SerialIds /\ MayWrite(more[r], SerialTypes[r])
  <2>1. IsRow(cols, HoldTypes)
    BY <1>2, HoldColumns DEF IsRow
  <2> QED BY <1>1, <1>3, <2>1, PieceIds DEF MayWrite
<1>5. (\A x \in Stores : Bucket(x) # r) /\ r # TransferRow(n)
  BY <1>1, OwnIds
<1> QED BY <1>1, <1>3, <1>4, <1>5 DEF Accompanies

\* or a transfer.
LEMMA GoesAway ==
    ASSUME NEW n \in Pieces, NEW moves, NEW at, NEW from \in Stores, NEW to \in Stores, to # from,
           ~There(Reservation(n)),
           NEW more, more = Set(TransferRow(n), [there |-> TRUE, origin |-> from, to |-> to])
    PROVE  Accompanies(n, "IN_TRANSIT", moves, at, from, more)
           /\ \A x \in Stores : Bucket(x) \notin DOMAIN more
<1>1. PICK r, cols : r = TransferRow(n) /\ cols = [there |-> TRUE, origin |-> from, to |-> to]
  OBVIOUS
<1>2. /\ DOMAIN cols = {"there", "origin", "to"}
      /\ cols.there = TRUE /\ cols.origin = from /\ cols.to = to
      /\ cols = [c \in DOMAIN cols |-> cols[c]]
  BY <1>1
<1>3. DOMAIN more = {r} /\ more[r] = cols
  BY <1>1 DEF Set
<1>4. r \in SerialIds /\ MayWrite(more[r], SerialTypes[r])
  <2>1. IsRow(cols, WayTypes)
    BY <1>2, WayColumns DEF IsRow
  <2> QED BY <1>1, <1>3, <2>1, PieceIds DEF MayWrite
<1>5. (\A x \in Stores : Bucket(x) # r) /\ r # Reservation(n)
  BY <1>1, OwnIds
<1> QED BY <1>1, <1>3, <1>4, <1>5 DEF Accompanies

\* What the rows say of a piece.
LEMMA PieceHas ==
    ASSUME NEW types, NEW sound, SerialFits(types, sound), NEW n \in Live("serials")
    PROVE  /\ n \in Pieces /\ There(n)
           /\ rows[n].store \in Stores \cup {Nowhere} /\ rows[n].status \in SerialStatuses
           /\ rows[n].status \in Held => rows[n].store \in Stores
           /\ There(Reservation(n)) <=> rows[n].status = "RESERVED"
           /\ There(Reservation(n)) => rows[Reservation(n)].store = rows[n].store
           /\ There(TransferRow(n)) <=> rows[n].status = "IN_TRANSIT"
           /\ There(TransferRow(n)) => /\ rows[TransferRow(n)].origin \in Stores
                                       /\ rows[TransferRow(n)].to \in Stores
  BY SerialHas, StockHas DEF StockFits, Linked, There

\* A movement of a piece that is there, between the buckets of one store.
Movement(s, kind, n, store, at, status, deltas, more, from) ==
    /\ n \in Pieces /\ There(n) /\ store \in Stores
    /\ at \in Stores \cup {Nowhere} /\ status \in SerialStatuses
    /\ status \in Held => at \in Stores
    /\ kind \in {"ISSUE", "RECEIPT", "OTHER"}
    /\ kind = "RECEIPT" => status = "IN_STOCK" /\ at = store
    /\ kind = "ISSUE" => status = "ISSUED"
    /\ DOMAIN deltas \subseteq Fields /\ \A f \in DOMAIN deltas : deltas[f] \in Int
    /\ PostSerial(s, kind, n, store, In(at, status), Set(store, deltas), more)
    /\ Accompanies(n, status, Set(store, deltas), at, from, more)
    /\ \A x \in Stores : Balanced(x, Set(store, deltas), rows[n].status, rows[n].store,
                                  rows[TransferRow(n)].origin, status, at, from, more)

LEMMA MovesOne ==
    ASSUME NEW types, NEW sound, SerialFits(types, sound), NEW s \in Sessions, NEW kind, NEW n,
           NEW store, NEW at, NEW status, NEW deltas, NEW more, NEW from,
           Movement(s, kind, n, store, at, status, deltas, more, from)
    PROVE  AloneWrites(s, types, InventoryLock, {}, sound)
<1>1. PICK row, moves : row = In(at, status) /\ moves = Set(store, deltas)
  OBVIOUS
<1>2. /\ n \in Pieces /\ There(n) /\ store \in Stores
      /\ at \in Stores \cup {Nowhere} /\ status \in SerialStatuses
      /\ DOMAIN deltas \subseteq Fields /\ \A f \in DOMAIN deltas : deltas[f] \in Int
      /\ PostSerial(s, kind, n, store, row, moves, more)
      /\ Accompanies(n, status, moves, at, from, more)
  BY <1>1 DEF Movement
<1>3. /\ DOMAIN row = {"store", "status"} /\ row.store = at /\ row.status = status
      /\ MayWrite(row, PieceTypes)
  BY <1>1, <1>2, RowIn
<1>4. \A to \in DOMAIN moves : /\ to \in Stores /\ DOMAIN moves[to] \subseteq Fields
                               /\ \A f \in DOMAIN moves[to] : moves[to][f] \in Int
  BY <1>1, <1>2, OneStore
<1>5. Handles(n, kind, store, row, moves, at)
  BY <1>2, <1>3, <1>4 DEF Movement, Handles
<1>6. Counts(n, row.status, moves, at, from, more)
  BY <1>2, <1>1, CountsIf, <1>3 DEF Movement
<1>7. Accompanies(n, row.status, moves, at, from, more)
  BY <1>2, <1>3
<1> QED BY <1>2, <1>5, <1>6, <1>7, PostAlone

\* What it moves.
LEMMA DeltaSet ==
    ASSUME NEW store, NEW deltas, NEW moves, moves = Set(store, deltas)
    PROVE  \A x, f : Delta(moves, x, f) = IF x = store /\ f \in DOMAIN deltas THEN deltas[f] ELSE 0
  BY DEF Set, Delta

\* Each of the movements is one of these: an issue,
LEMMA IssueAlone ==
    ASSUME NEW types, NEW sound, SerialFits(types, sound), NEW s \in Sessions, IssueSerial(s)
    PROVE  AloneWrites(s, types, InventoryLock, {}, sound)
<1>1. PICK n \in Live("serials") : \E kind \in {"ISSUE", "OTHER"} :
          /\ Is(n, {"IN_STOCK"})
          /\ PostSerial(s, kind, n, rows[n].store, Out("ISSUED"),
                        Set(rows[n].store, [onHand |-> -1]), <<>>)
  BY DEF IssueSerial
<1>2. PICK kind \in {"ISSUE", "OTHER"} :
          /\ Is(n, {"IN_STOCK"})
          /\ PostSerial(s, kind, n, rows[n].store, Out("ISSUED"),
                        Set(rows[n].store, [onHand |-> -1]), <<>>)
  BY <1>1
<1>3. PICK store, status, deltas, more :
          /\ store = rows[n].store /\ status = "ISSUED"
          /\ deltas = [onHand |-> -1] /\ more = <<>>
  OBVIOUS
<1>4. PostSerial(s, kind, n, store, In(Nowhere, status), Set(store, deltas), more)
  BY <1>2, <1>3 DEF Out
<1>5. /\ n \in Pieces /\ There(n) /\ rows[n].status = "IN_STOCK" /\ store \in Stores
      /\ ~There(Reservation(n)) /\ ~There(TransferRow(n))
  BY <1>2, <1>3, PieceHas DEF Is, Held
<1>6. /\ DOMAIN deltas = {"onHand"} /\ deltas.onHand = -1 /\ DOMAIN deltas \subseteq Fields
      /\ \A f \in DOMAIN deltas : deltas[f] \in Int
  BY <1>3 DEF Fields
<1>7. PICK moves : moves = Set(store, deltas)
  OBVIOUS
<1>8. \A x, f : Delta(moves, x, f) = IF x = store /\ f \in DOMAIN deltas THEN deltas[f] ELSE 0
  BY <1>7, DeltaSet
<1>9. /\ Accompanies(n, status, moves, Nowhere, store, more)
      /\ \A x \in Stores : Bucket(x) \notin DOMAIN more
  BY <1>3, <1>5, GoesAlone
<1>10. \A x \in Stores : Balanced(x, moves, rows[n].status, rows[n].store,
                                  rows[TransferRow(n)].origin, status, Nowhere, store, more)
  BY <1>3, <1>5, <1>6, <1>8, <1>9 DEF Balanced, Held
<1>11. status \in SerialStatuses /\ status \notin Held
  BY <1>3 DEF SerialStatuses, Held
<1>12. Movement(s, kind, n, store, Nowhere, status, deltas, more, store)
  BY <1>2, <1>3, <1>4, <1>5, <1>6, <1>7, <1>9, <1>10, <1>11 DEF Movement
<1> QED BY <1>12, MovesOne

\* of a reserved one,
LEMMA IssueReservedAlone ==
    ASSUME NEW types, NEW sound, SerialFits(types, sound), NEW s \in Sessions, IssueReserved(s)
    PROVE  AloneWrites(s, types, InventoryLock, {}, sound)
<1>1. PICK n \in Live("serials") :
          /\ Is(n, {"IN_STOCK", "RESERVED"}) /\ There(Reservation(n))
          /\ PostSerial(s, "OTHER", n, rows[n].store, Out("ISSUED"),
                        Set(rows[n].store, [onHand |-> -1, reserved |-> -1]),
                        Set(Reservation(n), Absent))
  BY DEF IssueReserved
<1>2. PICK store, status, deltas, more :
          /\ store = rows[n].store /\ status = "ISSUED"
          /\ deltas = [onHand |-> -1, reserved |-> -1] /\ more = Set(Reservation(n), Absent)
  OBVIOUS
<1>3. PostSerial(s, "OTHER", n, store, In(Nowhere, status), Set(store, deltas), more)
  BY <1>1, <1>2 DEF Out
<1>4. /\ n \in Pieces /\ There(n) /\ rows[n].status = "RESERVED" /\ store \in Stores
      /\ ~There(TransferRow(n))
  BY <1>1, <1>2, PieceHas DEF Held
<1>5. /\ DOMAIN deltas = {"onHand", "reserved"} /\ deltas.onHand = -1 /\ deltas.reserved = -1
      /\ DOMAIN deltas \subseteq Fields /\ \A f \in DOMAIN deltas : deltas[f] \in Int
  BY <1>2 DEF Fields
<1>6. PICK moves : moves = Set(store, deltas)
  OBVIOUS
<1>7. \A x, f : Delta(moves, x, f) = IF x = store /\ f \in DOMAIN deltas THEN deltas[f] ELSE 0
  BY <1>6, DeltaSet
<1>8. /\ Accompanies(n, status, moves, Nowhere, store, more)
      /\ \A x \in Stores : Bucket(x) \notin DOMAIN more
  BY <1>2, <1>4, GoesOff
<1>9. \A x \in Stores : Balanced(x, moves, rows[n].status, rows[n].store,
                                 rows[TransferRow(n)].origin, status, Nowhere, store, more)
  BY <1>2, <1>4, <1>5, <1>7, <1>8 DEF Balanced, Held
<1>10. status \in SerialStatuses /\ status \notin Held
  BY <1>2 DEF SerialStatuses, Held
<1>11. Movement(s, "OTHER", n, store, Nowhere, status, deltas, more, store)
  BY <1>3, <1>4, <1>5, <1>6, <1>8, <1>9, <1>10 DEF Movement
<1> QED BY <1>11, MovesOne

\* a return,
LEMMA ReturnAlone ==
    ASSUME NEW types, NEW sound, SerialFits(types, sound), NEW s \in Sessions, ReturnSerial(s)
    PROVE  AloneWrites(s, types, InventoryLock, {}, sound)
<1>1. PICK n \in Live("serials"), store \in Stores, damaged \in BOOLEAN :
          /\ Is(n, {"ISSUED"})
          /\ PostSerial(s, "OTHER", n, store,
                        In(store, IF damaged THEN "QUARANTINED" ELSE "IN_STOCK"),
                        Set(store, [onHand |-> 1, quarantined |-> IF damaged THEN 1 ELSE 0]), <<>>)
  BY DEF ReturnSerial
<1>2. PICK status, deltas, more :
          /\ status = IF damaged THEN "QUARANTINED" ELSE "IN_STOCK"
          /\ deltas = [onHand |-> 1, quarantined |-> IF damaged THEN 1 ELSE 0] /\ more = <<>>
  OBVIOUS
<1>3. PostSerial(s, "OTHER", n, store, In(store, status), Set(store, deltas), more)
  BY <1>1, <1>2
<1>4. /\ n \in Pieces /\ There(n) /\ rows[n].status = "ISSUED"
      /\ ~There(Reservation(n)) /\ ~There(TransferRow(n))
  BY <1>1, PieceHas DEF Is
<1>5. /\ DOMAIN deltas = {"onHand", "quarantined"} /\ deltas.onHand = 1
      /\ DOMAIN deltas \subseteq Fields /\ \A f \in DOMAIN deltas : deltas[f] \in Int
  BY <1>2 DEF Fields
<1>6. PICK moves : moves = Set(store, deltas)
  OBVIOUS
<1>7. \A x, f : Delta(moves, x, f) = IF x = store /\ f \in DOMAIN deltas THEN deltas[f] ELSE 0
  BY <1>6, DeltaSet
<1>8. status \in {"QUARANTINED", "IN_STOCK"}
  BY <1>2
<1>9. /\ Accompanies(n, status, moves, store, Nowhere, more)
      /\ \A x \in Stores : Bucket(x) \notin DOMAIN more
  BY <1>8, <1>2, <1>4, GoesAlone
<1>10. \A x \in Stores : Balanced(x, moves, rows[n].status, rows[n].store,
                                  rows[TransferRow(n)].origin, status, store, Nowhere, more)
  BY <1>4, <1>5, <1>7, <1>8, <1>9 DEF Balanced, Held
<1>11. status \in SerialStatuses
  BY <1>8 DEF SerialStatuses
<1>12. Movement(s, "OTHER", n, store, store, status, deltas, more, Nowhere)
  BY <1>1, <1>3, <1>4, <1>5, <1>6, <1>9, <1>10, <1>11 DEF Movement
<1> QED BY <1>12, MovesOne

\* the dispatch of a transfer,
LEMMA DispatchAlone ==
    ASSUME NEW types, NEW sound, SerialFits(types, sound), NEW s \in Sessions, DispatchSerial(s)
    PROVE  AloneWrites(s, types, InventoryLock, {}, sound)
<1>1. PICK n \in Live("serials"), to \in Stores :
          /\ Is(n, {"IN_STOCK"}) /\ to # rows[n].store
          /\ PostSerial(s, "OTHER", n, rows[n].store, Out("IN_TRANSIT"),
                 Set(rows[n].store, [onHand |-> -1, transit |-> 1]),
                 Set(TransferRow(n), [there |-> TRUE, origin |-> rows[n].store, to |-> to]))
  BY DEF DispatchSerial
<1>2. PICK store, status, deltas, more :
          /\ store = rows[n].store /\ status = "IN_TRANSIT"
          /\ deltas = [onHand |-> -1, transit |-> 1]
          /\ more = Set(TransferRow(n), [there |-> TRUE, origin |-> store, to |-> to])
  OBVIOUS
<1>3. PostSerial(s, "OTHER", n, store, In(Nowhere, status), Set(store, deltas), more)
  BY <1>1, <1>2 DEF Out
<1>4. /\ n \in Pieces /\ There(n) /\ rows[n].status = "IN_STOCK" /\ store \in Stores
      /\ ~There(Reservation(n)) /\ ~There(TransferRow(n))
  BY <1>1, <1>2, PieceHas DEF Is, Held
<1>5. /\ DOMAIN deltas = {"onHand", "transit"} /\ deltas.onHand = -1 /\ deltas.transit = 1
      /\ DOMAIN deltas \subseteq Fields /\ \A f \in DOMAIN deltas : deltas[f] \in Int
  BY <1>2 DEF Fields
<1>6. PICK moves : moves = Set(store, deltas)
  OBVIOUS
<1>7. \A x, f : Delta(moves, x, f) = IF x = store /\ f \in DOMAIN deltas THEN deltas[f] ELSE 0
  BY <1>6, DeltaSet
<1>8. /\ Accompanies(n, status, moves, Nowhere, store, more)
      /\ \A x \in Stores : Bucket(x) \notin DOMAIN more
  BY <1>1, <1>2, <1>4, GoesAway
<1>9. \A x \in Stores : Balanced(x, moves, rows[n].status, rows[n].store,
                                 rows[TransferRow(n)].origin, status, Nowhere, store, more)
  BY <1>2, <1>4, <1>5, <1>7, <1>8 DEF Balanced, Held
<1>10. status \in SerialStatuses /\ status \notin Held
  BY <1>2 DEF SerialStatuses, Held
<1>11. Movement(s, "OTHER", n, store, Nowhere, status, deltas, more, store)
  BY <1>3, <1>4, <1>5, <1>6, <1>8, <1>9, <1>10 DEF Movement
<1> QED BY <1>11, MovesOne

\* what is scrapped or lost,
LEMMA ScrapAlone ==
    ASSUME NEW types, NEW sound, SerialFits(types, sound), NEW s \in Sessions, ScrapSerial(s)
    PROVE  AloneWrites(s, types, InventoryLock, {}, sound)
<1>1. PICK n \in Live("serials"), gone \in {0, 1} :
          /\ Is(n, {"IN_STOCK", "QUARANTINED"})
          /\ PostSerial(s, "OTHER", n, rows[n].store, Out("SCRAPPED"),
                        Set(rows[n].store, [onHand |-> -1, quarantined |-> -gone]), <<>>)
  BY DEF ScrapSerial
<1>2. PICK store, status, deltas, more :
          /\ store = rows[n].store /\ status = "SCRAPPED"
          /\ deltas = [onHand |-> -1, quarantined |-> -gone] /\ more = <<>>
  OBVIOUS
<1>3. PostSerial(s, "OTHER", n, store, In(Nowhere, status), Set(store, deltas), more)
  BY <1>1, <1>2 DEF Out
<1>4. /\ n \in Pieces /\ There(n) /\ rows[n].status \in {"IN_STOCK", "QUARANTINED"}
      /\ store \in Stores /\ ~There(Reservation(n)) /\ ~There(TransferRow(n))
  BY <1>1, <1>2, PieceHas DEF Is, Held
<1>5. /\ DOMAIN deltas = {"onHand", "quarantined"} /\ deltas.onHand = -1
      /\ DOMAIN deltas \subseteq Fields /\ \A f \in DOMAIN deltas : deltas[f] \in Int
  BY <1>2 DEF Fields
<1>6. PICK moves : moves = Set(store, deltas)
  OBVIOUS
<1>7. \A x, f : Delta(moves, x, f) = IF x = store /\ f \in DOMAIN deltas THEN deltas[f] ELSE 0
  BY <1>6, DeltaSet
<1>8. /\ Accompanies(n, status, moves, Nowhere, store, more)
      /\ \A x \in Stores : Bucket(x) \notin DOMAIN more
  BY <1>2, <1>4, GoesAlone
<1>9. \A x \in Stores : Balanced(x, moves, rows[n].status, rows[n].store,
                                 rows[TransferRow(n)].origin, status, Nowhere, store, more)
  BY <1>2, <1>4, <1>5, <1>7, <1>8 DEF Balanced, Held
<1>10. status \in SerialStatuses /\ status \notin Held
  BY <1>2 DEF SerialStatuses, Held
<1>11. Movement(s, "OTHER", n, store, Nowhere, status, deltas, more, store)
  BY <1>3, <1>4, <1>5, <1>6, <1>8, <1>9, <1>10 DEF Movement
<1> QED BY <1>11, MovesOne

\* or put into quarantine, or back,
LEMMA QuarantineAlone ==
    ASSUME NEW types, NEW sound, SerialFits(types, sound), NEW s \in Sessions, Quarantine(s)
    PROVE  AloneWrites(s, types, InventoryLock, {}, sound)
<1>1. PICK n \in Live("serials"), release \in BOOLEAN :
          /\ Is(n, IF release THEN {"QUARANTINED"} ELSE {"IN_STOCK"})
          /\ PostSerial(s, "OTHER", n, rows[n].store,
                 In(rows[n].store, IF release THEN "IN_STOCK" ELSE "QUARANTINED"),
                 Set(rows[n].store, [quarantined |-> IF release THEN -1 ELSE 1]), <<>>)
  BY DEF Quarantine
<1>2. PICK store, status, deltas, more :
          /\ store = rows[n].store /\ status = IF release THEN "IN_STOCK" ELSE "QUARANTINED"
          /\ deltas = [quarantined |-> IF release THEN -1 ELSE 1] /\ more = <<>>
  OBVIOUS
<1>3. PostSerial(s, "OTHER", n, store, In(store, status), Set(store, deltas), more)
  BY <1>1, <1>2
<1>4. rows[n].status \in {"IN_STOCK", "QUARANTINED"} /\ status \in {"IN_STOCK", "QUARANTINED"}
  BY <1>1, <1>2 DEF Is
<1>5. /\ n \in Pieces /\ There(n)
      /\ store \in Stores /\ ~There(Reservation(n)) /\ ~There(TransferRow(n))
  BY <1>2, <1>4, PieceHas DEF Held
<1>6. /\ DOMAIN deltas = {"quarantined"}
      /\ DOMAIN deltas \subseteq Fields /\ \A f \in DOMAIN deltas : deltas[f] \in Int
  BY <1>2 DEF Fields
<1>7. PICK moves : moves = Set(store, deltas)
  OBVIOUS
<1>8. \A x, f : Delta(moves, x, f) = IF x = store /\ f \in DOMAIN deltas THEN deltas[f] ELSE 0
  BY <1>7, DeltaSet
<1>9. /\ Accompanies(n, status, moves, store, Nowhere, more)
      /\ \A x \in Stores : Bucket(x) \notin DOMAIN more
  BY <1>4, <1>2, <1>5, GoesAlone
<1>10. \A x \in Stores : Balanced(x, moves, rows[n].status, rows[n].store,
                                  rows[TransferRow(n)].origin, status, store, Nowhere, more)
  BY <1>2, <1>4, <1>6, <1>8, <1>9 DEF Balanced, Held
<1>11. status \in SerialStatuses
  BY <1>4 DEF SerialStatuses
<1>12. Movement(s, "OTHER", n, store, store, status, deltas, more, Nowhere)
  BY <1>3, <1>5, <1>6, <1>7, <1>9, <1>10, <1>11 DEF Movement
<1> QED BY <1>12, MovesOne

\* a count, which may write off more than its piece,
LEMMA GoesCounted ==
    ASSUME NEW types, NEW sound, SerialFits(types, sound), NEW n \in Pieces,
           NEW status, status \notin {"RESERVED", "IN_TRANSIT"}, NEW at, NEW from,
           ~There(Reservation(n)), ~There(TransferRow(n)), NEW store \in Stores, NEW deltas,
           \A f \in DOMAIN deltas : deltas[f] \in Int, Enough(Effect(store, deltas)),
           NEW moves, moves = Set(store, deltas),
           NEW more, more = Set(Bucket(store), Over([counted |-> TRUE], Effect(store, deltas)))
    PROVE  /\ Accompanies(n, status, moves, at, from, more)
           /\ \A x \in Stores : Bucket(x) \in DOMAIN more <=> x = store
<1>1. PICK e, mark, cols, b : /\ e = Effect(store, deltas) /\ mark = [counted |-> TRUE]
                              /\ cols = Over(mark, e) /\ b = Bucket(store)
  OBVIOUS
<1>2. DOMAIN e = Fields /\ \A f \in Fields : e[f] \in Nat
  BY StockHas, <1>1 DEF Effect, Enough
<1>3. /\ DOMAIN cols = {"counted"} \cup Fields /\ cols.counted = TRUE
      /\ \A f \in Fields : cols[f] = e[f]
  BY <1>1, <1>2 DEF Fields, Over
<1>4. "there" \notin DOMAIN cols
  BY <1>3 DEF Fields
<1>5. DOMAIN more = {b} /\ more[b] = cols
  BY <1>1 DEF Set
<1>6. b \in SerialIds /\ MayWrite(more[b], SerialTypes[b])
  <2>1. DOMAIN cols \subseteq DOMAIN BucketTypes \ {"there"}
    BY <1>3, <1>4, BucketColumns
  <2>2. \A c \in DOMAIN cols : cols[c] \in BucketTypes[c]
    BY <1>2, <1>3, BucketColumns
  <2>3. MayWrite(cols, BucketTypes)
    BY <2>1, <2>2, MaySet
  <2> QED BY <1>1, <1>5, <2>3, PieceIds
<1>7. DOMAIN moves = {store} /\ moves[store] = deltas
  BY DEF Set
<1>8. Reservation(n) # b /\ TransferRow(n) # b /\ \A x \in Stores : Bucket(x) = b => x = store
  BY <1>1, OwnIds
<1>9. Reservation(n) \notin DOMAIN more /\ TransferRow(n) \notin DOMAIN more
  BY <1>5, <1>8
<1>10. \A r \in DOMAIN more : \E to \in DOMAIN moves :
           /\ r = Bucket(to) /\ "there" \notin DOMAIN more[r]
           /\ "counted" \in DOMAIN more[r] /\ more[r].counted
           /\ \A f \in Fields : f \in DOMAIN more[r] /\ more[r][f] = Effect(to, moves[to])[f]
  BY <1>1, <1>3, <1>4, <1>5, <1>7
<1>11. Accompanies(n, status, moves, at, from, more)
  BY <1>5, <1>6, <1>9, <1>10 DEF Accompanies
<1> QED BY <1>1, <1>5, <1>8, <1>11

LEMMA CountAlone ==
    ASSUME NEW types, NEW sound, SerialFits(types, sound), NEW s \in Sessions, CountSerial(s)
    PROVE  AloneWrites(s, types, InventoryLock, {}, sound)
<1>1. PICK n \in Live("serials") :
          /\ Is(n, {"IN_STOCK", "QUARANTINED"})
          /\ \E counted \in 0..(rows[Bucket(rows[n].store)].onHand - 1) :
                PostSerial(s, "OTHER", n, rows[n].store, Out("SCRAPPED"),
                    Set(rows[n].store,
                        [onHand |-> counted - rows[Bucket(rows[n].store)].onHand]),
                    IF counted = rows[Bucket(rows[n].store)].onHand - 1 THEN <<>>
                    ELSE Set(Bucket(rows[n].store),
                             Over([counted |-> TRUE],
                                  Effect(rows[n].store,
                                     [onHand |-> counted - rows[Bucket(rows[n].store)].onHand]))))
  BY DEF CountSerial
<1>2. PICK store, status, onHand : /\ store = rows[n].store /\ status = "SCRAPPED"
                                   /\ onHand = rows[Bucket(store)].onHand
  OBVIOUS
<1>3. PICK counted \in 0..(onHand - 1) :
          PostSerial(s, "OTHER", n, store, Out("SCRAPPED"), Set(store, [onHand |-> counted - onHand]),
              IF counted = onHand - 1 THEN <<>>
              ELSE Set(Bucket(store), Over([counted |-> TRUE],
                                           Effect(store, [onHand |-> counted - onHand]))))
  BY <1>1, <1>2
<1>4. PICK deltas, more :
          /\ deltas = [onHand |-> counted - onHand]
          /\ more = IF counted = onHand - 1 THEN <<>>
                    ELSE Set(Bucket(store), Over([counted |-> TRUE], Effect(store, deltas)))
  OBVIOUS
<1>5. PostSerial(s, "OTHER", n, store, In(Nowhere, status), Set(store, deltas), more)
  BY <1>2, <1>3, <1>4 DEF Out
<1>6. /\ n \in Pieces /\ There(n) /\ rows[n].status \in {"IN_STOCK", "QUARANTINED"}
      /\ store \in Stores /\ ~There(Reservation(n)) /\ ~There(TransferRow(n))
  BY <1>1, <1>2, PieceHas DEF Is, Held
<1>7. onHand \in Nat
  BY <1>2, <1>6, StockHas DEF Fields
<1>8. /\ DOMAIN deltas = {"onHand"} /\ deltas.onHand = counted - onHand
      /\ DOMAIN deltas \subseteq Fields /\ \A f \in DOMAIN deltas : deltas[f] \in Int
  BY <1>4, <1>7 DEF Fields
<1>9. PICK moves : moves = Set(store, deltas)
  OBVIOUS
<1>10. \A x, f : Delta(moves, x, f) = IF x = store /\ f \in DOMAIN deltas THEN deltas[f] ELSE 0
  BY <1>9, DeltaSet
<1>11. status \notin {"RESERVED", "IN_TRANSIT"}
  BY <1>2
<1>12. /\ Accompanies(n, status, moves, Nowhere, store, more)
       /\ IF counted = onHand - 1 THEN \A x \in Stores : Bucket(x) \notin DOMAIN more
          ELSE \A x \in Stores : Bucket(x) \in DOMAIN more <=> x = store
  <2>1. CASE counted = onHand - 1
    BY <1>4, <2>1, <1>6, <1>11, GoesAlone
  <2>2. CASE counted # onHand - 1
    <3>1. more = Set(Bucket(store), Over([counted |-> TRUE], Effect(store, deltas)))
      BY <1>4, <2>2
    <3>2. Enough(Effect(store, deltas))
      BY <1>5 DEF Set, PostSerial
    <3>3. /\ Accompanies(n, status, moves, Nowhere, store, more)
          /\ \A x \in Stores : Bucket(x) \in DOMAIN more <=> x = store
      BY <1>6, <1>8, <1>9, <1>11, <3>1, <3>2, GoesCounted
    <3> QED BY <2>2, <3>3
  <2> QED BY <2>1, <2>2
<1>13. counted - onHand <= -1 /\ (counted = onHand - 1 => counted - onHand = -1)
  BY <1>7
<1>14. status \in SerialStatuses /\ status \notin Held /\ rows[n].status \in Held
       /\ rows[n].status # "RESERVED" /\ rows[n].status # "IN_TRANSIT"
  BY <1>2, <1>6 DEF SerialStatuses, Held
<1>15. ASSUME NEW x \in Stores
       PROVE  Balanced(x, moves, rows[n].status, rows[n].store,
                       rows[TransferRow(n)].origin, status, Nowhere, store, more)
  BY <1>7, <1>13, <1>8, <1>10, <1>12, <1>2, <1>11, <1>14 DEF Balanced
<1>16. Movement(s, "OTHER", n, store, Nowhere, status, deltas, more, store)
  BY <1>5, <1>6, <1>8, <1>9, <1>12, <1>14, <1>15 DEF Movement
<1> QED BY <1>16, MovesOne

\* a reservation,
LEMMA ReserveAlone ==
    ASSUME NEW types, NEW sound, SerialFits(types, sound), NEW s \in Sessions, Reserve(s)
    PROVE  AloneWrites(s, types, InventoryLock, {}, sound)
<1>1. PICK n \in Live("serials") :
          /\ Is(n, {"IN_STOCK"}) /\ ~There(Reservation(n))
          /\ PostSerial(s, "OTHER", n, rows[n].store, In(rows[n].store, "RESERVED"),
                        Set(rows[n].store, [reserved |-> 1]),
                        Set(Reservation(n), [there |-> TRUE, store |-> rows[n].store]))
  BY DEF Reserve
<1>2. PICK store, status, deltas, more :
          /\ store = rows[n].store /\ status = "RESERVED"
          /\ deltas = [reserved |-> 1]
          /\ more = Set(Reservation(n), [there |-> TRUE, store |-> store])
  OBVIOUS
<1>3. PostSerial(s, "OTHER", n, store, In(store, status), Set(store, deltas), more)
  BY <1>1, <1>2
<1>4. /\ n \in Pieces /\ There(n) /\ rows[n].status = "IN_STOCK" /\ store \in Stores
      /\ ~There(Reservation(n)) /\ ~There(TransferRow(n))
  BY <1>1, <1>2, PieceHas DEF Is, Held
<1>5. /\ DOMAIN deltas = {"reserved"} /\ deltas.reserved = 1
      /\ DOMAIN deltas \subseteq Fields /\ \A f \in DOMAIN deltas : deltas[f] \in Int
  BY <1>2 DEF Fields
<1>6. PICK moves : moves = Set(store, deltas)
  OBVIOUS
<1>7. \A x, f : Delta(moves, x, f) = IF x = store /\ f \in DOMAIN deltas THEN deltas[f] ELSE 0
  BY <1>6, DeltaSet
<1>8. /\ Accompanies(n, status, moves, store, Nowhere, more)
      /\ \A x \in Stores : Bucket(x) \notin DOMAIN more
  BY <1>2, <1>4, GoesHeld
<1>9. \A x \in Stores : Balanced(x, moves, rows[n].status, rows[n].store,
                                 rows[TransferRow(n)].origin, status, store, Nowhere, more)
  BY <1>2, <1>4, <1>5, <1>7, <1>8 DEF Balanced, Held
<1>10. status \in SerialStatuses
  BY <1>2 DEF SerialStatuses
<1>11. Movement(s, "OTHER", n, store, store, status, deltas, more, Nowhere)
  BY <1>3, <1>4, <1>5, <1>6, <1>8, <1>9, <1>10 DEF Movement
<1> QED BY <1>11, MovesOne

\* a release,
LEMMA ReleaseAlone ==
    ASSUME NEW types, NEW sound, SerialFits(types, sound), NEW s \in Sessions, Release(s)
    PROVE  AloneWrites(s, types, InventoryLock, {}, sound)
<1>1. PICK n \in Live("serials") :
          /\ There(Reservation(n))
          /\ PostSerial(s, "OTHER", n, rows[Reservation(n)].store, [status |-> "IN_STOCK"],
                        Set(rows[Reservation(n)].store, [reserved |-> -1]),
                        Set(Reservation(n), Absent))
  BY DEF Release
<1>2. PICK store, row, deltas, moves, more :
          /\ store = rows[Reservation(n)].store /\ row = [status |-> "IN_STOCK"]
          /\ deltas = [reserved |-> -1] /\ moves = Set(store, deltas)
          /\ more = Set(Reservation(n), Absent)
  OBVIOUS
<1>3. PostSerial(s, "OTHER", n, store, row, moves, more)
  BY <1>1, <1>2
<1>4. /\ n \in Pieces /\ There(n) /\ rows[n].status = "RESERVED" /\ store \in Stores
      /\ rows[n].store = store /\ ~There(TransferRow(n))
  BY <1>1, <1>2, PieceHas DEF Held
<1>5. /\ DOMAIN deltas = {"reserved"} /\ deltas.reserved = -1
      /\ DOMAIN deltas \subseteq Fields /\ \A f \in DOMAIN deltas : deltas[f] \in Int
  BY <1>2 DEF Fields
<1>6. \A x, f : Delta(moves, x, f) = IF x = store /\ f \in DOMAIN deltas THEN deltas[f] ELSE 0
  BY <1>2, DeltaSet
<1>7. DOMAIN row = {"status"} /\ row.status = "IN_STOCK"
  BY <1>2
<1>8. /\ Accompanies(n, row.status, moves, store, Nowhere, more)
      /\ \A x \in Stores : Bucket(x) \notin DOMAIN more
  BY <1>7, <1>2, <1>4, GoesOff
<1>9. Handles(n, "OTHER", store, row, moves, store)
  BY PieceColumns, <1>7, MaySet, <1>2, <1>4, <1>5 DEF SerialStatuses, Set, Handles
<1>10. Counts(n, row.status, moves, store, Nowhere, more)
  <2>1. PICK was, old, away, status :
            /\ was = "RESERVED" /\ old = store /\ away = rows[TransferRow(n)].origin
            /\ status = row.status
    OBVIOUS
  <2>2. IF There(n) THEN was = rows[n].status /\ old = rows[n].store ELSE was = "NONE"
    BY <1>4, <2>1
  <2>3. There(TransferRow(n)) => away = rows[TransferRow(n)].origin
    BY <2>1
  <2>4. \A x \in Stores : Balanced(x, moves, was, old, away, status, store, Nowhere, more)
    BY <1>5, <1>6, <1>7, <1>8, <2>1 DEF Balanced, Held
  <2>5. Counts(n, status, moves, store, Nowhere, more)
    BY <1>4, <2>2, <2>3, <2>4, CountsIf
  <2> QED BY <2>1, <2>5
<1> QED BY <1>3, <1>8, <1>9, <1>10, PostAlone

\* the receipt of a new piece,
LEMMA ReceiveAlone ==
    ASSUME NEW types, NEW sound, SerialFits(types, sound), NEW s \in Sessions, ReceiveSerial(s)
    PROVE  AloneWrites(s, types, InventoryLock, {}, sound)
<1>1. PICK n \in Table("serials"), store \in Stores :
          /\ ~There(n)
          /\ PostSerial(s, "RECEIPT", n, store, Over([there |-> TRUE], In(store, "IN_STOCK")),
                        Set(store, [onHand |-> 1]), <<>>)
  BY DEF ReceiveSerial
<1>2. PICK mark, in, row, deltas, moves, more :
          /\ mark = [there |-> TRUE] /\ in = In(store, "IN_STOCK") /\ row = Over(mark, in)
          /\ deltas = [onHand |-> 1] /\ moves = Set(store, deltas) /\ more = <<>>
  OBVIOUS
<1>3. PostSerial(s, "RECEIPT", n, store, row, moves, more)
  BY <1>1, <1>2
<1>4. n \in Pieces /\ ~There(Reservation(n)) /\ ~There(TransferRow(n))
  BY SerialHas, <1>1 DEF StockFits, Linked, There
<1>5. /\ DOMAIN deltas = {"onHand"} /\ deltas.onHand = 1
      /\ DOMAIN deltas \subseteq Fields /\ \A f \in DOMAIN deltas : deltas[f] \in Int
  BY <1>2 DEF Fields
<1>6. \A x, f : Delta(moves, x, f) = IF x = store /\ f \in DOMAIN deltas THEN deltas[f] ELSE 0
  BY <1>2, DeltaSet
<1>7. /\ DOMAIN row = {"there", "store", "status"} /\ row.there = TRUE /\ row.store = store
      /\ row.status = "IN_STOCK" /\ row = [c \in DOMAIN row |-> row[c]]
  BY <1>2 DEF In, Over
<1>8. /\ Accompanies(n, row.status, moves, store, Nowhere, more)
      /\ \A x \in Stores : Bucket(x) \notin DOMAIN more
  BY <1>7, <1>2, <1>4, GoesAlone
<1>9. Handles(n, "RECEIPT", store, row, moves, store)
  <2>1. "IN_STOCK" \in PieceTypes.status /\ store \in PieceTypes.store
    BY <1>1, PieceColumns DEF SerialStatuses
  <2>2. MayWrite(row, PieceTypes)
    BY <1>7, <2>1, PieceColumns DEF IsRow, MayWrite
  <2>3. \A to \in DOMAIN moves : /\ to \in Stores /\ DOMAIN moves[to] \subseteq Fields
                                 /\ \A f \in DOMAIN moves[to] : moves[to][f] \in Int
    BY <1>2, <1>1, <1>5 DEF Set
  <2> QED BY <1>1, <1>4, <1>7, <2>2, <2>3 DEF Handles
<1>10. Counts(n, row.status, moves, store, Nowhere, more)
  <2>1. PICK was, old, away, status :
            /\ was = "NONE" /\ old = Nowhere /\ away = rows[TransferRow(n)].origin
            /\ status = row.status
    OBVIOUS
  <2>2. IF There(n) THEN was = rows[n].status /\ old = rows[n].store ELSE was = "NONE"
    BY <1>1, <2>1
  <2>3. There(TransferRow(n)) => away = rows[TransferRow(n)].origin
    BY <2>1
  <2>4. \A x \in Stores : Balanced(x, moves, was, old, away, status, store, Nowhere, more)
    BY <1>5, <1>6, <1>7, <1>8, <2>1 DEF Balanced, Held
  <2>5. Counts(n, status, moves, store, Nowhere, more)
    BY <1>4, <2>2, <2>3, <2>4, CountsIf
  <2> QED BY <2>1, <2>5
<1> QED BY <1>3, <1>8, <1>9, <1>10, PostAlone

\* that of a transfer,
LEMMA TransferAlone ==
    ASSUME NEW types, NEW sound, SerialFits(types, sound), NEW s \in Sessions, ReceiveTransfer(s)
    PROVE  AloneWrites(s, types, InventoryLock, {}, sound)
<1>1. PICK n \in Live("serials") :
          /\ There(TransferRow(n))
          /\ PostSerial(s, "OTHER", n, rows[TransferRow(n)].to,
                        In(rows[TransferRow(n)].to, "IN_STOCK"),
                        Over(Set(rows[TransferRow(n)].origin, [transit |-> -1]),
                             Set(rows[TransferRow(n)].to, [onHand |-> 1])),
                        Set(TransferRow(n), Absent))
  BY DEF ReceiveTransfer
<1>2. PICK origin, to, row, off, on, moves, more :
          /\ origin = rows[TransferRow(n)].origin /\ to = rows[TransferRow(n)].to
          /\ row = In(to, "IN_STOCK") /\ off = [transit |-> -1] /\ on = [onHand |-> 1]
          /\ moves = Over(Set(origin, off), Set(to, on))
          /\ more = Set(TransferRow(n), Absent)
  OBVIOUS
<1>3. PostSerial(s, "OTHER", n, to, row, moves, more)
  BY <1>1, <1>2
<1>4. /\ n \in Pieces /\ There(n) /\ rows[n].status = "IN_TRANSIT"
      /\ origin \in Stores /\ to \in Stores /\ ~There(Reservation(n))
  BY <1>1, <1>2, PieceHas
<1>5. origin # to
  BY <1>4, SerialHas, <1>1, <1>2 DEF StockFits, Linked, There
<1>6. /\ DOMAIN off = {"transit"} /\ off.transit = -1
      /\ DOMAIN on = {"onHand"} /\ on.onHand = 1
  BY <1>2
<1>7. DOMAIN moves = {origin, to} /\ moves[origin] = off /\ moves[to] = on
  BY <1>2, <1>5 DEF Over, Set
<1>8. /\ \A x : Delta(moves, x, "onHand") = IF x = to THEN 1 ELSE 0
      /\ \A x : Delta(moves, x, "transit") = IF x = origin THEN -1 ELSE 0
      /\ \A x : Delta(moves, x, "reserved") = 0
  BY <1>5, <1>6, <1>7 DEF Delta
<1>9. /\ DOMAIN row = {"store", "status"} /\ row.store = to /\ row.status = "IN_STOCK"
      /\ MayWrite(row, PieceTypes)
  BY <1>2, <1>4, RowIn DEF SerialStatuses
<1>10. /\ Accompanies(n, row.status, moves, to, Nowhere, more)
       /\ \A x \in Stores : Bucket(x) \notin DOMAIN more
  BY <1>9, <1>2, <1>4, GoesOff
<1>11. Handles(n, "OTHER", to, row, moves, to)
  BY <1>6, <1>4, <1>7, <1>9 DEF Fields, Handles
<1>12. Counts(n, row.status, moves, to, Nowhere, more)
  <2>1. PICK was, old, away, status :
            /\ was = "IN_TRANSIT" /\ old = rows[n].store /\ away = origin
            /\ status = row.status
    OBVIOUS
  <2>2. IF There(n) THEN was = rows[n].status /\ old = rows[n].store ELSE was = "NONE"
    BY <1>4, <2>1
  <2>3. There(TransferRow(n)) => away = rows[TransferRow(n)].origin
    BY <1>2, <2>1
  <2>4. \A x \in Stores : Balanced(x, moves, was, old, away, status, to, Nowhere, more)
    BY <1>8, <1>9, <1>10, <2>1 DEF Balanced, Held
  <2>5. Counts(n, status, moves, to, Nowhere, more)
    BY <1>4, <2>2, <2>3, <2>4, CountsIf
  <2> QED BY <2>1, <2>5
<1> QED BY <1>3, <1>10, <1>11, <1>12, PostAlone

\* and what takes the latest movement back: the receipt or the issue it was.
LEMMA ReverseAlone ==
    ASSUME NEW types, NEW sound, SerialFits(types, sound), NEW s \in Sessions, Reverse(s)
    PROVE  AloneWrites(s, types, InventoryLock, {}, sound)
<1>1. PICK last, n, store : last = rows[LastMovement] /\ n = last.serial /\ store = last.store
  OBVIOUS
<1>2. \/ /\ last.kind = "RECEIPT"
         /\ PostSerial(s, "OTHER", n, store, Out("CANCELLED"), Set(store, [onHand |-> -1]), <<>>)
      \/ /\ last.kind = "ISSUE"
         /\ PostSerial(s, "OTHER", n, store, In(store, "IN_STOCK"), Set(store, [onHand |-> 1]), <<>>)
  BY <1>1 DEF Reverse
<1>3. /\ n \in Pieces /\ store \in Stores /\ There(n)
      /\ last.kind = "RECEIPT" => rows[n].status = "IN_STOCK" /\ rows[n].store = store
      /\ last.kind = "ISSUE" => rows[n].status = "ISSUED"
  BY SerialHas, <1>1, <1>2 DEF StockFits, Latest, There
<1>4. rows[n].status \in {"IN_STOCK", "ISSUED"}
  BY <1>2, <1>3
<1>5. ~There(Reservation(n)) /\ ~There(TransferRow(n))
  BY <1>3, SerialHas, <1>4 DEF StockFits, Linked, There
<1>6. PICK by, status, at : /\ by = IF last.kind = "RECEIPT" THEN -1 ELSE 1
                            /\ status = IF last.kind = "RECEIPT" THEN "CANCELLED" ELSE "IN_STOCK"
                            /\ at = IF last.kind = "RECEIPT" THEN Nowhere ELSE store
  OBVIOUS
<1>7. PICK deltas, moves, more :
          deltas = [onHand |-> by] /\ moves = Set(store, deltas) /\ more = <<>>
  OBVIOUS
<1>8. PostSerial(s, "OTHER", n, store, In(at, status), Set(store, deltas), more)
  BY <1>2, <1>6, <1>7 DEF Out
<1>9. /\ DOMAIN deltas = {"onHand"} /\ deltas.onHand = by /\ by \in Int
      /\ DOMAIN deltas \subseteq Fields /\ \A f \in DOMAIN deltas : deltas[f] \in Int
  BY <1>6, <1>7 DEF Fields
<1>10. \A x, f : Delta(moves, x, f) = IF x = store /\ f \in DOMAIN deltas THEN deltas[f] ELSE 0
  BY <1>7, DeltaSet
<1>11. \/ /\ rows[n].status = "IN_STOCK" /\ rows[n].store = store
          /\ by = -1 /\ status = "CANCELLED" /\ at = Nowhere
       \/ /\ rows[n].status = "ISSUED"
          /\ by = 1 /\ status = "IN_STOCK" /\ at = store
  BY <1>2, <1>3, <1>6
<1>12. /\ Accompanies(n, status, moves, at, Nowhere, more)
       /\ \A x \in Stores : Bucket(x) \notin DOMAIN more
  BY <1>11, <1>3, <1>5, <1>7, GoesAlone
<1>13. ASSUME NEW x \in Stores
       PROVE  Balanced(x, moves, rows[n].status, rows[n].store,
                       rows[TransferRow(n)].origin, status, at, Nowhere, more)
  BY <1>9, <1>10, <1>12, <1>11 DEF Balanced, Held
<1>14. status \in SerialStatuses /\ at \in Stores \cup {Nowhere} /\ (status \in Held => at \in Stores)
  BY <1>3, <1>11 DEF SerialStatuses, Held
<1>15. Movement(s, "OTHER", n, store, at, status, deltas, more, Nowhere)
  BY <1>3, <1>7, <1>8, <1>9, <1>12, <1>13, <1>14 DEF Movement
<1> QED BY <1>15, MovesOne

\* Whatever is moved, the stock fits.
SerialInv == SerialFits(SerialTypes, StockSound)

LEMMA SerialGoesOn == SerialInv /\ [SerialNext]_storeVars => SerialInv'
<1> SUFFICES ASSUME SerialInv, [SerialNext]_storeVars PROVE SerialInv'
  OBVIOUS
<1>1. PICK types, sound : types = SerialTypes /\ sound = StockSound
  OBVIOUS
<1>2. SerialFits(types, sound)
  BY <1>1 DEF SerialInv
<1>3. /\ Shape /\ Typed(types) /\ desk = "serials" /\ DOMAIN rows = SerialIds
      /\ StayAlone(InventoryLock, {}, sound)
  BY <1>2 DEF SerialFits
<1>4. ASSUME NEW s \in Sessions, SerialStep(s)
      PROVE  AloneWrites(s, types, InventoryLock, {}, sound)
  BY <1>2, <1>4, ReceiveAlone, IssueAlone, IssueReservedAlone, ReturnAlone, DispatchAlone,
     TransferAlone, ScrapAlone, QuarantineAlone, CountAlone, ReserveAlone, ReleaseAlone,
     ReverseAlone DEF SerialStep
<1>5. AloneMove(types, InventoryLock, {}, sound)
  BY <1>4 DEF SerialNext, AloneMove
<1>6. InventoryLock # {}
  BY LockIsOne, RowStoreAssumption DEF RowStoreAssumption
<1>7. Insensitive(types, sound, {})
  <2> SUFFICES ASSUME NEW a, NEW b, IsTable(a, types), IsTable(b, types), Same(a, b, {}), a \in sound
               PROVE  b \in sound
    BY DEF Insensitive
  <2>1. a = [r \in DOMAIN rows |-> a[r]] /\ b = [r \in DOMAIN rows |-> b[r]]
    BY DEF IsTable
  <2>2. ASSUME NEW r \in DOMAIN rows PROVE a[r] = b[r]
    BY <2>2 DEF IsTable, Same, SameRow, IsRow
  <2>3. a = b
    BY <2>1, <2>2
  <2> QED BY <2>3
<1>8. Shape' /\ Typed(types)' /\ StayAlone(InventoryLock, {}, sound)' /\ Alike
  BY <1>3, <1>5, <1>6, <1>7, AloneMoves
<1>9. desk' = desk /\ DOMAIN rows' = DOMAIN rows
  BY <1>8 DEF Alike
<1>10. sound = StockSound'
  BY <1>9, TablesStay, <1>1 DEF StockSound
<1>11. InventoryLock' = InventoryLock
  BY DEF InventoryLock
<1>12. SerialFits(SerialTypes, StockSound)'
  BY <1>1, <1>3, <1>8, <1>9, <1>10, <1>11 DEF SerialFits
<1> QED BY <1>12 DEF SerialInv

LEMMA SerialBegins == SerialInit => SerialInv
<1> SUFFICES ASSUME SerialInit PROVE SerialInv
  OBVIOUS
<1>1. PICK types, sound : types = SerialTypes /\ sound = StockSound
  OBVIOUS
<1>2. /\ desk = "serials" /\ StoreInit
      /\ DOMAIN rows = SerialIds /\ rows = [r \in DOMAIN rows |-> rows[r]]
      /\ \A r \in SerialIds : rows[r] = SerialFirst(r)
  BY DEF SerialInit
<1>3. ASSUME NEW at \in Stores
      PROVE  /\ IsRow(rows[Bucket(at)], BucketTypes) /\ rows[Bucket(at)].there
             /\ ~rows[Bucket(at)].counted /\ \A f \in Fields : rows[Bucket(at)][f] = 0
  <2>1. PICK zeros, mark, row : /\ zeros = [f \in Fields |-> 0]
                                /\ mark = [there |-> TRUE, counted |-> FALSE]
                                /\ row = Over(zeros, mark)
    OBVIOUS
  <2>2. rows[Bucket(at)] = row
    BY <1>3, PieceIds, <1>2, OwnIds, <2>1 DEF Bucket, SerialFirst
  <2>3. DOMAIN mark = {"there", "counted"} /\ mark.there = TRUE /\ mark.counted = FALSE
    BY <2>1
  <2>4. DOMAIN zeros = Fields /\ \A f \in Fields : zeros[f] = 0
    BY <2>1
  <2>5. /\ row = [c \in DOMAIN row |-> row[c]] /\ DOMAIN row = {"there", "counted"} \cup Fields
        /\ row.there = TRUE /\ row.counted = FALSE /\ \A f \in Fields : row[f] = 0
    BY <2>1, <2>3, <2>4 DEF Fields, Over
  <2>6. \A c \in DOMAIN BucketTypes : row[c] \in BucketTypes[c]
    <3>1. row.there \in BucketTypes.there /\ row.counted \in BucketTypes.counted
      BY <2>5, BucketColumns
    <3>2. \A f \in Fields : row[f] \in BucketTypes[f]
      BY <2>5, BucketColumns
    <3> QED BY <3>1, <3>2, BucketColumns
  <2>7. IsRow(row, BucketTypes)
    BY <2>5, <2>6, BucketColumns DEF IsRow
  <2> QED BY <2>2, <2>5, <2>7
<1>4. /\ IsRow(rows[LastMovement], MovementTypes)
      /\ rows[LastMovement].there /\ rows[LastMovement].kind = "OTHER"
  <2>1. PICK row : row = [there |-> TRUE, kind |-> "OTHER", serial |-> NoRef, store |-> Nowhere]
    OBVIOUS
  <2>2. rows[LastMovement] = row
    BY PieceIds, <1>2, <2>1 DEF LastMovement, SerialFirst
  <2>3. /\ row = [c \in DOMAIN row |-> row[c]] /\ DOMAIN row = {"there", "kind", "serial", "store"}
        /\ row.there = TRUE /\ row.kind = "OTHER" /\ row.serial = NoRef /\ row.store = Nowhere
    BY <2>1
  <2>4. \A c \in {"there", "kind", "serial", "store"} : row[c] \in MovementTypes[c]
    BY <2>3, MovementColumns
  <2>5. IsRow(row, MovementTypes)
    BY <2>3, <2>4, MovementColumns DEF IsRow
  <2> QED BY <2>2, <2>3, <2>5
<1>5. \A r \in SerialIds : \/ rows[r] = Absent
                           \/ r = LastMovement
                           \/ \E at \in Stores : r = Bucket(at)
  BY <1>2 DEF SerialIds, Bucket, LastMovement, SerialFirst
<1>6. \A n \in Pieces : /\ rows[n] = Absent /\ rows[Reservation(n)] = Absent
                        /\ rows[TransferRow(n)] = Absent
  BY <1>5, PieceIds, OwnIds
<1>7. \A r \in DOMAIN rows : rows[r] = Absent \/ IsRow(rows[r], types[r])
  BY <1>1, PieceIds, <1>2, <1>3, <1>4, <1>5
<1>8. \A r \in DOMAIN rows : "there" \in DOMAIN types[r] /\ types[r].there = {TRUE}
  BY PieceColumns, BucketColumns, HoldColumns, WayColumns, MovementColumns, <1>1, <1>2 DEF
     SerialTypes
<1>9. Typed(types)
  BY <1>2, <1>7, <1>8, TypedStarts
<1>10. Shape
  BY <1>2, <1>3, <1>4, <1>5, InitShape DEF There
<1>11. StockFits(rows)
  <2>1. ~Absent.there
    BY DEF Absent
  <2>2. \A n \in Pieces : Linked(rows, n)
    BY <1>6, <2>1 DEF Linked
  <2>3. Latest(rows)
    BY <1>4 DEF Latest
  <2>4. ASSUME NEW store \in Stores PROVE BucketFits(rows, store)
    <3>1. PiecesIn(rows, store, Held) = {}
      BY <1>6, <2>1 DEF PiecesIn
    <3>2. PiecesIn(rows, store, {"RESERVED"}) = {}
      BY <1>6, <2>1 DEF PiecesIn
    <3>3. OnTheWay(rows, store) = {}
      BY <1>6, <2>1 DEF OnTheWay
    <3>4. Fields = {"onHand", "reserved", "quarantined", "transit"}
      BY DEF Fields
    <3>5. Cardinality({}) = 0
      BY FS_EmptySet
    <3> QED BY <1>3, <2>4, <3>1, <3>2, <3>3, <3>4, <3>5 DEF BucketFits
  <2> QED BY <2>2, <2>3, <2>4 DEF StockFits
<1>12. rows \in sound
  BY <1>9, <1>10, TypedTables, TablesAre, <1>1, <1>11 DEF StockSound
<1>13. StayAlone(InventoryLock, {}, sound)
  BY <1>2, <1>10, <1>12, AloneStarts
<1> QED BY <1>1, <1>2, <1>9, <1>10, <1>13 DEF SerialInv, SerialFits

\* Rows are those their tables can hold, and the stock of a store is the serials that are
\* there.
LEMMA SerialRowsAre ==
    ASSUME NEW row
    PROVE  /\ IsRow(row, PieceTypes) => row \in SerialRows
           /\ IsRow(row, HoldTypes) => row \in ReservationRows
           /\ IsRow(row, WayTypes) => row \in TransferRows
           /\ IsRow(row, BucketTypes) /\ (\A f \in Fields : row[f] \in 0..3) => row \in BucketRows
           /\ DOMAIN rows = SerialIds /\ IsRow(row, MovementTypes) => row \in MovementRows
<1>1. IsRow(row, PieceTypes) => row \in SerialRows
  BY PieceColumns DEF IsRow, SerialRows
<1>2. IsRow(row, HoldTypes) => row \in ReservationRows
  BY HoldColumns DEF IsRow, ReservationRows
<1>3. IsRow(row, WayTypes) => row \in TransferRows
  BY WayColumns DEF IsRow, TransferRows
<1>4. ASSUME IsRow(row, BucketTypes), \A f \in Fields : row[f] \in 0..3 PROVE row \in BucketRows
  <2>1. /\ DOMAIN row = {"there", "counted", "onHand", "reserved", "quarantined", "transit"}
        /\ row = [c \in DOMAIN row |-> row[c]] /\ row.there = TRUE /\ row.counted \in BOOLEAN
    BY <1>4, BucketColumns DEF IsRow, Fields
  <2>2. /\ row.onHand \in 0..3 /\ row.reserved \in 0..3
        /\ row.quarantined \in 0..3 /\ row.transit \in 0..3
    BY <1>4 DEF Fields
  <2>3. 0..3 \subseteq SerialNumbers \cup {0}
    BY DEF SerialNumbers
  <2> QED BY <2>1, <2>2, <2>3 DEF BucketRows
<1>5. ASSUME DOMAIN rows = SerialIds, IsRow(row, MovementTypes) PROVE row \in MovementRows
  <2>1. {"serials"} \X SerialNumbers \subseteq Table("serials")
    BY <1>5 DEF Table, SerialIds
  <2>2. MovementTypes.serial \subseteq {NoRef} \cup Table("serials")
    BY <2>1, MovementColumns
  <2>3. /\ DOMAIN row = {"there", "kind", "serial", "store"}
        /\ row = [c \in DOMAIN row |-> row[c]] /\ row.there = TRUE
        /\ row.kind \in {"ISSUE", "RECEIPT", "OTHER"} /\ row.serial \in MovementTypes.serial
        /\ row.store \in Stores \cup {Nowhere}
    BY <1>5, MovementColumns DEF IsRow
  <2>4. row.serial \in {NoRef} \cup Table("serials")
    BY <2>2, <2>3
  <2> QED BY <2>3, <2>4 DEF MovementRows
<1> QED BY <1>1, <1>2, <1>3, <1>4, <1>5

LEMMA SerialTyping == SerialInv => SerialTypeOK
<1> SUFFICES ASSUME SerialInv, NEW r \in DOMAIN rows, There(r)
             PROVE  rows[r] \in (CASE r[1] = "serials" -> SerialRows
                                   [] r[1] = "buckets" -> BucketRows
                                   [] r[1] = "reservations" -> ReservationRows
                                   [] r[1] = "transfers" -> TransferRows
                                   [] r = LastMovement -> MovementRows)
  BY DEF SerialTypeOK
<1>1. PICK types, sound : types = SerialTypes /\ sound = StockSound /\ SerialFits(types, sound)
  BY DEF SerialInv
<1>2. DOMAIN rows = SerialIds /\ Typed(types) /\ StockFits(rows)
  BY <1>1, SerialHas DEF SerialFits
<1>3. PICK row, name : row = rows[r] /\ name = r[1]
  OBVIOUS
<1>4. IsRow(row, SerialTypes[r])
  <2>1. ~Absent.there
    BY DEF Absent
  <2> QED BY <1>1, <1>2, <1>3, <2>1 DEF Typed, There
<1>5. /\ name \in {"serials", "buckets", "reservations", "transfers"} \/ r = LastMovement
      /\ name = "buckets" => \E at \in Stores : r = Bucket(at)
  BY <1>2, <1>3 DEF SerialIds, Bucket, LastMovement
<1>6. LastMovement[1] = "movements"
  BY DEF LastMovement
<1>7. /\ name = "serials" => IsRow(row, PieceTypes)
      /\ name = "buckets" => IsRow(row, BucketTypes)
      /\ name = "reservations" => IsRow(row, HoldTypes)
      /\ name = "transfers" => IsRow(row, WayTypes)
      /\ r = LastMovement => IsRow(row, MovementTypes)
  BY <1>2, <1>3, <1>4, <1>6 DEF SerialTypes
<1>8. ASSUME name = "buckets" PROVE \A f \in Fields : row[f] \in 0..3
  <2>1. PICK at \in Stores : r = Bucket(at)
    BY <1>5, <1>8
  <2>2. \A f \in Fields : row[f] \in Nat
    BY <1>1, <1>3, <2>1, StockHas
  <2>3. PICK held, way : held = Cardinality(PiecesIn(rows, at, Held)) /\ way = Cardinality(OnTheWay(rows, at))
    OBVIOUS
  <2>4. held \in 0..3 /\ way \in 0..3
    BY <2>3, ThreePieces DEF PiecesIn, OnTheWay
  <2>5. row.onHand >= row.reserved + row.quarantined /\ row.onHand <= held /\ row.transit = way
    BY <1>2, <1>3, <2>1, <2>3 DEF StockFits, BucketFits
  <2>6. Fields = {"onHand", "reserved", "quarantined", "transit"}
    BY DEF Fields
  <2>7. {row.onHand, row.reserved, row.quarantined, row.transit} \subseteq Nat
    BY <2>2, <2>6
  <2>8. row.onHand \in 0..3 /\ row.reserved \in 0..3 /\ row.quarantined \in 0..3 /\ row.transit \in 0..3
    BY <2>4, <2>5, <2>7
  <2> QED BY <2>6, <2>8
<1>9. /\ name = "serials" => row \in SerialRows
      /\ name = "buckets" => row \in BucketRows
      /\ name = "reservations" => row \in ReservationRows
      /\ name = "transfers" => row \in TransferRows
      /\ r = LastMovement => row \in MovementRows
  BY <1>2, <1>7, <1>8, SerialRowsAre
<1> QED BY <1>3, <1>5, <1>6, <1>9

LEMMA SerialFitting == SerialInv => SerialsFit
<1> SUFFICES ASSUME SerialInv, NEW store \in Stores
             PROVE  LET at(statuses) == {n \in Live("serials") : rows[n].store = store
                                                                /\ rows[n].status \in statuses}
                        b == rows[Bucket(store)]
                    IN /\ b.counted \/ b.onHand = Cardinality(at(Held))
                       /\ b.reserved = Cardinality(at({"RESERVED"}))
                       /\ b.transit = Cardinality({t \in Live("transfers") :
                                                       rows[t].origin = store})
  BY DEF SerialsFit
<1>1. PICK types, sound : types = SerialTypes /\ sound = StockSound /\ SerialFits(types, sound)
  BY DEF SerialInv
<1>2. /\ BucketFits(rows, store) /\ Table("serials") = Pieces /\ DOMAIN rows = SerialIds
  BY <1>1, SerialHas DEF StockFits, SerialFits
<1>3. \A statuses : {n \in Live("serials") : rows[n].store = store /\ rows[n].status \in statuses}
                        = PiecesIn(rows, store, statuses)
  BY <1>2 DEF Live, There, PiecesIn
<1>4. PICK S, T : /\ S = OnTheWay(rows, store)
                  /\ T = {t \in Live("transfers") : rows[t].origin = store}
  OBVIOUS
<1>5. Cardinality(S) = Cardinality(T)
  <2>1. PICK F : F = [n \in S |-> TransferRow(n)]
    OBVIOUS
  <2>2. \A t \in Table("transfers") : \E n \in Pieces : t = TransferRow(n)
    <3>1. ASSUME NEW t \in Table("transfers")
          PROVE  \E i \in SerialNumbers : t = <<"transfers", i>>
      BY <1>2 DEF Table, SerialIds, LastMovement
    <3>2. \A i \in SerialNumbers : /\ <<"serials", i>> \in Pieces
                                   /\ TransferRow(<<"serials", i>>) = <<"transfers", i>>
      BY DEF Pieces, TransferRow
    <3> QED BY <3>1, <3>2
  <2>3. \A n \in Pieces : TransferRow(n) \in Table("transfers")
    BY <1>2, PieceIds DEF Table, TransferRow
  <2>4. \A n \in S : F[n] \in T
    BY <1>4, <2>1, <2>3 DEF OnTheWay, Live, There
  <2>5. \A t \in T : \E n \in S : F[n] = t
    BY <1>4, <2>1, <2>2 DEF OnTheWay, Live, There
  <2>6. \A a, b \in S : F[a] = F[b] => a = b
    BY <1>4, <2>1, OwnIds DEF OnTheWay
  <2>7. F \in [S -> T]
    BY <2>1, <2>4
  <2>8. F \in Bijection(S, T)
    BY <2>5, <2>6, <2>7 DEF Bijection, Injection, Surjection, IsInjective
  <2>9. IsFiniteSet(S)
    BY <1>4, ThreePieces DEF OnTheWay
  <2>10. ExistsBijection(S, T)
    BY <2>8 DEF ExistsBijection
  <2> QED BY <2>9, <2>10, FS_Bijection
<1> QED BY <1>2, <1>3, <1>4, <1>5 DEF BucketFits

-----------------------------------------------------------------------------
(* Every desk of the business. *)

\* Where each of the desks is, no desk twice.
LEMMA BusinessDesks ==
    /\ DOMAIN RegisterTables =
           {"photos", "ownership", "categories", "components", "defects", "policies", "papers"}
    /\ DOMAIN DrillingTables = {"shifts", "billing", "programs"}
    /\ DOMAIN PurchaseTables = {"orders", "payments", "numbers"}
    /\ DOMAIN SiteTables = {"projects", "grounds", "safety", "logs", "consumables", "imports"}
    /\ DOMAIN WorkshopTables =
           {"breakdowns", "cards", "assessments", "tracked", "plans", "register"}
    /\ FieldDesks =
           {"projects", "grounds", "safety", "logs", "consumables", "imports", "breakdowns",
            "cards", "assessments", "tracked", "plans", "register", "vendors"}
  BY DEF RegisterTables, DrillingTables, PurchaseTables, SiteTables, WorkshopTables,
     FieldDesks

\* At each of the desks, too, only its own requests are made.
LEMMA OwnDesk ==
    ASSUME [BusinessNext]_storeVars
    PROVE  /\ desk \in DOMAIN RegisterTables => [RegisterNext]_storeVars
           /\ desk \in DOMAIN DrillingTables => [DrillingNext]_storeVars
           /\ desk \in DOMAIN PurchaseTables => [PurchaseNext]_storeVars
           /\ desk \in FieldDesks => [SiteNext \/ WorkshopNext \/ VendorNext]_storeVars
           /\ desk = "serials" => [SerialNext]_storeVars
  BY BusinessDesks DEF RegisterNext, DrillingNext, PurchaseNext, SiteNext, WorkshopNext,
     VendorNext, SerialNext, BusinessNext

\* What is open is one of the desks, as its invariant says.
OpenDesk ==
    \/ RegisterInv \/ DrillingSoundInv \/ FieldSoundInv
    \/ PurchaseTypedInv \/ SerialInv

\* Which desk each of the invariants is about.
LEMMA WhereOpen ==
    /\ RegisterInv => desk \in DOMAIN RegisterTables
    /\ DrillingSoundInv => desk \in DOMAIN DrillingTables
    /\ FieldSoundInv => desk \in FieldDesks
    /\ PurchaseTypedInv => desk \in DOMAIN PurchaseTables
    /\ SerialInv => desk = "serials"
  BY DEF RegisterInv, RegisterFits, DrillingSoundInv, DrillingFits, FieldSoundInv, FieldFits,
     PurchaseTypedInv, PurchaseFits, SerialInv, SerialFits

LEMMA OpenDeskBegins == BusinessInit => OpenDesk
  BY RegisterBegins, DrillingBegins, FieldBegins, PurchaseBegins, SerialBegins
     DEF BusinessInit, OpenDesk

LEMMA OpenDeskGoesOn ==
    BusinessInv /\ OpenDesk /\ [BusinessNext]_storeVars => OpenDesk'
<1> SUFFICES ASSUME BusinessInv, OpenDesk, [BusinessNext]_storeVars PROVE OpenDesk'
  OBVIOUS
<1>1. CASE RegisterInv
  BY <1>1, WhereOpen, OwnDesk, RegisterGoesOn DEF OpenDesk
<1>2. CASE DrillingSoundInv
  BY <1>2, WhereOpen, BusinessDesks, OwnDesk, DrillingGoesOn DEF BusinessInv, DrillingInv,
     OpenDesk
<1>3. CASE FieldSoundInv
  BY <1>3, WhereOpen, OwnDesk, FieldGoesOn DEF OpenDesk
<1>4. CASE PurchaseTypedInv
  BY <1>4, WhereOpen, OwnDesk, PurchaseGoesOn DEF OpenDesk
<1>5. CASE SerialInv
  <2>1. SerialInv'
    BY <1>5, WhereOpen, OwnDesk, SerialGoesOn
  <2> QED BY <2>1 DEF OpenDesk
<1> QED BY <1>1, <1>2, <1>3, <1>4, <1>5 DEF OpenDesk

\* What a desk has staged or locked is in its tables.
LEMMA OpenDeskStores == OpenDesk => StoreTypeOK
  BY TypedStore DEF RegisterInv, RegisterFits, DrillingSoundInv, DrillingFits,
     FieldSoundInv, FieldFits, PurchaseTypedInv, PurchaseFits, SerialInv, SerialFits, OpenDesk

\* What a desk keeps is typed and sound; of the others nothing is said.
LEMMA OpenDeskSays ==
    OpenDesk
        => /\ RegisterTypeOK /\ DrillingTypeOK /\ PurchaseTypeOK
           /\ VendorTypeOK /\ SiteTypeOK /\ WorkshopTypeOK /\ SerialTypeOK
           /\ BusinessIsSound
<1>1. desk \notin DOMAIN RegisterTables
          => RegisterTypeOK /\ CategoriesAreTrees /\ OneOwnerOnePhoto
  BY BusinessDesks DEF RegisterTypeOK, CategoriesAreTrees, OneOwnerOnePhoto
<1>2. desk \notin DOMAIN DrillingTables => DrillingTypeOK /\ DrillingIsSound
  BY DEF DrillingTypeOK, DrillingIsSound
<1>3. desk \notin DOMAIN PurchaseTables => PurchaseTypeOK
  BY DEF PurchaseTypeOK
<1>4. desk \notin FieldDesks
          => SiteTypeOK /\ WorkshopTypeOK /\ VendorTypeOK /\ SitesAreSound /\ WorkshopIsSound
  BY DEF FieldDesks, SiteTypeOK, WorkshopTypeOK, VendorTypeOK, SitesAreSound, WorkshopIsSound
<1>5. desk # "serials" => SerialTypeOK /\ SerialsFit
  BY DEF SerialTypeOK, SerialsFit
<1>6. CASE RegisterInv
  BY <1>6, WhereOpen, BusinessDesks, RegisterSays, <1>2, <1>3, <1>4, <1>5 DEF
     BusinessIsSound
<1>7. CASE DrillingSoundInv
  BY <1>7, WhereOpen, BusinessDesks, DrillingSays, <1>1, <1>3, <1>4, <1>5 DEF
     BusinessIsSound
<1>8. CASE FieldSoundInv
  BY <1>8, WhereOpen, BusinessDesks, FieldSays, <1>1, <1>2, <1>3, <1>5 DEF BusinessIsSound
<1>9. CASE PurchaseTypedInv
  BY <1>9, WhereOpen, BusinessDesks, PurchaseSays, <1>1, <1>2, <1>4, <1>5 DEF
     BusinessIsSound
<1>10. CASE SerialInv
  <2>1. /\ desk \notin DOMAIN RegisterTables /\ desk \notin DOMAIN DrillingTables
        /\ desk \notin DOMAIN PurchaseTables /\ desk \notin FieldDesks
    BY <1>10, WhereOpen, BusinessDesks
  <2>2. SerialTypeOK /\ SerialsFit
    BY <1>10, SerialTyping, SerialFitting
  <2> QED BY <1>1, <1>2, <1>3, <1>4, <2>1, <2>2 DEF BusinessIsSound
<1> QED BY <1>6, <1>7, <1>8, <1>9, <1>10 DEF OpenDesk

LEMMA OpenDesksGoOn == BusinessSpec => []OpenDesk
<1>1. BusinessInit => BusinessInv /\ OpenDesk
  BY BusinessStarts, OpenDeskBegins
<1>2. BusinessInv /\ OpenDesk /\ [BusinessNext]_storeVars => (BusinessInv /\ OpenDesk)'
  BY BusinessSteps, OpenDeskGoesOn
<1> QED BY <1>1, <1>2, PTL DEF BusinessSpec

\* Every row of every desk has the columns of its table, a reference in it leads into
\* the table it refers to, and what requests have staged and locked is in the tables,
\* whatever is asked of the desk and in whatever order (the models' columns).
THEOREM BusinessIsTyped == BusinessSpec => []BusinessTypeOK
<1>1. OpenDesk => BusinessTypeOK
  BY OpenDeskStores, OpenDeskSays DEF BusinessTypeOK
<1> QED BY <1>1, OpenDesksGoOn, PTL

\* However requests overlap, a machine has one current owner at most and one main photo,
\* which is not archived: adding, choosing and archiving wait for the machine (add_record,
\* update_record); what a store has on hand, reserved and in quarantine is the serials it
\* has, unless a count wrote them off, because serials move under the lock on the inventory
\* (tracked, post_line); what is closed or completed says when (update_report,
\* update_action, update_card).  As long as no request commits on rows that had changed
\* since it read them: no category is above itself (update_category), an interval is at the
\* site of its hole, the mobilization of a contract is charged once
\* (update_drill_hole, calculate_and_post_shift_revenue), and projects, assessments and
\* reports end after they start (validate_timeline).
THEOREM BusinessStaysSound == BusinessSpec => []BusinessIsSound
<1>1. OpenDesk => BusinessIsSound
  BY OpenDeskSays
<1> QED BY <1>1, OpenDesksGoOn, PTL
=============================================================================
