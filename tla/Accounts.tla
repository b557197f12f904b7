------------------------------ MODULE Accounts ------------------------------
(***************************************************************************)
(* Employees and the user accounts they sign in with: matching by e-mail   *)
(* (services/hr.py, services/employees.py, services/user.py), the portal a *)
(* user is sent to, and the refresh tokens of a login (services/auth.py).  *)
(* Permissions, passwords and audit entries are left out.                  *)
(***************************************************************************)
EXTENDS RowStore

NoMail == "none"
Mails == Names

\* A bound: who reports to whom is tried at a desk of its own, without e-mails.
MaybeMail == IF desk = "reporting" THEN {NoMail} ELSE Mails \cup {NoMail}
\* A bound: the first employee may have a personal e-mail, or nobody.
MaybePersonal(p) == IF \A q \in Table("people") : p[2] <= q[2] THEN MaybeMail ELSE {NoMail}
Bosses == IF desk = "reporting" THEN {NoRef} \cup Table("people") ELSE {NoRef}

(***************************************************************************)
(* Accounts.  The advisory lock on an e-mail is a token of the lock table, *)
(* beside the rows.                                                        *)
(***************************************************************************)
PersonRows ==
    [there : {TRUE}, work : MaybeMail, personal : MaybeMail,
     user : {NoRef} \cup Table("users"), boss : Bosses]

UserRows == [there : {TRUE}, mail : Mails, active : BOOLEAN]

PersonChanges(p) ==
    [work : MaybeMail] \cup [personal : MaybePersonal(p)] \cup [boss : Bosses]

WorkEmailUnique(mail, self) ==
    mail # NoMail => \A p \in Live("people") \ self : rows[p].work # mail

CheckMasterRefs(boss, self) == boss \notin self /\ Known(boss)

UserWith(mail) == {u \in Live("users") : rows[u].mail = mail}

Account(mail) == <<"account", mail>>

\* link_account for employee p, whose columns will be row: the account with its
\* e-mail is linked, made active if it is not, or made.
LinkLocks(row) ==
    LET mail == IF row.work # NoMail THEN row.work ELSE row.personal
    IN IF mail = NoMail THEN {} ELSE {Account(mail)} \cup UserWith(mail)

Linkable(row, p) ==
    LET mail == IF row.work # NoMail THEN row.work ELSE row.personal
    IN mail # NoMail =>
          /\ UserWith(mail) = {} => Spare("users") # {}
          /\ \A u \in UserWith(mail), q \in Live("people") \ {p} : rows[q].user # u

LinkAccount(row, p) ==
    LET mail == IF row.work # NoMail THEN row.work ELSE row.personal
        known == UserWith(mail)
        user == IF known = {} THEN NewRow("users") ELSE CHOOSE u \in known : TRUE
    IN IF mail = NoMail THEN Set(p, row)
       ELSE Over(Set(p, Over([work |-> mail, user |-> user], row)),
                 IF known = {} THEN Insert("users", [mail |-> mail, active |-> TRUE])
                               ELSE Set(user, [active |-> TRUE]))

EmployeeCreate(s) ==
    /\ Spare("people") # {}
    /\ \E body \in [work : MaybeMail, personal : MaybePersonal(NewRow("people")), boss : Bosses] :
        LET p == NewRow("people")
            row == Over([there |-> TRUE, user |-> NoRef], body)
        IN /\ CheckMasterRefs(body.boss, {})
           /\ WorkEmailUnique(body.work, {})
           /\ Linkable(row, p)
           /\ StageLocked(s, LinkLocks(row), LinkAccount(row, p))

\* The linked account follows a new work e-mail; an employee without an account
\* is matched to one.
EmployeeUpdate(s) ==
    \E p \in Live("people") : \E body \in PersonChanges(p) :
        LET row == Over(body, rows[p])
            moved == "work" \in DOMAIN body /\ body.work \notin {NoMail, rows[p].work}
        IN /\ CheckMasterRefs(row.boss, {p})
           /\ "work" \in DOMAIN body => WorkEmailUnique(body.work, {p})
           /\ IF row.user # NoRef
              THEN Stage(s, Over(Set(p, body),
                                 SetAll(IF moved THEN {row.user} ELSE {}, [mail |-> row.work])))
              ELSE /\ Linkable(row, p)
                   /\ StageLocked(s, LinkLocks(row),
                                  Over(LinkAccount(row, p), Set(p, body)))

LinkExisting(s) ==
    \E p \in Live("people") :
        /\ rows[p].user = NoRef
        /\ {rows[p].work, rows[p].personal} # {NoMail}
        /\ Linkable(rows[p], p)
        /\ StageLocked(s, {p} \cup LinkLocks(rows[p]), LinkAccount(rows[p], p))

ChangeEmail(s) ==
    \E p \in Live("people"), mail \in Mails :
        LET user == rows[p].user
            old == rows[user].mail
            follows == IF rows[p].work = old THEN [work |-> mail]
                       ELSE IF rows[p].personal = old THEN [personal |-> mail] ELSE <<>>
        IN /\ user # NoRef
           /\ UserWith(mail) \subseteq {user}
           /\ \A q \in Live("people") \ {p} : mail \notin {rows[q].work, rows[q].personal}
           /\ StageLocked(s, {p, user}, Over(Set(user, [mail |-> mail]), Set(p, follows)))

\* A user made by hand takes over an employee with its e-mail, linked or not.
UserCreate(s) ==
    \E mail \in Mails :
        LET matches == {p \in Live("people") : mail \in {rows[p].work, rows[p].personal}}
            user == Insert("users", [mail |-> mail, active |-> TRUE])
        IN /\ Spare("users") # {}
           /\ UserWith(mail) = {}
           /\ \/ matches = {} /\ Stage(s, user)
              \/ \E p \in matches :
                    StageLocked(s, {p}, Over(user, Set(p, [user |-> NewRow("users"),
                                                           work |-> mail])))

UserActivate(s) ==
    \E u \in Live("users"), active \in BOOLEAN : Stage(s, Set(u, [active |-> active]))

AccountStep(s) ==
    \/ EmployeeCreate(s) \/ EmployeeUpdate(s) \/ LinkExisting(s)
    \/ ChangeEmail(s) \/ UserCreate(s) \/ UserActivate(s)

(***************************************************************************)
(* The portal of a user, and the flag that older code reads.               *)
(***************************************************************************)
Portals == {"FULL", "FIELD", "HR"}

PortalRows == [there : {TRUE}, portal : Portals, fieldonly : BOOLEAN]

PortalCreate(s) ==
    \E portal \in Portals :
        /\ Spare("portals") # {}
        /\ Stage(s, Insert("portals", [portal |-> portal, fieldonly |-> portal = "FIELD"]))

PortalUpdate(s) ==
    \E u \in Live("portals") :
        \/ \E flag \in BOOLEAN :
              Stage(s, Set(u, [fieldonly |-> flag,
                               portal |-> IF flag /\ rows[u].portal = "FULL" THEN "FIELD"
                                          ELSE rows[u].portal]))
        \/ \E portal \in Portals :
              Stage(s, Set(u, [portal |-> portal, fieldonly |-> portal = "FIELD"]))

PortalStep(s) == PortalCreate(s) \/ PortalUpdate(s)

(***************************************************************************)
(* Logins.  A refresh trades a token for the next one of the same login.   *)
(* A reset revokes the tokens it sees; the user signs in again when a      *)
(* password is set.  A token that is past its deadline is like a revoked   *)
(* one, and is left out.                                                   *)
(***************************************************************************)
LoginRows == [there : {TRUE}, active : BOOLEAN, setup : BOOLEAN]
TokenRows ==
    [there : {TRUE}, user : Table("logins"), chain : Nat, live : BOOLEAN]

MaySignIn(u) == There(u) /\ rows[u].active /\ ~rows[u].setup

Login(s) ==
    \E u \in Live("logins") :
        /\ MaySignIn(u)
        /\ Spare("tokens") # {}
        /\ Stage(s, Insert("tokens", [user |-> u, chain |-> NewRow("tokens")[2],
                                      live |-> TRUE]))

\* Mutants of Refresh: the token is not locked; the new token does not say
\* which login it continues.
RefreshUnlocked(s) ==
    \E t \in Live("tokens") :
        /\ rows[t].live /\ MaySignIn(rows[t].user) /\ Spare("tokens") # {}
        /\ Stage(s, Over(Set(t, [live |-> FALSE]),
                         Insert("tokens", [user |-> rows[t].user, chain |-> rows[t].chain,
                                           live |-> TRUE])))

RefreshUnchained(s) ==
    \E t \in Live("tokens") :
        /\ rows[t].live /\ MaySignIn(rows[t].user) /\ Spare("tokens") # {}
        /\ StageLocked(s, {t}, Over(Set(t, [live |-> FALSE]),
                                    Insert("tokens", [user |-> rows[t].user,
                                                      live |-> TRUE])))

Refresh(s) ==
    \E t \in Live("tokens") :
        /\ rows[t].live
        /\ MaySignIn(rows[t].user)
        /\ Spare("tokens") # {}
        /\ StageLocked(s, {t}, Over(Set(t, [live |-> FALSE]),
                                    Insert("tokens", [user |-> rows[t].user,
                                                      chain |-> rows[t].chain,
                                                      live |-> TRUE])))

Logout(s) ==
    \E t \in Live("tokens") : rows[t].live /\ StageLocked(s, {t}, Set(t, [live |-> FALSE]))

InvalidateAccount(s) ==
    \E u \in Live("logins") :
        StageLocked(s, {u},
            Over(Set(u, [setup |-> TRUE]),
                 SetAll({t \in Live("tokens") : rows[t].user = u /\ rows[t].live},
                        [live |-> FALSE])))

CompleteReset(s) ==
    \E u \in Live("logins") :
        /\ rows[u].active /\ rows[u].setup
        /\ StageLocked(s, {u}, Set(u, [setup |-> FALSE]))

Deactivate(s) ==
    \E u \in Live("logins"), active \in BOOLEAN : Stage(s, Set(u, [active |-> active]))

LoginStep(s) ==
    \/ Login(s) \/ Refresh(s) \/ Logout(s) \/ InvalidateAccount(s)
    \/ CompleteReset(s) \/ Deactivate(s)

-----------------------------------------------------------------------------

AccountTables ==
    [accounts |-> {"people", "users"}, reporting |-> {"people"}, portals |-> {"portals"},
     logins |-> {"logins", "tokens"}]

\* A bound: one user has the portal, one signs in, up to four times.
AccountIds ==
    {r \in AccountTables[desk] \X (1..4) :
        CASE r[1] \in {"people", "users"} -> r[2] \in Numbers
          [] r[1] = "tokens" -> TRUE
          [] OTHER -> r[2] = 1}

AccountInit ==
    /\ desk \in DOMAIN AccountTables
    /\ rows = [r \in AccountIds |->
                  IF r[1] = "logins" THEN [there |-> TRUE, active |-> TRUE, setup |-> FALSE]
                  ELSE Absent]
    /\ StoreInit

AccountsStep(s) ==
    \/ desk = "accounts" /\ AccountStep(s)
    \/ desk = "reporting" /\ (EmployeeCreate(s) \/ EmployeeUpdate(s))
    \/ desk = "portals" /\ PortalStep(s)
    \/ desk = "logins" /\ LoginStep(s)

\* The unique indexes: an empty e-mail or reference clashes with nothing.
Distinct(after, name, col, empty) ==
    \A r, q \in {x \in DOMAIN after : x[1] = name /\ after[x].there} :
        r # q /\ after[r][col] = after[q][col] => after[r][col] = empty

AccountIndexes(after) ==
    /\ Distinct(after, "people", "work", NoMail)
    /\ Distinct(after, "people", "user", NoRef)
    /\ Distinct(after, "users", "mail", NoMail)

AccountsCommit(s) == Commit(s, AccountIndexes(After(s)))

AccountsNext ==
    /\ desk \in DOMAIN AccountTables
    /\ \E s \in Sessions : AccountsStep(s) \/ AccountsCommit(s) \/ Abort(s)

AccountsSpec == AccountInit /\ [][AccountsNext]_storeVars

-----------------------------------------------------------------------------

AccountsTypeOK ==
    desk \in DOMAIN AccountTables =>
        \A r \in DOMAIN rows :
            There(r) => rows[r] \in
                CASE r[1] = "people" -> PersonRows [] r[1] = "users" -> UserRows
                  [] r[1] = "portals" -> PortalRows [] r[1] = "logins" -> LoginRows
                  [] r[1] = "tokens" -> TokenRows

\* As long as no request committed on rows that had changed since it read them,
\* an employee with a work e-mail signs in with that e-mail, whichever of the
\* six ways changed either of them (link_account, update, change_email, create).
SignsInWithWorkMail ==
    desk = "accounts" /\ ~torn =>
        \A p \in Live("people") :
            rows[p].user # NoRef =>
                /\ There(rows[p].user)
                /\ rows[p].work \in {NoMail, rows[rows[p].user].mail}

\* A refresh token is traded once: a login never has two live tokens, however
\* refreshes, resets and logouts run into each other (refresh).
OneTokenPerLogin ==
    \A t, u \in Live("tokens") :
        rows[t].live /\ rows[u].live /\ rows[t].chain = rows[u].chain => t = u

\* "mirrors portal_type == FIELD" (models/user.py, is_field_portal_only).
FlagMirrorsPortal ==
    \A u \in Live("portals") : rows[u].fieldonly = (rows[u].portal = "FIELD")
=============================================================================
