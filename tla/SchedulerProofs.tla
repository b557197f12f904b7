---------------------------- MODULE SchedulerProofs ----------------------------
(***************************************************************************)
(* Theorems of the background work.  Of MailQueue, for every number of     *)
(* users, workers and mails; of AlertSchedules, for every number of        *)
(* schedulers, requests, recipients and records, every frequency and every *)
(* number of updates; of DocumentLibrary, for every number of documents,   *)
(* uploads, workers and files; and of all three as they run in the process *)
(* of MCScheduler.                                                         *)
(***************************************************************************)
EXTENDS MCScheduler, FiniteSetTheorems, TLAPS

-----------------------------------------------------------------------------
(* The mail. *)

Row == [status: Status, attempts: 0..MaxAttempts, due: BOOLEAN,
        kind: Kinds, user: Users \cup {NULL}]

\* A row lock has one holder.
JobsHeld ==
    /\ \A w \in Workers : worker[w].pc = "idle" <=> worker[w].job = NULL
    /\ \A v, w \in Workers : v # w => worker[v].job = NULL \/ worker[v].job # worker[w].job
    /\ \A w \in Workers, a \in Admins : worker[w].job \notin admin[a].jobs

\* What a worker holds stays pending under it.
PendingUnderLock == \A w \in Workers : worker[w].pc # "idle" => mail[worker[w].job].status = "PENDING"

\* The rows beyond the counter do not exist yet; links belong to mails sent;
\* a pending mail has an attempt left.
Rows == \A m \in Mails : /\ m > made => mail[m].status = "NONE"
                         /\ link[m] # "none" => mail[m].status = "SENT"
                         /\ mail[m].status = "PENDING" => mail[m].attempts < MaxAttempts

MailInv == TypeOK /\ JobsHeld /\ PendingUnderLock /\ Rows /\ SentUnlessLost /\ OneLiveLink

-----------------------------------------------------------------------------
\* The bound leaves a row for what is created now.
LEMMA RoomForOne == ASSUME TypeOK, Room PROVE New \in Mails
  BY FS_Subset, MailAssumption, FS_CardinalityType DEF Promised, TypeOK, Room, New, Mails

\* The invariant holds in the empty outbox.
LEMMA MailStarts == Init => MailInv
<1> SUFFICES ASSUME Init PROVE MailInv
  OBVIOUS
<1> USE MailAssumption
<1>1. MailType /\ WorkerType /\ made \in 0..MaxMails
  BY DEF Init, MailType, WorkerType, Idle, Status, Kinds
<1>2. TypeOK
  BY <1>1 DEF Init, TypeOK, NoReset
<1>3. JobsHeld /\ PendingUnderLock /\ Rows
  BY DEF Init, JobsHeld, PendingUnderLock, Rows, Idle, NoReset, Mails
<1>4. SentUnlessLost /\ OneLiveLink
  BY DEF Init, SentUnlessLost, OneLiveLink, Idle
<1> QED BY <1>2, <1>3, <1>4 DEF MailInv

\* A worker that is not idle holds a pending mail.
LEMMA Holds ==
    ASSUME MailInv, NEW w \in Workers, worker[w].pc # "idle"
    PROVE  /\ worker[w].job \in Mails /\ mail[worker[w].job].status = "PENDING"
           /\ mail[worker[w].job] \in Row
           /\ link[worker[w].job] = "none"
           /\ \A v \in Workers : v # w => worker[v].job # worker[w].job
           /\ \A a \in Admins : worker[w].job \notin admin[a].jobs
  BY MailAssumption DEF MailInv, TypeOK, WorkerType, JobsHeld, MailType, PendingUnderLock,
     Row, Rows

\* A worker that goes idle, or on to the next step with its job, keeps the locks right.
LEMMA KeepsLocks ==
    ASSUME MailInv, NEW w \in Workers, worker[w].pc # "idle", UNCHANGED admin,
           NEW p \in {"claimed"} \cup Holding,
           worker' = [worker EXCEPT ![w] = Idle] \/ worker' = [worker EXCEPT ![w].pc = p]
    PROVE  /\ WorkerType' /\ JobsHeld'
           /\ \A v \in Workers : v # w => worker'[v] = worker[v]
           /\ \/ worker'[w].pc = "idle" /\ worker'[w].job = NULL
              \/ worker'[w].pc = p /\ worker'[w].job = worker[w].job
<1> USE MailAssumption
<1>0. worker \in [Workers -> [pc: {"idle", "claimed"} \cup Holding, job: Mails \cup {NULL}]]
  BY DEF MailInv, TypeOK, WorkerType
<1>1. /\ \A v \in Workers : v # w => worker'[v] = worker[v]
      /\ \/ worker'[w].pc = "idle" /\ worker'[w].job = NULL
         \/ worker'[w].pc = p /\ worker'[w].job = worker[w].job
  BY <1>0 DEF Idle
<1>2. WorkerType'
  BY <1>0 DEF WorkerType, Idle
<1>3. p # "idle"
  BY DEF Holding
<1>4. worker[w].job # NULL /\ \A a \in Admins : NULL \notin admin[a].jobs
  BY DEF MailInv, JobsHeld, TypeOK, Mails
<1>5. JobsHeld'
  BY <1>1, <1>3, <1>4 DEF MailInv, JobsHeld
<1> QED BY <1>1, <1>2, <1>5

\* A worker is about to commit mail m.
Accepted(m) == \E w \in Workers : worker[w].pc = "ok" /\ worker[w].job = m

\* What a mail accepted by the relay is, one mail at a time.
LEMMA AcceptedIs ==
    ASSUME WorkerType, NEW m \in Mails
    PROVE  (\E w \in Workers : worker[w] = [pc |-> "ok", job |-> m]) <=> Accepted(m)
  BY DEF WorkerType, Accepted

\* The count of sends, by mail.
Counted(m) == sent[m] = unheard[m] + IF mail[m].status = "SENT" \/ Accepted(m) THEN 1 ELSE 0

\* SentUnlessLost is a statement about each mail on its own.
LEMMA CountedIs == ASSUME WorkerType PROVE SentUnlessLost <=> \A m \in Mails : Counted(m)
BY AcceptedIs DEF SentUnlessLost, Counted

\* The same for the state after a step.
LEMMA CountedNext == ASSUME WorkerType' PROVE SentUnlessLost' <=> \A m \in Mails : Counted(m)'
<1>1. (SentUnlessLost <=> \A m \in Mails : Counted(m))'
  BY CountedIs, PTL
<1> QED BY <1>1

\* A step that sends nothing and settles nothing keeps the count.
LEMMA KeepsCount ==
    ASSUME MailInv, WorkerType', UNCHANGED <<sent, unheard>>,
           \A m \in Mails : mail'[m].status = "SENT" <=> mail[m].status = "SENT",
           \A w \in Workers : \/ worker'[w] = worker[w]
                              \/ worker[w].pc # "ok" /\ worker'[w].pc # "ok"
    PROVE  SentUnlessLost'
  BY CountedIs, CountedNext DEF MailInv, TypeOK, Accepted, Counted

\* The action Claim keeps the invariant.
LEMMA StepClaim == ASSUME MailInv, NEW w \in Workers, Claim(w) PROVE MailInv'
<1> USE MailAssumption
<1>1. PICK m \in Claimable : worker' = [worker EXCEPT ![w] = [pc |-> "claimed", job |-> m]]
  BY DEF Claim
<1>2. m \in Mails /\ mail[m].status = "PENDING" /\ ~Busy(m)
  BY DEF Claimable
<1>3. worker[w].pc = "idle"
      /\ UNCHANGED <<mail, made, admin, active, required, link, sent, unheard, failures>>
  BY DEF Claim
<1>4. worker \in [Workers -> [pc: {"idle", "claimed"} \cup Holding, job: Mails \cup {NULL}]]
  BY DEF MailInv, TypeOK, WorkerType
<1>5. /\ \A v \in Workers : v # w => worker'[v] = worker[v]
      /\ worker'[w] = [pc |-> "claimed", job |-> m]
      /\ WorkerType'
  BY <1>1, <1>2, <1>4 DEF WorkerType
<1>6. TypeOK'
  BY <1>3, <1>5 DEF MailInv, TypeOK, MailType
<1>7. m # NULL
  BY <1>2 DEF Mails
<1>8. JobsHeld' /\ PendingUnderLock'
  BY <1>2, <1>3, <1>5, <1>7 DEF MailInv, JobsHeld, PendingUnderLock, Busy
<1>9. Rows' /\ OneLiveLink'
  BY <1>3 DEF MailInv, Rows, OneLiveLink
<1>10. SentUnlessLost'
  BY <1>3, <1>5, KeepsCount
<1> QED BY <1>6, <1>8, <1>9, <1>10 DEF MailInv

\* The action LockUser keeps the invariant.
LEMMA StepLockUser == ASSUME MailInv, NEW w \in Workers, LockUser(w) PROVE MailInv'
<1>1. /\ worker[w].pc = "claimed" /\ worker' = [worker EXCEPT ![w].pc = "ready"]
      /\ UNCHANGED <<mail, made, admin, active, required, link, sent, unheard, failures>>
  BY DEF LockUser
<1>0. "ready" \in Holding
  BY DEF Holding
<1>2. WorkerType' /\ JobsHeld' /\ \A v \in Workers : v # w => worker'[v] = worker[v]
  BY <1>0, <1>1, KeepsLocks
<1>5. worker'[w].pc = "ready" /\ worker'[w].job = worker[w].job
  BY <1>1 DEF MailInv, TypeOK, WorkerType
<1>3. TypeOK' /\ PendingUnderLock' /\ Rows' /\ OneLiveLink'
  BY <1>1, <1>2, <1>5, Holds DEF MailInv, TypeOK, MailType, PendingUnderLock, Rows, OneLiveLink
<1>4. SentUnlessLost'
  BY <1>1, <1>2, <1>5, KeepsCount
<1> QED BY <1>2, <1>3, <1>4 DEF MailInv

\* The action RolledBack keeps the invariant.
LEMMA StepRolledBack == ASSUME MailInv, NEW w \in Workers, RolledBack(w) PROVE MailInv'
<1>1. /\ worker[w].pc = "long" /\ worker' = [worker EXCEPT ![w] = Idle]
      /\ UNCHANGED <<mail, made, admin, active, required, link, sent, unheard, failures>>
  BY DEF RolledBack
<1>2. /\ WorkerType' /\ JobsHeld'
      /\ \A v \in Workers : v # w => worker'[v] = worker[v]
      /\ worker'[w].pc # "ok" /\ (worker'[w].pc # "idle" => worker'[w].job = worker[w].job)
  BY <1>1, KeepsLocks DEF Holding
<1>3. TypeOK' /\ PendingUnderLock' /\ Rows' /\ OneLiveLink'
  BY <1>1, <1>2, Holds DEF MailInv, TypeOK, MailType, PendingUnderLock, Rows, OneLiveLink
<1>4. SentUnlessLost'
  BY <1>1, <1>2, KeepsCount
<1> QED BY <1>2, <1>3, <1>4 DEF MailInv

\* The action Refuse keeps the invariant.
LEMMA StepRefuse == ASSUME MailInv, NEW w \in Workers, Refuse(w) PROVE MailInv'
<1> DEFINE m == worker[w].job
<1>1. /\ worker[w].pc = "ready" /\ worker' = [worker EXCEPT ![w] = Idle]
      /\ mail' = [mail EXCEPT ![m].status = "CANCELLED"]
      /\ UNCHANGED <<made, admin, active, required, link, sent, unheard, failures>>
  BY DEF Refuse
<1>2. /\ m \in Mails /\ mail[m].status = "PENDING" /\ mail[m] \in Row /\ link[m] = "none"
      /\ \A v \in Workers : v # w => worker[v].job # m
  BY <1>1, Holds
<1>3. /\ WorkerType' /\ JobsHeld'
      /\ \A v \in Workers : v # w => worker'[v] = worker[v]
      /\ worker'[w].pc = "idle"
  BY <1>1, KeepsLocks DEF Holding, MailInv, TypeOK, WorkerType, Idle
<1> HIDE DEF m
<1>4. /\ MailType' /\ mail'[m] = [mail[m] EXCEPT !.status = "CANCELLED"]
      /\ \A n \in Mails : n # m => mail'[n] = mail[n]
      /\ \A n \in Mails : mail'[n].user = mail[n].user
  BY <1>1, <1>2 DEF MailInv, TypeOK, MailType, Row, Status
<1>5. mail'[m].status = "CANCELLED"
  BY <1>2, <1>4 DEF Row
<1>6. TypeOK'
  BY <1>1, <1>3, <1>4 DEF MailInv, TypeOK
<1>7. PendingUnderLock'
  BY <1>2, <1>3, <1>4, MailAssumption DEF MailInv, TypeOK, WorkerType, JobsHeld, PendingUnderLock
<1>8. Rows' /\ OneLiveLink'
  BY <1>1, <1>2, <1>4, <1>5 DEF MailInv, Rows, OneLiveLink
<1>9. SentUnlessLost'
  BY <1>1, <1>2, <1>3, <1>4, <1>5, KeepsCount
<1> QED BY <1>3, <1>6, <1>7, <1>8, <1>9 DEF MailInv

\* The action Attempt keeps the invariant.
LEMMA StepAttempt == ASSUME MailInv, NEW w \in Workers, Attempt(w) PROVE MailInv'
<1> USE MailAssumption
<1>0. worker[w].pc # "idle"
  BY DEF Attempt
<1> PICK m \in Mails : m = worker[w].job
  BY <1>0, Holds
<1>1. PICK outcome \in {"ok"} \cup Errors, accepted \in {0, 1} :
         /\ outcome = "ok" => accepted = 1
         /\ worker' = [worker EXCEPT ![w].pc = outcome]
         /\ sent' = [sent EXCEPT ![m] = @ + accepted]
         /\ unheard' = [unheard EXCEPT ![m] = IF outcome = "ok" THEN @ ELSE @ + accepted]
  BY DEF Attempt
<1>2. /\ worker[w].pc = "ready"
      /\ UNCHANGED <<mail, made, admin, active, required, link, failures>>
  BY DEF Attempt
<1>3. /\ m \in Mails /\ mail[m].status = "PENDING"
      /\ \A v \in Workers : v # w => worker[v].job # m
  BY <1>2, Holds
<1>4. outcome \in Holding
  BY DEF Holding
<1>5. worker \in [Workers -> [pc: {"idle", "claimed"} \cup Holding, job: Mails \cup {NULL}]]
  BY DEF MailInv, TypeOK, WorkerType
<1>6. /\ WorkerType' /\ JobsHeld'
      /\ \A v \in Workers : v # w => worker'[v] = worker[v]
  BY <1>1, <1>2, <1>4, KeepsLocks
<1>7. worker'[w].pc = outcome /\ worker'[w].job = m
  BY <1>1, <1>5
<1>8. /\ sent'[m] = sent[m] + accepted
      /\ unheard'[m] = IF outcome = "ok" THEN unheard[m] ELSE unheard[m] + accepted
      /\ \A n \in Mails : n # m => sent'[n] = sent[n] /\ unheard'[n] = unheard[n]
      /\ sent' \in [Mails -> Nat] /\ unheard' \in [Mails -> Nat]
  BY <1>1, <1>3 DEF MailInv, TypeOK
<1>9. TypeOK'
  BY <1>2, <1>6, <1>8 DEF MailInv, TypeOK, MailType
<1>10. PendingUnderLock'
  BY <1>2, <1>3, <1>6, <1>7 DEF MailInv, PendingUnderLock
<1>11. Rows' /\ OneLiveLink'
  BY <1>2 DEF MailInv, Rows, OneLiveLink
<1>12. \A n \in Mails : Counted(n)
  BY CountedIs DEF MailInv, TypeOK
<1>13. ~Accepted(m) /\ (Accepted(m)' <=> outcome = "ok")
  BY <1>2, <1>3, <1>6, <1>7 DEF Accepted
<1>14. \A n \in Mails : n # m => (Accepted(n)' <=> Accepted(n))
  BY <1>2, <1>7, <1>6 DEF Accepted
<1>15. Counted(m)'
  BY <1>1, <1>2, <1>3, <1>8, <1>12, <1>13 DEF Counted, MailInv, TypeOK
<1>16. \A n \in Mails : Counted(n)'
  BY <1>2, <1>8, <1>12, <1>14, <1>15 DEF Counted
<1>17. SentUnlessLost'
  BY <1>6, <1>16, CountedNext
<1> QED BY <1>6, <1>9, <1>10, <1>11, <1>17 DEF MailInv

\* The action Delivered keeps the invariant.
LEMMA StepDelivered == ASSUME MailInv, NEW w \in Workers, Delivered(w) PROVE MailInv'
<1> DEFINE m == worker[w].job
<1> DEFINE u == mail[m].user
<1>1. /\ worker[w].pc = "ok" /\ worker' = [worker EXCEPT ![w] = Idle]
      /\ mail' = [mail EXCEPT ![m].status = "SENT"]
      /\ link' = IF mail[m].kind = "SETUP" THEN [UsedUp(u) EXCEPT ![m] = "live"] ELSE link
      /\ UNCHANGED <<made, admin, active, required, sent, unheard, failures>>
  BY DEF Delivered
<1>2. /\ m \in Mails /\ mail[m].status = "PENDING" /\ mail[m] \in Row /\ link[m] = "none"
      /\ \A v \in Workers : v # w => worker[v].job # m
  BY <1>1, Holds
<1>3. /\ WorkerType' /\ JobsHeld'
      /\ \A v \in Workers : v # w => worker'[v] = worker[v]
      /\ worker'[w].pc = "idle"
  BY <1>1, KeepsLocks DEF Holding, MailInv, TypeOK, WorkerType, Idle
<1>4. worker[w].pc = "ok" /\ worker[w].job = m
  BY <1>1
<1> HIDE DEF m
<1>5. /\ MailType' /\ mail'[m] = [mail[m] EXCEPT !.status = "SENT"]
      /\ \A n \in Mails : n # m => mail'[n] = mail[n]
  BY <1>1, <1>2 DEF MailInv, TypeOK, MailType, Row, Status
<1>6. mail'[m].status = "SENT" /\ mail'[m].user = u
  BY <1>2, <1>5 DEF Row
<1>7. /\ link' \in [Mails -> {"none", "live", "expired", "used"}]
      /\ \A n \in Mails : n # m /\ link'[n] # "none" => link[n] # "none"
      /\ \A n \in Mails : n # m /\ link'[n] = "live" => link[n] = "live"
      /\ \/ link'[m] = "none"
         \/ \A n \in Mails : n # m /\ mail[n].user = u => link'[n] # "live"
  BY <1>1, <1>2 DEF MailInv, TypeOK, UsedUp
<1> HIDE DEF u
<1>8. TypeOK'
  BY <1>1, <1>3, <1>5, <1>7 DEF MailInv, TypeOK
<1>9. PendingUnderLock'
  BY <1>2, <1>3, <1>5, MailAssumption DEF MailInv, TypeOK, WorkerType, JobsHeld, PendingUnderLock
<1>10. Rows'
  BY <1>1, <1>2, <1>5, <1>6, <1>7 DEF MailInv, Rows
<1>11. OneLiveLink'
  <2> SUFFICES ASSUME NEW k \in Mails, NEW n \in Mails, link'[k] = "live", link'[n] = "live",
                      mail'[k].user = mail'[n].user
               PROVE  k = n
    BY DEF OneLiveLink
  <2>1. CASE k # m /\ n # m
    BY <2>1, <1>5, <1>7 DEF MailInv, OneLiveLink
  <2>2. CASE k = m \/ n = m
    BY <2>2, <1>5, <1>6, <1>7
  <2> QED BY <2>1, <2>2
<1>12. \A n \in Mails : Counted(n)
  BY CountedIs DEF MailInv, TypeOK
<1>13. Accepted(m)
  BY <1>4 DEF Accepted
<1>14. \A n \in Mails : n # m => (Accepted(n)' <=> Accepted(n))
  BY <1>4, <1>3 DEF Accepted
<1>15. \A n \in Mails : Counted(n)'
  BY <1>1, <1>5, <1>6, <1>12, <1>13, <1>14 DEF Counted
<1>16. SentUnlessLost'
  BY <1>3, <1>15, CountedNext
<1> QED BY <1>3, <1>8, <1>9, <1>10, <1>11, <1>16 DEF MailInv

\* A failed attempt counts once and leaves a pending row an attempt.
LEMMA RetriedIs ==
    ASSUME NEW r \in Row, r.status = "PENDING", r.attempts < MaxAttempts
    PROVE  /\ Retried(r) \in Row /\ Retried(r).user = r.user
           /\ Retried(r).status \in {"PENDING", "FAILED"}
           /\ Retried(r).status = "PENDING" => Retried(r).attempts < MaxAttempts
<1> USE MailAssumption
<1>1. /\ Retried(r).attempts = r.attempts + 1
      /\ Retried(r).due = FALSE /\ Retried(r).kind = r.kind /\ Retried(r).user = r.user
  BY DEF Retried, Row
<1>2. Retried(r).status = IF r.attempts + 1 >= MaxAttempts THEN "FAILED" ELSE "PENDING"
  BY DEF Retried, Row
<1>3. r.attempts + 1 \in 0..MaxAttempts
  BY DEF Row
<1>4. Retried(r) \in Row
  BY <1>3 DEF Retried, Row, Status
<1>5. Retried(r).status = "PENDING" => Retried(r).attempts < MaxAttempts
  BY <1>1, <1>2, <1>3 DEF Row
<1> QED BY <1>1, <1>2, <1>4, <1>5

\* The action Failed keeps the invariant.
LEMMA StepFailed == ASSUME MailInv, NEW w \in Workers, Failed(w) PROVE MailInv'
<1> USE MailAssumption
<1>0. worker[w].pc # "idle"
  BY DEF Failed
<1> PICK m \in Mails : m = worker[w].job
  BY <1>0, Holds
<1>1. /\ worker[w].pc = "short" /\ worker' = [worker EXCEPT ![w] = Idle]
      /\ mail' = [mail EXCEPT ![m] = Retried(@)]
      /\ UNCHANGED <<made, admin, active, required, link, sent, unheard, failures>>
  BY DEF Failed
<1>2. /\ mail[m].status = "PENDING" /\ mail[m] \in Row /\ link[m] = "none"
      /\ \A v \in Workers : v # w => worker[v].job # m
  BY <1>0, Holds
<1>3. /\ WorkerType' /\ JobsHeld'
      /\ \A v \in Workers : v # w => worker'[v] = worker[v]
      /\ worker'[w].pc = "idle"
  BY <1>0, <1>1, KeepsLocks DEF MailInv, TypeOK, WorkerType, Idle
<1>4. /\ mail'[m] = Retried(mail[m])
      /\ \A n \in Mails : n # m => mail'[n] = mail[n]
      /\ DOMAIN mail' = Mails /\ mail' = [n \in Mails |-> mail'[n]]
  BY <1>1 DEF MailInv, TypeOK, MailType
<1>5. mail[m].attempts \in 0..MaxAttempts /\ mail[m].attempts < MaxAttempts
  BY <1>2 DEF MailInv, Rows, Row
<1>6. /\ Retried(mail[m]) \in Row
      /\ Retried(mail[m]).user = mail[m].user
      /\ Retried(mail[m]).status \in {"PENDING", "FAILED"}
      /\ Retried(mail[m]).status = "PENDING" => Retried(mail[m]).attempts < MaxAttempts
  BY <1>2, <1>5, RetriedIs
<1>7. MailType'
  BY <1>4, <1>6 DEF MailInv, TypeOK, MailType, Row
<1>8. TypeOK'
  BY <1>1, <1>3, <1>7 DEF MailInv, TypeOK
<1>9. PendingUnderLock'
  BY <1>2, <1>3, <1>4 DEF MailInv, TypeOK, WorkerType, JobsHeld, PendingUnderLock
<1>10. Rows' /\ OneLiveLink'
  BY <1>1, <1>2, <1>4, <1>6 DEF MailInv, Rows, OneLiveLink
<1>11. SentUnlessLost'
  BY <1>1, <1>2, <1>3, <1>4, <1>6, KeepsCount
<1> QED BY <1>3, <1>8, <1>9, <1>10, <1>11 DEF MailInv

\* The action Crash keeps the invariant.
LEMMA StepCrash == ASSUME MailInv, NEW w \in Workers, Crash(w) PROVE MailInv'
<1> USE MailAssumption
<1>0. worker[w].pc # "idle"
  BY DEF Crash
<1> PICK m \in Mails : m = worker[w].job
  BY <1>0, Holds
<1>1. /\ worker' = [worker EXCEPT ![w] = Idle]
      /\ failures < MaxFailures /\ failures' = failures + 1
      /\ unheard' = IF worker[w].pc = "ok" THEN [unheard EXCEPT ![m] = @ + 1] ELSE unheard
      /\ UNCHANGED <<mail, made, admin, active, required, link, sent>>
  BY DEF Crash
<1>2. /\ mail[m].status = "PENDING"
      /\ \A v \in Workers : v # w => worker[v].job # m
  BY <1>0, Holds
<1>3. /\ WorkerType' /\ JobsHeld'
      /\ \A v \in Workers : v # w => worker'[v] = worker[v]
      /\ worker'[w].pc = "idle"
  BY <1>0, <1>1, KeepsLocks DEF MailInv, TypeOK, WorkerType, Idle
<1>4. /\ unheard' \in [Mails -> Nat]
      /\ unheard'[m] = unheard[m] + IF worker[w].pc = "ok" THEN 1 ELSE 0
      /\ \A n \in Mails : n # m => unheard'[n] = unheard[n]
  BY <1>1 DEF MailInv, TypeOK
<1>5. TypeOK'
  BY <1>1, <1>3, <1>4 DEF MailInv, TypeOK, MailType
<1>6. PendingUnderLock' /\ Rows' /\ OneLiveLink'
  BY <1>1, <1>3 DEF MailInv, PendingUnderLock, Rows, OneLiveLink
<1>7. \A n \in Mails : Counted(n)
  BY CountedIs DEF MailInv, TypeOK
<1>8. ~Accepted(m)' /\ (Accepted(m) <=> worker[w].pc = "ok")
  BY <1>2, <1>3 DEF Accepted
<1>9. \A n \in Mails : n # m => (Accepted(n)' <=> Accepted(n))
  BY <1>3 DEF Accepted
<1>10. sent[m] \in Nat /\ unheard[m] \in Nat
  BY DEF MailInv, TypeOK
<1>11. Counted(m)'
  BY <1>1, <1>2, <1>4, <1>7, <1>8, <1>10 DEF Counted
<1>12. \A n \in Mails : Counted(n)'
  BY <1>1, <1>4, <1>7, <1>9, <1>11 DEF Counted
<1>13. SentUnlessLost'
  BY <1>3, <1>12, CountedNext
<1> QED BY <1>3, <1>5, <1>6, <1>13 DEF MailInv

\* The worker is aborted and the reset goes on, or the other way round.
LEMMA StepBreakDeadlock ==
    ASSUME MailInv, NEW w \in Workers, NEW a \in Admins, BreakDeadlock(w, a) PROVE MailInv'
<1> USE MailAssumption
<1>0. worker[w].pc = "claimed"
      /\ UNCHANGED <<mail, made, active, required, link, sent, unheard>>
  BY DEF BreakDeadlock
<1> PICK m \in Mails : m = worker[w].job
  BY <1>0, Holds
<1>1. /\ mail[m].status = "PENDING"
      /\ \A v \in Workers : v # w => worker[v].job # m
      /\ \A b \in Admins : m \notin admin[b].jobs
      /\ m # NULL
  BY <1>0, Holds DEF Mails
<1>2. admin \in [Admins -> [user: Users \cup {NULL}, jobs: SUBSET Mails]]
  BY DEF MailInv, TypeOK
<1>3. CASE /\ worker' = [worker EXCEPT ![w] = Idle]
           /\ admin' = [admin EXCEPT ![a].jobs = @ \cup {m}]
           /\ UNCHANGED failures
  <2>1. worker \in [Workers -> [pc: {"idle", "claimed"} \cup Holding, job: Mails \cup {NULL}]]
    BY DEF MailInv, TypeOK, WorkerType
  <2>2. /\ \A v \in Workers : v # w => worker'[v] = worker[v]
        /\ worker'[w].pc = "idle" /\ worker'[w].job = NULL
        /\ WorkerType'
    BY <1>3, <2>1 DEF WorkerType, Idle
  <2>3. /\ admin' \in [Admins -> [user: Users \cup {NULL}, jobs: SUBSET Mails]]
        /\ \A b \in Admins : admin'[b].jobs \subseteq admin[b].jobs \cup {m}
    BY <1>2, <1>3
  <2>4. \A b \in Admins : NULL \notin admin'[b].jobs
    BY <2>3 DEF Mails
  <2>5. JobsHeld'
    BY <1>1, <2>2, <2>3, <2>4 DEF MailInv, JobsHeld
  <2>6. TypeOK' /\ PendingUnderLock' /\ Rows' /\ OneLiveLink'
    BY <1>0, <1>3, <2>2, <2>3 DEF MailInv, TypeOK, MailType, PendingUnderLock, Rows, OneLiveLink
  <2>7. SentUnlessLost'
    BY <1>0, <2>2, KeepsCount
  <2> QED BY <2>5, <2>6, <2>7 DEF MailInv
<1>4. CASE /\ failures < MaxFailures /\ failures' = failures + 1
           /\ admin' = [admin EXCEPT ![a] = NoReset]
           /\ worker' = [worker EXCEPT ![w].pc = "ready"]
  <2>1. worker \in [Workers -> [pc: {"idle", "claimed"} \cup Holding, job: Mails \cup {NULL}]]
    BY DEF MailInv, TypeOK, WorkerType
  <2>2. /\ \A v \in Workers : v # w => worker'[v] = worker[v]
        /\ worker'[w].pc = "ready" /\ worker'[w].job = m
    BY <1>4, <2>1
  <2>3. WorkerType'
    BY <1>4, <2>1 DEF WorkerType, Holding
  <2>4. /\ admin' \in [Admins -> [user: Users \cup {NULL}, jobs: SUBSET Mails]]
        /\ \A b \in Admins : admin'[b].jobs \subseteq admin[b].jobs
    BY <1>2, <1>4 DEF NoReset
  <2>5. JobsHeld'
    BY <1>0, <1>1, <2>2, <2>4 DEF MailInv, JobsHeld
  <2>6. TypeOK' /\ PendingUnderLock' /\ Rows' /\ OneLiveLink'
    BY <1>0, <1>1, <1>4, <2>2, <2>3, <2>4 DEF MailInv, TypeOK, MailType, PendingUnderLock, Rows, OneLiveLink
  <2>7. SentUnlessLost'
    BY <1>0, <2>2, <2>3, KeepsCount
  <2> QED BY <2>5, <2>6, <2>7 DEF MailInv
<1> QED BY <1>3, <1>4 DEF BreakDeadlock

\* The action Elapse keeps the invariant.
LEMMA StepElapse == ASSUME MailInv, NEW m \in Mails, Elapse(m) PROVE MailInv'
<1>1. /\ mail' = [mail EXCEPT ![m].due = TRUE]
      /\ UNCHANGED <<made, worker, admin, active, required, link, sent, unheard, failures>>
  BY DEF Elapse
<1>2. /\ MailType'
      /\ \A n \in Mails : /\ mail'[n].status = mail[n].status
                          /\ mail'[n].attempts = mail[n].attempts
                          /\ mail'[n].user = mail[n].user
  BY <1>1 DEF MailInv, TypeOK, MailType
<1>3. TypeOK' /\ JobsHeld'
  BY <1>1, <1>2 DEF MailInv, TypeOK, WorkerType, JobsHeld
<1>4. PendingUnderLock'
  BY <1>1, <1>2, Holds DEF PendingUnderLock
<1>5. Rows' /\ OneLiveLink'
  BY <1>1, <1>2 DEF MailInv, Rows, OneLiveLink
<1>6. SentUnlessLost'
  BY <1>1, <1>2, <1>3, KeepsCount DEF TypeOK
<1> QED BY <1>3, <1>4, <1>5, <1>6 DEF MailInv

\* The next row has never been used.
LEMMA NewIsBlank ==
    ASSUME MailInv, New \in Mails
    PROVE  /\ mail[New].status = "NONE" /\ link[New] = "none"
           /\ \A w \in Workers : worker[w].pc # "idle" => worker[w].job # New
           /\ New \in 0..MaxMails /\ \A m \in Mails : m > New => m > made
  BY MailAssumption, Holds DEF MailInv, TypeOK, New, Mails, Rows

\* The action NewMail keeps the invariant.
LEMMA StepNewMail ==
    ASSUME MailInv, NEW u \in Users, NEW k \in Kinds, New \in Mails,
           mail' = [mail EXCEPT ![New] = NewMail(u, k)], made' = New, active' \subseteq Users,
           UNCHANGED <<worker, admin, required, link, sent, unheard, failures>>
    PROVE  MailInv'
<1> USE MailAssumption
<1>1. NewMail(u, k) \in Row /\ NewMail(u, k).status = "PENDING" /\ NewMail(u, k).attempts = 0
  BY DEF NewMail, Row, Status
<1>2. /\ MailType' /\ mail'[New] = NewMail(u, k)
      /\ \A m \in Mails : m # New => mail'[m] = mail[m]
  BY <1>1 DEF MailInv, TypeOK, MailType, Row
<1>3. TypeOK' /\ JobsHeld'
  BY <1>2, NewIsBlank DEF MailInv, TypeOK, WorkerType, JobsHeld
<1>4. PendingUnderLock'
  BY <1>2, Holds, NewIsBlank DEF PendingUnderLock
<1>5. \A m \in Mails : m > New => m # New
  BY DEF Mails, New, MailInv, TypeOK
<1>6. Rows'
  BY <1>1, <1>2, <1>5, NewIsBlank DEF MailInv, Rows
<1>7. OneLiveLink'
  BY <1>2, NewIsBlank DEF MailInv, OneLiveLink
<1>8. SentUnlessLost'
  BY <1>1, <1>2, <1>3, NewIsBlank, KeepsCount DEF TypeOK
<1> QED BY <1>3, <1>4, <1>6, <1>7, <1>8 DEF MailInv

\* The action Notify keeps the invariant.
LEMMA StepNotify == ASSUME MailInv, NEW u \in Users, Notify(u) PROVE MailInv'
  BY RoomForOne, StepNewMail DEF Notify, MailInv, Kinds, TypeOK

\* The action LinkAccount keeps the invariant.
LEMMA StepLinkAccount == ASSUME MailInv, NEW u \in Users, LinkAccount(u) PROVE MailInv'
  BY RoomForOne, StepNewMail DEF LinkAccount, MailInv, TypeOK, Kinds

\* A reset takes locks that nobody has.
LEMMA StepAdmin ==
    ASSUME MailInv, NEW a \in Admins, TakeJob(a) \/ \E u \in Users : BeginReset(a, u) PROVE MailInv'
<1> USE MailAssumption
<1>1. UNCHANGED <<mail, made, worker, active, required, link, sent, unheard, failures>>
  BY DEF BeginReset, TakeJob
<1>2. admin \in [Admins -> [user: Users \cup {NULL}, jobs: SUBSET Mails]]
  BY DEF MailInv, TypeOK
<1>3. /\ admin' \in [Admins -> [user: Users \cup {NULL}, jobs: SUBSET Mails]]
      /\ \A b \in Admins, m \in Mails : m \in admin'[b].jobs => m \in admin[b].jobs \/ ~Busy(m)
  BY <1>2 DEF BeginReset, TakeJob, Awaited
<1>4. \A w \in Workers, b \in Admins : worker[w].job \notin admin'[b].jobs
  BY <1>3 DEF MailInv, JobsHeld, Busy
<1>5. TypeOK' /\ JobsHeld' /\ PendingUnderLock' /\ Rows' /\ OneLiveLink'
  BY <1>1, <1>3, <1>4 DEF MailInv, TypeOK, MailType, WorkerType, JobsHeld, PendingUnderLock, Rows, OneLiveLink
<1>6. SentUnlessLost'
  BY <1>1, <1>5, KeepsCount DEF TypeOK
<1> QED BY <1>5, <1>6 DEF MailInv

\* The action FinishReset keeps the invariant.
LEMMA StepFinishReset == ASSUME MailInv, NEW a \in Admins, FinishReset(a) PROVE MailInv'
<1> USE MailAssumption
<1> PICK u : u = admin[a].user
  OBVIOUS
<1>1. /\ u # NULL /\ New \in Mails /\ admin[a].jobs = Awaited(u)
      /\ mail' = AfterReset(u) /\ made' = New /\ link' = UsedUp(u)
      /\ required' = required \cup {u} /\ admin' = [admin EXCEPT ![a] = NoReset]
      /\ UNCHANGED <<worker, active, sent, unheard, failures>>
  BY DEF FinishReset
<1>2. admin \in [Admins -> [user: Users \cup {NULL}, jobs: SUBSET Mails]]
  BY DEF MailInv, TypeOK
<1>3. u \in Users
  BY <1>1, <1>2
<1>4. NewMail(u, "SETUP") \in Row /\ NewMail(u, "SETUP").status = "PENDING"
      /\ NewMail(u, "SETUP").attempts = 0
  BY <1>3 DEF NewMail, Row, Status, Kinds
<1>5. \A m \in Mails : mail[m] \in Row
  BY DEF MailInv, TypeOK, MailType, Row
<1>6. \A r \in Row : /\ [r EXCEPT !.status = "CANCELLED"] \in Row
                     /\ [r EXCEPT !.status = "CANCELLED"].status = "CANCELLED"
                     /\ [r EXCEPT !.status = "CANCELLED"].user = r.user
  BY DEF Row, Status
<1>7. /\ mail'[New] = NewMail(u, "SETUP")
      /\ \A m \in Mails : m # New /\ m \notin Awaited(u) => mail'[m] = mail[m]
      /\ \A m \in Mails : m # New /\ m \in Awaited(u) =>
                             mail'[m] = [mail[m] EXCEPT !.status = "CANCELLED"]
  BY <1>1 DEF AfterReset
<1>8. \A m \in Mails : /\ mail'[m] \in Row
                       /\ mail'[m].status = "PENDING" => mail'[m].attempts < MaxAttempts
  <2> SUFFICES ASSUME NEW m \in Mails
               PROVE  /\ mail'[m] \in Row
                      /\ mail'[m].status = "PENDING" => mail'[m].attempts < MaxAttempts
    OBVIOUS
  <2>1. CASE m = New
    BY <1>4, <1>7, <2>1
  <2>2. CASE m # New /\ m \in Awaited(u)
    <3>1. mail[m] \in Row
      BY <1>5
    <3>2. mail'[m] = [mail[m] EXCEPT !.status = "CANCELLED"]
      BY <1>7, <2>2
    <3>3. mail'[m] \in Row /\ mail'[m].status = "CANCELLED"
      BY <1>6, <3>1, <3>2
    <3> QED BY <3>3
  <2>3. CASE m # New /\ m \notin Awaited(u)
    BY <1>5, <1>7, <2>3 DEF MailInv, Rows
  <2> QED BY <2>1, <2>2, <2>3
<1>9. MailType'
  BY <1>1, <1>8 DEF AfterReset, MailType, Row
<1>10. /\ admin' \in [Admins -> [user: Users \cup {NULL}, jobs: SUBSET Mails]]
       /\ \A b \in Admins : admin'[b].jobs \subseteq admin[b].jobs
  BY <1>1, <1>2 DEF NoReset
<1>11. /\ link' \in [Mails -> {"none", "live", "expired", "used"}]
       /\ \A m \in Mails : (link'[m] # "none" => link[m] # "none")
                           /\ (link'[m] = "live" => link[m] = "live")
  BY <1>1 DEF MailInv, TypeOK, UsedUp
<1>12. TypeOK'
  BY <1>1, <1>3, <1>9, <1>10, <1>11, NewIsBlank DEF MailInv, TypeOK, WorkerType
<1>13. JobsHeld'
  BY <1>1, <1>10 DEF MailInv, JobsHeld
<1>14. PendingUnderLock'
  BY <1>1, Holds, NewIsBlank, <1>7 DEF PendingUnderLock
<1>15. \A m \in Awaited(u) : mail[m].status = "PENDING"
  BY DEF Awaited
<1>16. \A m \in Mails : /\ mail'[m].status = "SENT" <=> mail[m].status = "SENT"
                        /\ link'[m] # "none" => mail'[m] = mail[m]
  <2> SUFFICES ASSUME NEW m \in Mails
               PROVE  /\ mail'[m].status = "SENT" <=> mail[m].status = "SENT"
                      /\ link'[m] # "none" => mail'[m] = mail[m]
    OBVIOUS
  <2>1. link'[m] # "none" => mail[m].status = "SENT"
    BY <1>11 DEF MailInv, Rows
  <2>2. CASE m = New
    BY <1>1, <1>4, <1>7, <2>1, <2>2, NewIsBlank
  <2>3. CASE m # New /\ m \in Awaited(u)
    BY <1>5, <1>6, <1>7, <1>15, <2>1, <2>3
  <2>4. CASE m # New /\ m \notin Awaited(u)
    BY <1>7, <2>4
  <2> QED BY <2>2, <2>3, <2>4
<1>17. Rows'
  <2> SUFFICES ASSUME NEW m \in Mails
               PROVE  /\ m > New => mail'[m].status = "NONE"
                      /\ link'[m] # "none" => mail'[m].status = "SENT"
                      /\ mail'[m].status = "PENDING" => mail'[m].attempts < MaxAttempts
    BY <1>1 DEF Rows
  <2>1. link'[m] # "none" => mail'[m].status = "SENT"
    BY <1>11, <1>16 DEF MailInv, Rows
  <2>2. m > New => m # New /\ mail[m].status = "NONE"
    BY <1>1, NewIsBlank DEF MailInv, Rows, TypeOK, Mails, New
  <2>3. m > New => mail'[m].status = "NONE"
    BY <1>7, <1>15, <2>2
  <2>4. mail'[m].status = "PENDING" => mail'[m].attempts < MaxAttempts
    BY <1>8
  <2> QED BY <2>1, <2>3, <2>4
<1>18. OneLiveLink'
  BY <1>11, <1>16 DEF MailInv, OneLiveLink
<1>19. SentUnlessLost'
  BY <1>1, <1>12, <1>16, KeepsCount DEF TypeOK
<1> QED BY <1>12, <1>13, <1>14, <1>17, <1>18, <1>19 DEF MailInv

\* The action Link keeps the invariant.
LEMMA StepLink ==
    ASSUME MailInv,
           \/ \E m \in Mails : CompleteSetup(m) \/ Expire(m)
           \/ \E u \in Users : Deactivate(u)
    PROVE  MailInv'
<1>1. /\ UNCHANGED <<mail, made, worker, admin, sent, unheard, failures>>
      /\ active' \subseteq Users /\ required' \subseteq Users
      /\ \/ link' = link
         \/ \E m \in Mails, l \in {"used", "expired"} :
                link[m] = "live" /\ link' = [link EXCEPT ![m] = l]
  BY DEF CompleteSetup, Expire, Deactivate, MailInv, TypeOK
<1>2. /\ link' \in [Mails -> {"none", "live", "expired", "used"}]
      /\ \A n \in Mails : /\ link'[n] # "none" => link[n] # "none"
                          /\ link'[n] = "live" => link[n] = "live"
  BY <1>1 DEF MailInv, TypeOK
<1>3. TypeOK' /\ JobsHeld' /\ PendingUnderLock' /\ Rows' /\ OneLiveLink'
  BY <1>1, <1>2 DEF MailInv, TypeOK, MailType, WorkerType, JobsHeld, PendingUnderLock, Rows, OneLiveLink
<1>4. SentUnlessLost'
  BY <1>1, <1>3, KeepsCount DEF TypeOK
<1> QED BY <1>3, <1>4 DEF MailInv

\* A row that is started over is a row, with nothing sent.
LEMMA StartedOverIs ==
    ASSUME NEW r \in Row
    PROVE  /\ StartedOver(r) \in Row
           /\ StartedOver(r).status = "PENDING" /\ StartedOver(r).attempts = 0
<1> USE MailAssumption
<1>1. StartedOver(r).status = "PENDING" /\ StartedOver(r).attempts = 0
  BY DEF StartedOver, Row
<1>2. 0 \in 0..MaxAttempts /\ "PENDING" \in Status
  BY DEF Status
<1>3. StartedOver(r) \in Row
  BY <1>2 DEF StartedOver, Row
<1> QED BY <1>1, <1>3

\* The action RetryDelivery keeps the invariant.
LEMMA StepRetryDelivery == ASSUME MailInv, NEW m \in Mails, RetryDelivery(m) PROVE MailInv'
<1> USE MailAssumption
<1> DEFINE row == StartedOver(mail[m])
<1>0. mail[m] \in Row /\ mail[m].status = "FAILED"
  BY DEF RetryDelivery, MailInv, TypeOK, MailType, Row
<1>1. /\ mail' = [mail EXCEPT ![m] = row]
      /\ UNCHANGED <<made, worker, admin, active, required, link, sent, unheard>>
      /\ failures' \in 0..MaxFailures
  BY DEF RetryDelivery, MailInv, TypeOK
<1>2. /\ StartedOver(mail[m]) \in Row
      /\ StartedOver(mail[m]).status = "PENDING" /\ StartedOver(mail[m]).attempts = 0
  BY <1>0, StartedOverIs
<1>3. row \in Row /\ row.status = "PENDING" /\ row.attempts = 0
  BY <1>2
<1> HIDE DEF row
<1>4. mail'[m] = row /\ \A n \in Mails : n # m => mail'[n] = mail[n]
  BY <1>1 DEF MailInv, TypeOK, MailType
<1>5. TypeOK'
  BY <1>0, <1>1, <1>3, <1>4 DEF MailInv, TypeOK, MailType, WorkerType, Row
<1>6. JobsHeld'
  BY <1>1 DEF MailInv, JobsHeld
<1>7. PendingUnderLock'
  BY <1>0, <1>1, <1>3, <1>4, Holds DEF MailInv, PendingUnderLock
<1>8. m <= made
  BY <1>0 DEF MailInv, Rows, TypeOK, Mails
<1>9. Rows'
  BY <1>0, <1>1, <1>3, <1>4, <1>8 DEF MailInv, Rows
<1>10. OneLiveLink'
  BY <1>0, <1>1, <1>3, <1>4 DEF MailInv, OneLiveLink, Rows
<1>11. SentUnlessLost'
  BY <1>0, <1>1, <1>3, <1>4, <1>5, KeepsCount DEF TypeOK
<1> QED BY <1>5, <1>6, <1>7, <1>9, <1>10, <1>11 DEF MailInv

\* Every step of the queue keeps the invariant.
LEMMA MailSteps == ASSUME MailInv, [Next]_vars PROVE MailInv'
<1>1. CASE UNCHANGED vars
  BY <1>1 DEF vars, MailInv, TypeOK, MailType, WorkerType, JobsHeld, PendingUnderLock, Rows,
     OneLiveLink, SentUnlessLost
<1>2. CASE \E w \in Workers : Deliver(w) \/ Crash(w)
  BY <1>2, StepClaim, StepLockUser, StepRefuse, StepAttempt, StepDelivered, StepFailed,
     StepRolledBack, StepCrash DEF Deliver
<1>3. CASE \E m \in Mails : Elapse(m)
  BY <1>3, StepElapse
<1>4. CASE \/ \E m \in Mails : CompleteSetup(m) \/ Expire(m)
           \/ \E u \in Users : Deactivate(u)
  BY <1>4, StepLink
<1>5. CASE \E u \in Users : Notify(u) \/ LinkAccount(u)
  BY <1>5, StepNotify, StepLinkAccount
<1>6. CASE \E m \in Mails : RetryDelivery(m)
  BY <1>6, StepRetryDelivery
<1>7. CASE \E a \in Admins : FinishReset(a)
  BY <1>7, StepFinishReset
<1>8. CASE \E a \in Admins : TakeJob(a) \/ \E u \in Users : BeginReset(a, u)
  BY <1>8, StepAdmin
<1>9. CASE \E w \in Workers, a \in Admins : BreakDeadlock(w, a)
  BY <1>9, StepBreakDeadlock
<1> QED BY <1>1, <1>2, <1>3, <1>4, <1>5, <1>6, <1>7, <1>8, <1>9 DEF Next

\* What is settled is not written by any step, but a mail given up by a retry.
Untouched ==
    \A m \in Mails :
        /\ mail[m].status \in {"SENT", "CANCELLED"} => mail'[m] = mail[m]
        /\ mail[m].status = "FAILED" => mail'[m] = mail[m] \/ mail'[m].attempts = 0
        /\ mail[m].status \in {"SENT", "FAILED", "CANCELLED"} => sent'[m] = sent[m]

\* No step touches a mail that is terminal: the action property, from the invariant.
LEMMA StepUntouched == ASSUME MailInv, [Next]_vars PROVE Untouched
<1>1. CASE UNCHANGED <<mail, sent>>
  BY <1>1 DEF Untouched
<1>2. ASSUME NEW w \in Workers, Refuse(w) \/ Attempt(w) \/ Delivered(w) \/ Failed(w)
      PROVE  Untouched
  BY <1>2, MailAssumption, Holds DEF Refuse, Attempt, Delivered, Failed, MailInv, TypeOK,
     MailType, Untouched
<1>3. ASSUME NEW m \in Mails, Elapse(m) PROVE Untouched
  BY <1>3 DEF Elapse, Untouched, MailInv, TypeOK, MailType
<1>4. ASSUME NEW u \in Users, Notify(u) \/ LinkAccount(u) PROVE Untouched
  BY <1>4, RoomForOne, NewIsBlank DEF Notify, LinkAccount, MailInv, TypeOK, MailType,
     Untouched
<1>5. ASSUME NEW a \in Admins, FinishReset(a) PROVE Untouched
  BY <1>5, NewIsBlank DEF FinishReset, AfterReset, Awaited, Untouched
<1>6. CASE \/ \E w \in Workers : Claim(w) \/ LockUser(w) \/ RolledBack(w) \/ Crash(w)
           \/ \E m \in Mails : CompleteSetup(m) \/ Expire(m)
           \/ \E u \in Users : Deactivate(u)
           \/ \E a \in Admins : TakeJob(a) \/ \E u \in Users : BeginReset(a, u)
           \/ \E w \in Workers, a \in Admins : BreakDeadlock(w, a)
  BY <1>1, <1>6 DEF Claim, LockUser, RolledBack, Crash, CompleteSetup, Expire, Deactivate,
                    TakeJob, BeginReset, BreakDeadlock
<1>7. CASE UNCHANGED vars
  BY <1>1, <1>7 DEF vars
<1>8. ASSUME NEW m \in Mails, RetryDelivery(m) PROVE Untouched
  BY <1>8, StartedOverIs DEF RetryDelivery, MailInv, TypeOK, MailType, Row, Untouched
<1> QED BY <1>2, <1>3, <1>4, <1>5, <1>6, <1>7, <1>8 DEF Next, Deliver

\* MailInv is an invariant of the specification.
LEMMA MailInvariance == Spec => []MailInv
<1>1. Init => MailInv
  BY MailStarts
<1>2. MailInv /\ [Next]_vars => MailInv'
  BY MailSteps
<1> QED BY <1>1, <1>2, PTL DEF Spec

\* Every row, lock and link keeps its shape and no mail is tried more than
\* MaxAttempts times (deliver_one, invalidate_account), for any number of each.
THEOREM TypeCorrect == Spec => []TypeOK
<1>1. MailInv => TypeOK
  BY DEF MailInv
<1> QED BY <1>1, MailInvariance, PTL

\* The mail server accepts a mail once and the queue says so, up to answers and
\* commits that are lost (deliver_one), for any number of workers.
THEOREM DeliveredOnce == Spec => []SentUnlessLost
<1>1. MailInv => SentUnlessLost
  BY DEF MailInv
<1> QED BY <1>1, MailInvariance, PTL

\* At most one setup link of a user works (deliver_one, invalidate_account,
\* complete_reset), for any number of resets and mails.
THEOREM NewestLinkOnly == Spec => []OneLiveLink
<1>1. MailInv => OneLiveLink
  BY DEF MailInv
<1> QED BY <1>1, MailInvariance, PTL

\* What was sent or cancelled is never written or sent again, and what was given up
\* only if the office starts over, whatever resets and workers do at the same time.
THEOREM SettledStays == Spec => SettledForGood
<1>1. MailInv /\ [Next]_vars =>
        [\A m \in Mails :
            /\ mail[m].status \in {"SENT", "CANCELLED"} => mail'[m] = mail[m]
            /\ mail[m].status = "FAILED" => mail'[m] = mail[m] \/ mail'[m].attempts = 0
            /\ mail[m].status \in {"SENT", "FAILED", "CANCELLED"} => sent'[m] = sent[m]]_vars
  BY StepUntouched DEF Untouched
<1> QED BY <1>1, MailInvariance, PTL DEF Spec, SettledForGood

-----------------------------------------------------------------------------
(* The way back in *)

\* Mail m is a way for user u to set a password: it waits, or its link was sent.
Way(u, m) ==
    /\ mail[m].kind = "SETUP" /\ mail[m].user = u
    /\ mail[m].status \in {"PENDING", "FAILED"} \/ link[m] \in {"live", "expired"}

\* A step that calls nobody back, and changes only links and mails of others, leaves
\* everybody the way there was.
LEMMA WayStays ==
    ASSUME WayBackIn, required' \subseteq required, active' \subseteq active,
           \A u \in required' \cap active', m \in Mails : Way(u, m) => Way(u, m)'
    PROVE  WayBackIn'
  BY DEF WayBackIn, Way

\* A new mail leaves the others alone, and is a way for its user if it is a setup.
LEMMA WayNew ==
    ASSUME MailInv, WayBackIn, NEW u \in Users, NEW k \in Kinds, New \in Mails,
           mail' = [mail EXCEPT ![New] = NewMail(u, k)], UNCHANGED <<link, required>>,
           active' = active \/ (active' = active \cup {u} /\ k = "SETUP")
    PROVE  WayBackIn'
  BY NewIsBlank DEF MailInv, TypeOK, MailType, WayBackIn, Way, NewMail

\* The steps of a worker take nobody's way: what it calls off had no use, and the links
\* it replaces it replaces by a newer one.
LEMMA WorkerWay ==
    ASSUME MailInv, WayBackIn, NEW w \in Workers, Deliver(w) \/ Crash(w)
    PROVE  WayBackIn'
<1>1. CASE Claim(w) \/ LockUser(w) \/ Attempt(w) \/ RolledBack(w) \/ Crash(w)
  BY <1>1 DEF Claim, LockUser, Attempt, RolledBack, Crash, WayBackIn
<1>2. ASSUME Refuse(w) \/ Delivered(w) \/ Failed(w)
      PROVE  /\ worker[w].job \in Mails /\ mail[worker[w].job] \in Row
             /\ mail[worker[w].job].status = "PENDING" /\ link[worker[w].job] = "none"
             /\ UNCHANGED <<active, required>>
             /\ \A m \in Mails : m # worker[w].job => mail'[m] = mail[m]
  BY <1>2, MailAssumption, Holds DEF Refuse, Delivered, Failed, MailInv, TypeOK, MailType
<1>3. CASE Refuse(w)
  BY <1>2, <1>3, WayStays DEF Refuse, Deliverable, Way
<1>4. CASE Failed(w)
  <2> PICK m \in Mails : m = worker[w].job
    BY <1>2, <1>4
  <2>1. mail'[m] = Retried(mail[m]) /\ UNCHANGED link
    BY <1>4 DEF Failed, MailInv, TypeOK, MailType
  <2>2. mail[m].attempts < MaxAttempts /\ mail[m] \in Row /\ mail[m].status = "PENDING"
    BY <1>2, <1>4 DEF MailInv, Rows
  <2>3. /\ mail'[m].user = mail[m].user /\ mail'[m].status \in {"PENDING", "FAILED"}
    BY <2>1, <2>2, RetriedIs
  <2>4. mail'[m].kind = mail[m].kind
    BY <2>1, <2>2 DEF Retried, Row
  <2>5. ASSUME NEW u \in required' \cap active', NEW n \in Mails, Way(u, n) PROVE Way(u, n)'
    BY <2>3, <2>4, <2>5, <1>2, <1>4, <2>1 DEF Way
  <2> QED BY <1>2, <1>4, <2>5, WayStays
<1>5. CASE Delivered(w)
  <2> PICK m \in Mails : m = worker[w].job
    BY <1>2, <1>5
  <2>1. /\ mail' = [mail EXCEPT ![m].status = "SENT"]
        /\ link' = IF mail[m].kind = "SETUP" THEN [UsedUp(mail[m].user) EXCEPT ![m] = "live"]
                   ELSE link
    BY <1>5 DEF Delivered
  <2>2. mail'[m].kind = mail[m].kind /\ mail'[m].user = mail[m].user
    BY <1>2, <1>5, <2>1 DEF MailInv, TypeOK, MailType, Row
  <2> SUFFICES ASSUME NEW u \in required \cap active PROVE \E n \in Mails : Way(u, n)'
    BY <1>2, <1>5 DEF WayBackIn, Way
  <2>3. PICK n \in Mails : Way(u, n)
    BY DEF WayBackIn, Way
  <2>4. CASE mail[m].kind = "SETUP" /\ mail[m].user = u
    BY <2>1, <2>4, <2>2 DEF UsedUp, Way
  <2>5. CASE ~(mail[m].kind = "SETUP" /\ mail[m].user = u)
    BY <1>2, <1>5, <2>3, <2>5, <2>1 DEF Way, UsedUp
  <2> QED BY <2>4, <2>5
<1> QED BY <1>1, <1>3, <1>4, <1>5 DEF Deliver

\* A reset calls off the mails and links of its user and makes a mail instead.
LEMMA ResetWay == ASSUME MailInv, WayBackIn, NEW a \in Admins, FinishReset(a) PROVE WayBackIn'
  BY NewIsBlank DEF FinishReset, AfterReset, WayBackIn, Way, NewMail, Awaited, UsedUp

\* Every step leaves everybody a way.
LEMMA NextWay == ASSUME MailInv, WayBackIn, [Next]_vars PROVE WayBackIn'
<1>1. ASSUME NEW w \in Workers, Deliver(w) \/ Crash(w) PROVE WayBackIn'
  BY <1>1, WorkerWay
<1>2. ASSUME NEW a \in Admins, FinishReset(a) PROVE WayBackIn'
  BY <1>2, ResetWay
<1>3. ASSUME NEW u \in Users, Notify(u) \/ LinkAccount(u) PROVE WayBackIn'
  BY <1>3, RoomForOne, WayNew DEF Notify, LinkAccount, MailInv, Kinds
<1>4. ASSUME NEW m \in Mails, CompleteSetup(m) PROVE WayBackIn'
  BY <1>4, WayStays DEF CompleteSetup, Way, MailInv, TypeOK
<1>5. ASSUME NEW m \in Mails, Expire(m) PROVE WayBackIn'
  BY <1>5, WayStays DEF Expire, MailInv, TypeOK, Way
<1>6. ASSUME NEW u \in Users, Deactivate(u) PROVE WayBackIn'
  BY <1>6, WayStays DEF Deactivate, Way
<1>7. ASSUME NEW m \in Mails, RetryDelivery(m) \/ Elapse(m) PROVE WayBackIn'
  <2>1. UNCHANGED <<link, active, required>>
    BY <1>7 DEF RetryDelivery, Elapse
  <2>2. /\ mail[m] \in Row /\ mail[m].status \in {"PENDING", "FAILED"}
        /\ \A n \in Mails : n # m => mail'[n] = mail[n]
        /\ mail'[m] = StartedOver(mail[m]) \/ mail'[m] = [mail[m] EXCEPT !.due = TRUE]
    BY <1>7 DEF RetryDelivery, Elapse, MailInv, TypeOK, MailType, Row
  <2>3. /\ mail'[m].kind = mail[m].kind /\ mail'[m].user = mail[m].user
        /\ mail'[m].status \in {"PENDING", "FAILED"}
    BY <2>2 DEF Row, StartedOver
  <2>4. ASSUME NEW u \in required' \cap active', NEW n \in Mails, Way(u, n) PROVE Way(u, n)'
    BY <2>1, <2>2, <2>3, <2>4 DEF Way
  <2> QED BY <2>1, <2>4, WayStays
<1>8. CASE \/ \E a \in Admins : TakeJob(a) \/ \E u \in Users : BeginReset(a, u)
           \/ \E w \in Workers, a \in Admins : BreakDeadlock(w, a)
           \/ UNCHANGED vars
  BY <1>8 DEF TakeJob, BeginReset, BreakDeadlock, vars, WayBackIn
<1> QED BY <1>1, <1>2, <1>3, <1>4, <1>5, <1>6, <1>7, <1>8 DEF Next

\* Whoever has to set a password and is active has a mail that waits, was given up and
\* can be retried, or brought a link (reset_account, deliver_one, link_account), for any
\* number of resets, workers and crashes.
THEOREM AlwaysAWayBackIn == Spec => []WayBackIn
<1>1. Init => WayBackIn
  BY DEF Init, WayBackIn
<1>2. WayBackIn /\ MailInv /\ [Next]_vars => WayBackIn'
  BY NextWay
<1> QED BY <1>1, <1>2, MailInvariance, PTL DEF Spec

-----------------------------------------------------------------------------
(* The schedules. *)

Every == Frequencies \cup {ONCE}

Note == [alert : Alerts, to : Recipients, period : Times, every : Every,
         edition : 0..MaxEdits]

Interval == [at : Times, every : Every, edition : 0..MaxEdits]

Update == [step : {"READ", "WRITE"}, every : Every, active : BOOLEAN,
                read : Schedules]

\* Whoever waits for the row or works on it has seen it saved.
Saved ==
    /\ \A s \in Schedulers : tick[s] # Never => schedule \in Schedules
    /\ \A e \in Editors : request[e] # NoRequest => schedule \in Schedules

\* A request at work holds the row; the bound leaves an update its edition.
Holders ==
    \A e \in Editors :
        /\ request[e].step \in {"WRITE", "RUNNING"} => lock = e
        /\ request[e].step = "WRITE" => edits < MaxEdits

\* The row remembers the latest interval of its edition, and how long it is.
Remembers ==
    \A b \in begun :
        /\ b.edition <= edits
        /\ b.edition = edits =>
              /\ schedule \in Schedules /\ schedule.last # Never
              /\ b.every = schedule.every
              /\ schedule.next = NextRun(schedule.last, schedule.every)
              /\ \/ b.at = schedule.last
                 \/ schedule.every # ONCE /\ b.at + schedule.every <= schedule.last

\* The interval the row is in has begun.
LastBegan ==
    schedule \in Schedules /\ schedule.last # Never =>
        \E b \in begun : b.at = schedule.last

AlertsInv ==
    /\ AlertsTypeOK /\ Saved /\ Holders
    /\ Remembers /\ LastBegan /\ IntervalsApart

-----------------------------------------------------------------------------

\* The invariant holds in the empty schedule table.
LEMMA AlertsStart == AlertsInit => AlertsInv
<1> SUFFICES ASSUME AlertsInit PROVE AlertsInv
  OBVIOUS
<1> USE AlertsAssumption
<1>1. AlertsTypeOK
  BY DEF AlertsInit, AlertsTypeOK, Unsaved, NoRequest, Never, Times
<1>2. Saved /\ Holders
  BY DEF AlertsInit, Saved, Holders, NoRequest
<1>3. Remembers /\ IntervalsApart
  BY DEF AlertsInit, Remembers, IntervalsApart
<1>4. schedule \notin Schedules
  BY DEF AlertsInit, Unsaved, Schedules
<1> QED BY <1>1, <1>2, <1>3, <1>4 DEF AlertsInv, LastBegan

\* A clock that is read does not read NULL.
LEMMA NowIsATime == ASSUME AlertsTypeOK PROVE Now \in Times /\ Now # Never
  BY AlertsAssumption DEF AlertsTypeOK, Now, Times, Never

\* A schedule that is due is saved.
LEMMA DueIsSaved ==
    ASSUME AlertsTypeOK, NEW now, Due(now) PROVE schedule \in Schedules
  BY DEF Unsaved, AlertsTypeOK, Due

\* An interval is as long as its frequency says, unless it is the only one.
LEMMA NextRunType ==
    ASSUME NEW now \in Times, NEW every \in Every
    PROVE  /\ NextRun(now, every) \in Nat
           /\ every # ONCE => /\ NextRun(now, every) = now + every
                              /\ every \in Nat /\ every > 0
                              /\ NextRun(now, every) # Never
  BY AlertsAssumption DEF Times, Every, ONCE, Never, NextRun

\* New notifications are of the interval that is given.
LEMMA EmitKeeps ==
    ASSUME AlertsTypeOK, schedule \in Schedules, NEW period \in Times
    PROVE  /\ Emit(period) \subseteq Note
           /\ \A n \in Emit(period) : n \in notes \/ n.period = period
<1> DEFINE known == {<<n.alert, n.to, n.period>> : n \in notes}
           fresh == {f \in matching \X reachable : <<f[1], f[2], period>> \notin known}
           new(f) == [alert |-> f[1], to |-> f[2], period |-> period,
                      every |-> schedule.every, edition |-> edits]
<1>1. notes \subseteq Note /\ matching \subseteq Alerts /\ reachable \subseteq Recipients
      /\ edits \in 0..MaxEdits
  BY DEF AlertsTypeOK, Note, Every
<1>2. schedule.every \in Every
  BY DEF Schedules, Every
<1>3. fresh \subseteq Alerts \X Recipients
  BY <1>1
<1> HIDE DEF fresh
<1>4. \A f \in fresh : new(f) \in Note /\ new(f).period = period
  BY <1>1, <1>2, <1>3 DEF Note
<1>5. Emit(period) = notes \cup {new(f) : f \in fresh}
  BY DEF Emit, fresh
<1> QED BY <1>1, <1>4, <1>5

-----------------------------------------------------------------------------

\* An interval begins when those of its edition have ended.
LEMMA EarlierEnded ==
    ASSUME AlertsInv, schedule \in Schedules, NEW now \in Times, ~InInterval(now),
           NEW b \in begun, b.edition = edits
    PROVE  /\ b.every = schedule.every /\ schedule.every # ONCE
           /\ b.at + b.every <= now
  BY NextRunType DEF AlertsInv, AlertsTypeOK, Schedules, Every, Remembers, InInterval, Times

\* evaluate keeps what the row and the intervals know of one another.
LEMMA EvaluateKeeps ==
    ASSUME AlertsInv, schedule \in Schedules, NEW now \in Times, now # Never,
           Evaluate(now), edits' = edits
    PROVE  /\ schedule' \in Schedules /\ notes' \subseteq Note /\ begun' \subseteq Interval
           /\ Remembers' /\ LastBegan' /\ IntervalsApart'
<1>1. /\ notes \subseteq Note /\ begun \subseteq Interval /\ edits \in 0..MaxEdits
      /\ schedule.every \in Every /\ schedule.last \in Times
  BY DEF AlertsInv, AlertsTypeOK, Note, Interval, Every, Schedules
<1>2. CASE UNCHANGED <<schedule, notes, begun>>
  BY <1>1, <1>2 DEF AlertsInv, Remembers, LastBegan, IntervalsApart
<1>3. CASE InInterval(now) /\ notes' = Emit(schedule.last) /\ UNCHANGED <<schedule, begun>>
  BY <1>3, <1>1, EmitKeeps DEF AlertsInv, LastBegan, InInterval, IntervalsApart, Remembers
<1>4. CASE /\ ~InInterval(now) /\ notes' = Emit(now)
           /\ schedule' = [schedule EXCEPT !.last = now,
                                           !.next = NextRun(now, schedule.every)]
           /\ begun' = begun \cup {[at |-> now, every |-> schedule.every,
                                    edition |-> edits]}
  <2> DEFINE new == [at |-> now, every |-> schedule.every, edition |-> edits]
  <2>1. notes' \subseteq Note /\ \A n \in notes' : n \in notes \/ n.period = now
    BY <1>1, <1>4, EmitKeeps DEF AlertsInv
  <2>2. NextRun(now, schedule.every) \in Nat
    BY <1>1, NextRunType
  <2>3. schedule' \in Schedules
    BY <1>1, <1>4, <2>2 DEF Schedules
  <2>4. /\ schedule'.last = now /\ schedule'.every = schedule.every
        /\ schedule'.next = NextRun(now, schedule.every)
    BY <1>4 DEF Schedules
  <2>5. /\ new \in Interval /\ new.at = now /\ new.every = schedule.every
        /\ new.edition = edits
    BY <1>1 DEF Interval
  <2> HIDE DEF new
  <2>6. begun' = begun \cup {new}
    BY <1>4 DEF new
  <2>7. \A b \in begun : b.edition = edits =>
            /\ b.every = schedule.every /\ schedule.every # ONCE
            /\ b.at + b.every <= now
    BY <1>4, EarlierEnded
  <2>8. Remembers'
    BY <2>3, <2>4, <1>1, <2>5, <2>7, <2>6 DEF Remembers, AlertsInv
  <2>9. LastBegan'
    BY <2>4, <2>5, <2>6 DEF LastBegan
  <2>10. IntervalsApart'
    BY <2>5, <2>7, <2>6, <2>1 DEF AlertsInv, IntervalsApart
  <2> QED BY <1>1, <2>1, <2>3, <2>5, <2>6, <2>8, <2>9, <2>10
<1> QED BY <1>2, <1>3, <1>4 DEF Evaluate

-----------------------------------------------------------------------------
(* One lemma per kind of step. *)

\* What only the row, its notifications and its intervals are about.
RowKept == Remembers /\ LastBegan /\ IntervalsApart

\* Steps that leave rows, locks and views alone keep the invariant.
LEMMA KeptUnchanged ==
    ASSUME AlertsInv, UNCHANGED <<schedule, notes, begun, edits>> PROVE RowKept'
  BY DEF AlertsInv, RowKept, Remembers, LastBegan, IntervalsApart

\* The actions of the scheduler and the editors are the steps of the specification.
LEMMA Steps ==
    /\ NoRequest.step = "NONE" /\ Called.step = "CALLED" /\ Running.step = "RUNNING"
    /\ NoRequest # Called /\ NoRequest # Running /\ Called # Running
    /\ \A r \in Update : r.step \in {"READ", "WRITE"}
  BY DEF NoRequest, Called, Running, Update

\* The steps of BeginTick keep the invariant.
LEMMA BeginTickKeeps == ASSUME AlertsInv, NEW s \in Schedulers, BeginTick(s) PROVE AlertsInv'
<1>1. Now \in Times /\ Now # Never
  BY NowIsATime DEF AlertsInv
<1>2. Due(Now) => schedule \in Schedules
  BY DueIsSaved DEF AlertsInv
<1>3. /\ tick' = [tick EXCEPT ![s] = IF Due(Now) THEN Now ELSE Never]
      /\ tick[s] = Never /\ Never \in Times
  BY AlertsAssumption DEF BeginTick, Never, Times
<1> HIDE DEF Due, Now
<1>4. AlertsTypeOK'
  BY <1>1, <1>3, AlertsAssumption DEF AlertsInv, AlertsTypeOK, BeginTick
<1>5. Saved' /\ Holders'
  BY <1>2, <1>3 DEF AlertsInv, AlertsTypeOK, Saved, Holders, BeginTick
<1> QED BY <1>4, <1>5, KeptUnchanged DEF AlertsInv, RowKept, BeginTick

\* The steps of LockDue keep the invariant.
LEMMA LockDueKeeps == ASSUME AlertsInv, NEW s \in Schedulers, LockDue(s) PROVE AlertsInv'
  BY AlertsAssumption, KeptUnchanged DEF Never, Times, AlertsInv, AlertsTypeOK, LockDue,
     Saved, Holders, RowKept

\* The steps of RunDue keep the invariant.
LEMMA RunDueKeeps == ASSUME AlertsInv, NEW s \in Schedulers, RunDue(s) PROVE AlertsInv'
<1>1. tick[s] \in Times /\ tick[s] # Never /\ Never \in Times
  BY AlertsAssumption DEF AlertsInv, AlertsTypeOK, RunDue, Never, Times
<1>2. schedule \in Schedules
  BY <1>1 DEF AlertsInv, Saved
<1>3. /\ schedule' \in Schedules /\ notes' \subseteq Note /\ begun' \subseteq Interval
      /\ RowKept'
  BY <1>1, <1>2, EvaluateKeeps DEF RunDue, RowKept
<1>4. AlertsTypeOK'
  BY <1>1, <1>3, AlertsAssumption DEF AlertsInv, RunDue, AlertsTypeOK, Note, Interval, Every
<1>5. Saved' /\ Holders'
  BY <1>1, <1>3, AlertsAssumption DEF AlertsInv, AlertsTypeOK, Saved, Holders, RunDue
<1> QED BY <1>3, <1>4, <1>5 DEF AlertsInv, RowKept

\* The steps of FinishRun keep the invariant.
LEMMA FinishRunKeeps == ASSUME AlertsInv, NEW e \in Editors, FinishRun(e) PROVE AlertsInv'
<1>1. Now \in Times /\ Now # Never
  BY NowIsATime DEF AlertsInv
<1>2. schedule \in Schedules
  BY Steps DEF AlertsInv, Saved, FinishRun
<1>3. /\ schedule' \in Schedules /\ notes' \subseteq Note /\ begun' \subseteq Interval
      /\ RowKept'
  BY <1>1, <1>2, EvaluateKeeps DEF FinishRun, RowKept
<1>4. AlertsTypeOK'
  BY <1>1, <1>3, AlertsAssumption DEF AlertsInv, FinishRun, AlertsTypeOK, Note, Interval, Every
<1>5. Saved' /\ Holders'
  BY Steps, <1>3 DEF AlertsInv, AlertsTypeOK, Holders, FinishRun, Saved
<1> QED BY <1>3, <1>4, <1>5 DEF AlertsInv, RowKept

\* The steps of Create keep the invariant.
LEMMA CreateKeeps ==
    ASSUME AlertsInv, NEW e \in Editors, NEW every \in Every, NEW on \in BOOLEAN,
           CreateSchedule(e, every, on)
    PROVE  AlertsInv'
<1>1. Unsaved \notin Schedules
  BY DEF Unsaved, Schedules
<1>2. schedule' \in Schedules /\ schedule'.last = Never
  BY AlertsAssumption DEF CreateSchedule, Schedules, Every, Never, Times
<1>3. begun = {} \/ \A b \in begun : b.edition # edits
  BY <1>1 DEF AlertsInv, Remembers, CreateSchedule
<1>4. AlertsTypeOK'
  BY <1>2, Steps, AlertsAssumption DEF AlertsInv, AlertsTypeOK, CreateSchedule
<1>5. Saved' /\ Holders'
  BY <1>2, Steps, AlertsAssumption DEF AlertsInv, AlertsTypeOK, Saved, Holders, CreateSchedule
<1>6. Remembers' /\ LastBegan' /\ IntervalsApart'
  BY <1>2, <1>3 DEF AlertsInv, Remembers, LastBegan, IntervalsApart, CreateSchedule
<1> QED BY <1>4, <1>5, <1>6 DEF AlertsInv

\* The steps of Read keep the invariant.
LEMMA ReadKeeps ==
    ASSUME AlertsInv, NEW e \in Editors, NEW every \in Every, NEW on \in BOOLEAN,
           ReadSchedule(e, every, on)
    PROVE  AlertsInv'
<1> DEFINE new == [step |-> "READ", every |-> every, active |-> on, read |-> schedule]
<1>1. schedule \in Schedules
  BY DEF AlertsInv, AlertsTypeOK, ReadSchedule, Unsaved
<1>2. new \in Update /\ new.step = "READ"
  BY <1>1 DEF Update
<1>3. request' = [request EXCEPT ![e] = new]
  BY DEF ReadSchedule
<1> HIDE DEF new
<1>4. lock # e
  BY Steps DEF AlertsInv, AlertsTypeOK, ReadSchedule
<1>5. AlertsTypeOK'
  BY <1>2, <1>3, <1>4, AlertsAssumption DEF AlertsInv, AlertsTypeOK, ReadSchedule, Update, Every
<1>6. Saved' /\ Holders'
  BY <1>1, <1>2, <1>3, <1>4 DEF AlertsInv, AlertsTypeOK, Saved, Holders, ReadSchedule
<1> QED BY <1>5, <1>6, KeptUnchanged DEF AlertsInv, RowKept, ReadSchedule

\* The steps of LockUpdate keep the invariant.
LEMMA LockUpdateKeeps == ASSUME AlertsInv, NEW e \in Editors, LockUpdate(e) PROVE AlertsInv'
<1>1. request[e] \in Update /\ schedule \in Schedules
  BY Steps DEF AlertsInv, AlertsTypeOK, Saved, LockUpdate, Update, Every
<1>2. \A x \in Editors : ~(request[x].step \in {"WRITE", "RUNNING"})
  BY AlertsAssumption DEF AlertsInv, Holders, LockUpdate
<1>3. CASE /\ edits < MaxEdits /\ lock' = e
           /\ request' = [request EXCEPT ![e].step = "WRITE"]
  <2> DEFINE new == [request[e] EXCEPT !.step = "WRITE"]
  <2>1. new \in Update /\ new.step = "WRITE"
    BY <1>1 DEF Update
  <2>2. request' = [request EXCEPT ![e] = new]
    BY <1>3
  <2> HIDE DEF new
  <2>3. AlertsTypeOK'
    BY <1>1, <1>3, <2>1, <2>2, AlertsAssumption
       DEF AlertsInv, AlertsTypeOK, LockUpdate, Update, Every
  <2>4. Saved' /\ Holders'
    BY <1>1, <1>2, <1>3, <2>1, <2>2 DEF AlertsInv, AlertsTypeOK, Saved, Holders, LockUpdate
  <2> QED BY <2>3, <2>4, KeptUnchanged DEF AlertsInv, RowKept, LockUpdate
<1>4. CASE request' = [request EXCEPT ![e] = NoRequest] /\ UNCHANGED lock
  BY <1>4, AlertsAssumption, <1>2, Steps, KeptUnchanged DEF AlertsInv, AlertsTypeOK,
     LockUpdate, Saved, Holders, RowKept
<1> QED BY <1>3, <1>4 DEF LockUpdate

\* The steps of Commit keep the invariant.
LEMMA CommitKeeps == ASSUME AlertsInv, NEW e \in Editors, CommitUpdate(e) PROVE AlertsInv'
<1>1. request[e] \in Update /\ schedule \in Schedules
  BY Steps DEF AlertsInv, AlertsTypeOK, Saved, CommitUpdate, Update, Every
<1>2. edits < MaxEdits /\ edits \in 0..MaxEdits
  BY DEF AlertsInv, AlertsTypeOK, Holders, CommitUpdate
<1>3. \A x \in Editors \ {e} : ~(request[x].step \in {"WRITE", "RUNNING"})
  BY DEF AlertsInv, Holders, CommitUpdate
<1> DEFINE r == request[e]
           every == IF r.every # r.read.every THEN r.every ELSE schedule.every
           on == IF r.active # r.read.active THEN r.active ELSE schedule.active
           last == IF r.read.last # Never THEN Never ELSE schedule.last
           next == IF r.read.next # Never THEN Never ELSE schedule.next
<1>4. r.every \in Every /\ r.active \in BOOLEAN
  BY <1>1 DEF Update
<1>5. /\ schedule.every \in Every /\ schedule.active \in BOOLEAN
      /\ schedule.last \in Times /\ schedule.next \in Nat
  BY <1>1 DEF Schedules, Every
<1>6. every \in Every /\ on \in BOOLEAN /\ last \in Times /\ next \in Nat
  BY <1>4, <1>5, AlertsAssumption DEF Never, Times
<1>7. schedule' = [schedule EXCEPT !.every = every, !.active = on,
                                   !.last = last, !.next = next]
  BY DEF CommitUpdate, Written
<1>8. last = Never \/ last = schedule.last
  OBVIOUS
<1> HIDE DEF every, on, last, next
<1>9. schedule' \in Schedules /\ schedule'.last = last
  BY <1>1, <1>6, <1>7 DEF Schedules, Every
<1>10. AlertsTypeOK'
  BY <1>2, <1>9, AlertsAssumption DEF AlertsInv, AlertsTypeOK, CommitUpdate
<1>11. Saved' /\ Holders'
  BY <1>3, <1>9, Steps DEF AlertsInv, AlertsTypeOK, Saved, Holders, CommitUpdate
<1>12. Remembers' /\ IntervalsApart'
  BY <1>2 DEF AlertsInv, AlertsTypeOK, Remembers, CommitUpdate, IntervalsApart
<1>13. LastBegan'
  BY <1>1, <1>8, <1>9 DEF AlertsInv, LastBegan, CommitUpdate
<1> QED BY <1>10, <1>11, <1>12, <1>13 DEF AlertsInv

\* The steps of RunNow keep the invariant.
LEMMA RunNowKeeps == ASSUME AlertsInv, NEW e \in Editors, RunNow(e) PROVE AlertsInv'
  BY Steps, AlertsAssumption, KeptUnchanged DEF AlertsInv, AlertsTypeOK, RunNow, Unsaved,
     Saved, Holders, RowKept

\* The steps of LockToRun keep the invariant.
LEMMA LockToRunKeeps == ASSUME AlertsInv, NEW e \in Editors, LockToRun(e) PROVE AlertsInv'
  BY AlertsAssumption, Steps, KeptUnchanged DEF AlertsInv, Holders, LockToRun, Saved,
     AlertsTypeOK, RowKept

\* The steps of Delete keep the invariant.
LEMMA DeleteKeeps == ASSUME AlertsInv, DeleteSchedule PROVE AlertsInv'
  BY DEF AlertsInv, AlertsTypeOK, DeleteSchedule, Unsaved, Schedules, Saved, Holders,
     Remembers, LastBegan, IntervalsApart, NextRun

\* The steps of Change keep the invariant.
LEMMA ChangeKeeps == ASSUME AlertsInv, Change PROVE AlertsInv'
  BY KeptUnchanged DEF AlertsInv, AlertsTypeOK, Change, Saved, Holders, RowKept

\* The steps of Dies keep the invariant.
LEMMA DiesKeeps ==
    ASSUME AlertsInv, NEW p \in Schedulers \cup Editors, ProcessDies(p) PROVE AlertsInv'
  BY AlertsAssumption, KeptUnchanged, Steps DEF AlertsInv, AlertsTypeOK, ProcessDies, Never,
     Times, Saved, Holders, RowKept

\* Every step keeps the invariant.
LEMMA AlertsSteps == ASSUME AlertsInv, [AlertsNext]_alertsVars PROVE AlertsInv'
<1>1. CASE UNCHANGED alertsVars
  BY <1>1 DEF alertsVars, AlertsInv, AlertsTypeOK, Saved, Holders, Remembers, LastBegan,
              IntervalsApart
<1>2. ASSUME NEW s \in Schedulers, SchedulerStep(s) PROVE AlertsInv'
  BY <1>2, BeginTickKeeps, LockDueKeeps, RunDueKeeps DEF SchedulerStep
<1>3. ASSUME NEW e \in Editors, EditorStep(e) PROVE AlertsInv'
  BY <1>3, CreateKeeps, ReadKeeps, LockUpdateKeeps, CommitKeeps, RunNowKeeps,
     LockToRunKeeps, FinishRunKeeps DEF EditorStep, Every
<1> QED BY <1>1, <1>2, <1>3, DeleteKeeps, ChangeKeeps, DiesKeeps DEF AlertsNext

\* It is an invariant of the specification.
LEMMA AlertsInvariance == AlertsSpec => []AlertsInv
  BY AlertsStart, AlertsSteps, PTL DEF AlertsSpec

-----------------------------------------------------------------------------

\* The row, its lock, the ticks and the requests keep their shape, in whatever
\* order the schedulers and the office lock, write and die.
THEOREM AlertsTypeCorrect == AlertsSpec => []AlertsTypeOK
<1>1. AlertsInv => AlertsTypeOK
  BY DEF AlertsInv
<1> QED BY <1>1, AlertsInvariance, PTL

\* Between two updates the intervals that evaluate begins do not overlap, for
\* any number of schedulers and requests, and a notification names one of them.
THEOREM IntervalsStayApart == AlertsSpec => []IntervalsApart
<1>1. AlertsInv => IntervalsApart
  BY DEF AlertsInv
<1> QED BY <1>1, AlertsInvariance, PTL

-----------------------------------------------------------------------------
(* The library. *)

LibraryRow ==
    [there : BOOLEAN, path : 0..saved, of : 0..saved,
     status : {"NONE", "PENDING", "PROCESSING"} \cup Settled]

Entered == {d \in Docs : lib[d].there}

\* The rows of the handlers and of the library: no two name the same file.
LibraryRows ==
    /\ kind \in [Docs -> UploadKinds]
    /\ saved \in 1..MaxFiles
    /\ column \in [Docs -> 0..saved]
    /\ lib \in [Docs -> LibraryRow]
    /\ born \in Seq(Docs)
    /\ \A d \in Docs : lib[d].there <=> \E n \in DOMAIN born : born[n] = d
    /\ IsFiniteSet(Entered) /\ Len(born) = Cardinality(Entered)
    /\ \A d \in Docs :
          lib[d].there => lib[d].path = column[d] /\ kind[d].first.listed # "NONE"
    /\ \A c, d \in Docs : c # d /\ column[c] # NoFile => column[c] # column[d]

\* An upload under way: the files it names are its document's alone; what it has
\* still to remove is no longer named, and what it may remove although it is named
\* belongs to a document without such a promise.
UnderWay(r) ==
    LET u == upload[r]
    IN /\ u = [step |-> u.step, doc |-> u.doc, by |-> u.by, new |-> u.new, old |-> u.old]
       /\ u.step \in {"SAVED", "CLEARED", "OLD", "ANSWER"}
       /\ u.doc \in Docs /\ u.by \in {kind[u.doc].first, kind[u.doc].again}
       /\ u.new \in 1..saved /\ u.old \in 0..saved /\ u.old # u.new
       /\ \A c \in Docs \ {u.doc} :
             column[c] # NoFile => column[c] # u.new /\ column[c] # u.old
       /\ u.step = "OLD" => u.old # column[u.doc]
       /\ u.step = "ANSWER" => u.by.answers

\* A file that is saved and not named yet: it is in storage, and nothing and nobody
\* else knows it.
Unnamed(r) ==
    upload[r].step \in {"SAVED", "CLEARED"} =>
        /\ upload[r].new \in files
        /\ \A d \in Docs : column[d] # upload[r].new
        /\ \A q \in Requests \ {r} :
              upload[q] # Waiting => upload[q].new # upload[r].new /\ upload[q].old # upload[r].new

Named == \A d \in Docs : column[d] # NoFile /\ Careful(d) => column[d] \in files

Uploads ==
    /\ files \subseteq 1..saved
    /\ upload = [r \in Requests |-> upload[r]]
    /\ \A r \in Requests : upload[r] = Waiting \/ UnderWay(r)
    /\ \A r \in Requests : Unnamed(r)

Claimed == [doc : Docs, path : 0..saved, found : {"NONE"} \cup Settled]
Readers == holding \in [Indexers -> Claimed \cup {Free}]

LInv == LibraryRows /\ Uploads /\ Named /\ Readers

\* The files of the first rows are there, and nobody is uploading.
LEMMA LibraryStarts == LibraryInit => LInv
<1> SUFFICES ASSUME LibraryInit PROVE LInv
  OBVIOUS
<1>1. 1 \in 1..MaxFiles /\ saved = 1 /\ 0 \in 0..saved /\ 1 \in 0..saved
  BY LibraryAssumption DEF LibraryInit, LibraryAssumption
<1>2. Unlisted \in LibraryRow
  BY <1>1 DEF Unlisted, LibraryRow, NoFile
<1>3. Entered = {}
  BY DEF Entered, LibraryInit, Unlisted
<1>4. IsFiniteSet(Entered) /\ Len(born) = Cardinality(Entered)
  BY <1>3, FS_EmptySet DEF LibraryInit
<1>5. LibraryRows
  BY <1>1, <1>2, <1>4 DEF LibraryRows, LibraryInit, NoFile, Unlisted
<1>6. Uploads
  BY <1>1 DEF Uploads, LibraryInit, Unnamed, Waiting
<1>7. Named
  BY DEF Named, LibraryInit
<1>8. Readers
  BY DEF Readers, LibraryInit
<1> QED BY <1>5, <1>6, <1>7, <1>8 DEF LInv

\* Whoever uploads to a document with a promise keeps it.
LEMMA KindsAreCareful ==
    ASSUME NEW k \in UploadKinds, k.first.old # "BEFORE", ~k.first.answers,
           NEW by \in {k.first, k.again}
    PROVE  by.old # "BEFORE" /\ ~by.answers
  BY DEF Once, Refused, Saves, Replaced, NewReport, EditedReport, UploadKinds

\* A request that counts on the file of its row neither removes the old one first nor
\* the new one behind the commit.
LEMMA KeepsPromise ==
    ASSUME LInv, NEW r \in Requests, upload[r] # Waiting, Careful(upload[r].doc)
    PROVE  upload[r].by.old # "BEFORE" /\ ~upload[r].by.answers
  BY KindsAreCareful DEF LInv, Uploads, UnderWay, LibraryRows, Careful

\* Rows that stay, and with them what is said of them.
LEMMA RowsStay ==
    ASSUME LibraryRows, UNCHANGED rowVars, saved' = saved
    PROVE  LibraryRows'
  BY DEF LibraryRows, rowVars, Entered, LibraryRow

\* A request of which a step changes nothing goes on.
LEMMA UnderStays ==
    ASSUME NEW r \in Requests, UnderWay(r), UNCHANGED rowVars, saved' = saved,
           upload'[r] = upload[r]
    PROVE  UnderWay(r)'
  BY DEF UnderWay, rowVars

\* An upload ends, or goes on to the commit, and takes from storage no file that it
\* or another upload is to name, nor one that a document with a promise names.
LEMMA UploadTurns ==
    ASSUME LInv, NEW r \in Requests, NEW v, upload' = [upload EXCEPT ![r] = v],
           UNCHANGED <<saved, rowVars, workerVars>>, files' \subseteq files,
           \A q \in Requests \ {r} :
               upload[q].step \in {"SAVED", "CLEARED"} => upload[q].new \in files',
           \A d \in Docs : column[d] # NoFile /\ Careful(d) => column[d] \in files',
           \/ v = Waiting
           \/ /\ v = [upload[r] EXCEPT !.step = "CLEARED"] /\ upload[r].step = "SAVED"
              /\ upload[r].new \in files'
    PROVE  LInv'
<1>1. LibraryRows'
  BY RowsStay DEF LInv
<1>2. /\ upload' = [q \in Requests |-> upload'[q]] /\ upload'[r] = v
      /\ \A q \in Requests \ {r} : upload'[q] = upload[q]
  BY DEF LInv, Uploads
<1>3. v = Waiting \/ (/\ UnderWay(r)' /\ v.new = upload[r].new /\ v.old = upload[r].old
                      /\ upload[r].step = "SAVED" /\ upload[r].new \in files')
  BY <1>2 DEF LInv, Uploads, Waiting, UnderWay, rowVars
<1>4. \A q \in Requests : upload'[q] = Waiting \/ UnderWay(q)'
  BY <1>2, UnderStays, <1>3 DEF LInv, Uploads
<1>5. column' = column /\ kind' = kind
  BY DEF rowVars
<1>6. ASSUME NEW q \in Requests
      PROVE  Unnamed(q)'
  BY <1>2, <1>3, <1>5 DEF LInv, Uploads, Unnamed, Waiting
<1>7. Uploads'
  BY <1>2, <1>4, <1>6 DEF LInv, Uploads
<1>8. Named'
  BY <1>5 DEF Named, Careful
<1>9. Readers'
  BY DEF LInv, Readers, Claimed, workerVars
<1> QED BY <1>1, <1>7, <1>8, <1>9 DEF LInv

\* An upload goes on, ends, fails or is lost.
LEMMA TurnsKeep ==
    ASSUME LInv, NEW r \in Requests,
           \/ DropFirst(r) \/ DropOld(r) \/ Answer(r)
           \/ FailUpload(r) \/ FailAnswer(r) \/ LoseUpload(r)
    PROVE  LInv'
<1>1. upload[r] # Waiting /\ UnderWay(r)
  BY DEF DropFirst, DropOld, Answer, FailUpload, FailAnswer, LoseUpload, Waiting, LInv, Uploads
<1>2. PICK u : u = upload[r]
  OBVIOUS
<1>3. ASSUME NEW q \in Requests \ {r}, upload[q].step \in {"SAVED", "CLEARED"}
      PROVE  upload[q].new \in files /\ upload[q].new # u.new /\ upload[q].new # u.old
  BY <1>1, <1>2, <1>3 DEF LInv, Uploads, Unnamed
<1>4. \A d \in Docs : column[d] # NoFile /\ Careful(d) => column[d] \in files
  BY DEF LInv, Named
<1>5. CASE files' = files /\ upload' = [upload EXCEPT ![r] = Waiting]
           /\ UNCHANGED <<saved, rowVars, workerVars>>
  BY <1>3, <1>4, <1>5, UploadTurns
<1>6. CASE DropFirst(r)
  <2>1. /\ files' = files \ {u.old} /\ u.step = "SAVED" /\ u.by.old = "BEFORE"
        /\ upload' = [upload EXCEPT ![r] = [u EXCEPT !.step = "CLEARED"]]
    BY <1>2, <1>6 DEF DropFirst
  <2>2. u.new \in files /\ u.new # u.old
    BY <1>1, <1>2, <2>1 DEF LInv, Uploads, Unnamed, UnderWay
  <2>3. ASSUME NEW d \in Docs, column[d] # NoFile, Careful(d)
        PROVE  column[d] # u.old
    BY <1>1, <1>2, <2>1, <2>3, KeepsPromise DEF UnderWay
  <2>4. UNCHANGED <<saved, rowVars, workerVars>>
    BY <1>6 DEF DropFirst
  <2> QED BY <1>2, <1>3, <1>4, <2>1, <2>2, <2>3, <2>4, UploadTurns
<1>7. CASE DropOld(r)
  BY <1>2, <1>7, <1>1, <1>3, <1>4, UploadTurns DEF DropOld, UnderWay
<1>8. CASE FailUpload(r)
  BY <1>2, <1>8, <1>3, <1>4, UploadTurns DEF FailUpload, LInv, Uploads, Unnamed
<1>9. CASE FailAnswer(r)
  BY <1>2, <1>9, <1>1, KeepsPromise, <1>3, <1>4, UploadTurns DEF FailAnswer, UnderWay
<1> QED BY <1>5, <1>6, <1>7, <1>8, <1>9 DEF Answer, LoseUpload

\* A file is saved under a name that is new.
LEMMA SaveKeeps ==
    ASSUME LInv, NEW r \in Requests, NEW d \in Docs, SaveFile(r, d)
    PROVE  LInv'
<1>1. /\ upload[r] = Waiting /\ saved < MaxFiles /\ saved' = saved + 1
      /\ files' = files \cup {saved'}
      /\ upload' = [upload EXCEPT ![r] = [step |-> "SAVED", doc |-> d, by |-> Handler(d),
                                         new |-> saved', old |-> column[d]]]
      /\ kind' = kind /\ column' = column /\ lib' = lib /\ born' = born /\ holding' = holding
  BY DEF SaveFile, rowVars, workerVars
<1>2. /\ saved \in Nat /\ saved' \in Nat /\ saved' \in 1..MaxFiles /\ saved' > saved
      /\ \A n \in 0..saved : n \in 0..saved' /\ n # saved'
      /\ \A n \in 1..saved : n \in 1..saved' /\ n # saved'
      /\ saved' \in 1..saved'
  BY <1>1, LibraryAssumption DEF LInv, LibraryRows, LibraryAssumption
<1>3. /\ upload' = [q \in Requests |-> upload'[q]]
      /\ \A q \in Requests \ {r} : upload'[q] = upload[q]
      /\ \A c \in Docs : column[c] \in 0..saved
  BY <1>1 DEF LInv, Uploads, LibraryRows
<1>4. PICK u : u = upload'[r]
  OBVIOUS
<1>5. /\ u = [step |-> "SAVED", doc |-> d, by |-> Handler(d), new |-> saved', old |-> column[d]]
      /\ Handler(d) \in {kind[d].first, kind[d].again}
  BY <1>1, <1>4 DEF LInv, Uploads, Handler
<1>6. LibraryRows'
  <2>1. LibraryRow \subseteq LibraryRow'
    BY <1>2 DEF LibraryRow
  <2>2. lib' \in [Docs -> LibraryRow']
    BY <1>1, <2>1 DEF LInv, LibraryRows
  <2>3. column' \in [Docs -> 0..saved']
    BY <1>1, <1>2 DEF LInv, LibraryRows
  <2>4. Entered' = Entered
    BY <1>1 DEF Entered
  <2> QED BY <1>1, <1>2, <2>2, <2>3, <2>4 DEF LInv, LibraryRows
<1>7. UnderWay(r)'
  BY <1>2, <1>3, <1>1, <1>4, <1>5 DEF LInv, LibraryRows, UnderWay
<1>8. ASSUME NEW q \in Requests, q # r, UnderWay(q)
      PROVE  UnderWay(q)' /\ upload[q].new # saved' /\ upload[q].old # saved'
  BY <1>2, <1>8, <1>1, <1>3 DEF UnderWay
<1>9. \A q \in Requests : upload'[q] = Waiting \/ UnderWay(q)'
  BY <1>3, <1>7, <1>8 DEF LInv, Uploads
<1>10. files' \subseteq 1..saved'
  BY <1>1, <1>2 DEF LInv, Uploads
<1>11. Unnamed(r)'
  BY <1>3, <1>8, <1>2, <1>1, <1>4, <1>5 DEF LInv, Uploads, Unnamed
<1>12. ASSUME NEW q \in Requests, q # r
       PROVE  Unnamed(q)'
  BY <1>12, <1>8, <1>1, <1>5, <1>3, <1>4 DEF Waiting, LInv, Uploads, Unnamed
<1>13. Uploads'
  BY <1>3, <1>9, <1>10, <1>11, <1>12 DEF Uploads
<1>14. Named'
  BY <1>1 DEF LInv, Named, Careful
<1>15. Readers'
  BY <1>2, <1>1 DEF Claimed, LInv, Readers
<1> QED BY <1>6, <1>13, <1>14, <1>15 DEF LInv

\* A row of the library is filled with the file its document names.
LEMMA Registers ==
    ASSUME LibraryRows, NEW d \in Docs, NEW path \in 1..saved,
           kind' = kind, saved' = saved, column' = [column EXCEPT ![d] = path],
           lib' = [lib EXCEPT ![d] = Registered(d, path)], born' = Listed(d),
           \A c \in Docs \ {d} : column[c] # path
    PROVE  LibraryRows'
<1>1. PICK row : row = Registered(d, path)
  OBVIOUS
<1>2. /\ lib[d] \in LibraryRow /\ path \in 0..saved /\ NoFile \in 0..saved /\ path # NoFile
      /\ 0..saved \subseteq Nat
  BY DEF LibraryRows, NoFile
<1>3. /\ row \in LibraryRow /\ (row.there <=> lib[d].there \/ kind[d].first.listed # "NONE")
      /\ row.there => row.path = path /\ kind[d].first.listed # "NONE"
  BY <1>1, <1>2 DEF Registered, LibraryRows, LibraryRow
<1>4. /\ lib'[d] = row /\ \A c \in Docs \ {d} : lib'[c] = lib[c]
      /\ lib' \in [Docs -> LibraryRow] /\ LibraryRow' = LibraryRow
  BY <1>1, <1>3 DEF LibraryRows, LibraryRow
<1>5. /\ column'[d] = path /\ \A c \in Docs \ {d} : column'[c] = column[c]
      /\ column' \in [Docs -> 0..saved]
  BY <1>2 DEF LibraryRows
<1>6. \A c \in Docs : lib'[c].there => lib'[c].path = column'[c] /\ kind[c].first.listed # "NONE"
  BY <1>3, <1>4, <1>5 DEF LibraryRows
<1>7. \A c, e \in Docs : c # e /\ column'[c] # NoFile => column'[c] # column'[e]
  BY <1>2, <1>5 DEF LibraryRows
<1>8. /\ born' \in Seq(Docs)
      /\ \A c \in Docs : lib'[c].there <=> \E n \in DOMAIN born' : born'[n] = c
      /\ IsFiniteSet(Entered') /\ Len(born') = Cardinality(Entered')
  <2>1. CASE lib[d].there \/ kind[d].first.listed = "NONE"
    <3>1. born' = born
      BY <2>1 DEF Listed
    <3>2. \A c \in Docs : lib'[c].there <=> lib[c].there
      BY <1>3, <1>4, <2>1 DEF LibraryRows
    <3>3. Entered' = Entered
      BY <3>2 DEF Entered
    <3> QED BY <3>1, <3>2, <3>3 DEF LibraryRows
  <2>2. CASE ~(lib[d].there \/ kind[d].first.listed = "NONE")
    <3>1. born' = Append(born, d) /\ lib'[d].there
      BY <1>3, <1>4, <2>2 DEF Listed
    <3>2. /\ born \in Seq(Docs) /\ IsFiniteSet(Entered) /\ Len(born) = Cardinality(Entered)
          /\ \A c \in Docs : lib[c].there <=> \E n \in DOMAIN born : born[n] = c
      BY DEF LibraryRows
    <3>3. /\ born' \in Seq(Docs) /\ Len(born') = Len(born) + 1
          /\ born'[Len(born) + 1] = d /\ \A n \in 1..Len(born) : born'[n] = born[n]
          /\ DOMAIN born = 1..Len(born) /\ DOMAIN born' = 1..(Len(born) + 1)
          /\ Len(born) \in Nat
      BY <3>1, <3>2
    <3>4. Entered' = Entered \cup {d} /\ d \notin Entered
      BY <1>4, <2>2, <3>1 DEF Entered
    <3>5. IsFiniteSet(Entered') /\ Cardinality(Entered') = Cardinality(Entered) + 1
      BY <3>2, <3>4, FS_AddElement
    <3>6. ASSUME NEW c \in Docs
          PROVE  lib'[c].there <=> \E n \in DOMAIN born' : born'[n] = c
      <4>1. CASE c = d
        BY <3>3, <3>1, <4>1
      <4>2. CASE c # d
        <5>1. lib'[c].there <=> \E n \in DOMAIN born : born[n] = c
          BY <1>4, <3>2, <4>2
        <5>2. (\E n \in DOMAIN born' : born'[n] = c) <=> \E n \in DOMAIN born : born[n] = c
          BY <3>3, <4>2
        <5> QED BY <5>1, <5>2
      <4> QED BY <4>1, <4>2
    <3> QED BY <3>2, <3>3, <3>5, <3>6
  <2> QED BY <2>1, <2>2
<1> QED BY <1>4, <1>5, <1>6, <1>7, <1>8 DEF LibraryRows

\* The commit names the new file, which nothing else does.
LEMMA CommitKeepsFiles ==
    ASSUME LInv, NEW r \in Requests, CommitUpload(r)
    PROVE  LInv'
<1>1. PICK u, d, v : u = upload[r] /\ d = u.doc /\ v = upload'[r]
  OBVIOUS
<1>2. /\ u.step \in {"SAVED", "CLEARED"}
      /\ column' = [column EXCEPT ![d] = u.new]
      /\ lib' = [lib EXCEPT ![d] = Registered(d, u.new)] /\ born' = Listed(d)
      /\ upload' = [upload EXCEPT ![r] = IF AfterCommit(r) = "NONE" THEN Waiting
                                         ELSE [upload[r] EXCEPT !.step = AfterCommit(r)]]
      /\ kind' = kind /\ files' = files /\ saved' = saved /\ holding' = holding
  BY <1>1 DEF CommitUpload, workerVars
<1>3. u # Waiting /\ UnderWay(r) /\ Unnamed(r)
  BY <1>1, <1>2 DEF LInv, Uploads, Waiting
<1>4. /\ u = [step |-> u.step, doc |-> u.doc, by |-> u.by, new |-> u.new, old |-> u.old]
      /\ d \in Docs /\ u.by \in {kind[d].first, kind[d].again}
      /\ u.new \in 1..saved /\ u.old \in 0..saved /\ u.old # u.new
      /\ \A c \in Docs \ {d} : column[c] # NoFile => column[c] # u.new /\ column[c] # u.old
  BY <1>1, <1>3 DEF UnderWay
<1>5. /\ u.new \in files /\ \A c \in Docs : column[c] # u.new
      /\ \A q \in Requests \ {r} :
            upload[q] # Waiting => upload[q].new # u.new /\ upload[q].old # u.new
  BY <1>1, <1>2, <1>3 DEF Unnamed
<1>6. LibraryRows'
  BY <1>2, <1>4, <1>5, Registers DEF LInv
<1>7. /\ column'[d] = u.new /\ \A c \in Docs \ {d} : column'[c] = column[c]
  BY <1>2, <1>4 DEF LInv, LibraryRows
<1>8. /\ upload' = [q \in Requests |-> upload'[q]]
      /\ \A q \in Requests \ {r} : upload'[q] = upload[q]
      /\ v = IF AfterCommit(r) = "NONE" THEN Waiting ELSE [u EXCEPT !.step = AfterCommit(r)]
  BY <1>1, <1>2 DEF LInv, Uploads
<1>9. /\ AfterCommit(r) \in {"OLD", "ANSWER", "NONE"}
      /\ AfterCommit(r) = "ANSWER" => u.by.answers
  BY <1>1 DEF AfterCommit
<1>10. v = Waiting \/ UnderWay(r)'
  BY <1>1, <1>4, <1>8, <1>2, <1>7, <1>9 DEF UnderWay
<1>11. ASSUME NEW q \in Requests \ {r}, UnderWay(q)
       PROVE  UnderWay(q)'
  BY <1>8, <1>11, <1>5, <1>2, <1>7 DEF UnderWay, Waiting
<1>12. \A q \in Requests : upload'[q] = Waiting \/ UnderWay(q)'
  BY <1>1, <1>8, <1>10, <1>11 DEF LInv, Uploads
<1>13. ASSUME NEW q \in Requests
       PROVE  Unnamed(q)'
  <2>1. CASE q = r
    BY <1>4, <1>8, <1>9, <1>1, <2>1 DEF Waiting, Unnamed
  <2>2. CASE q # r
    <3>1. PICK w : w = upload[q] /\ w = upload'[q]
      BY <1>8, <2>2
    <3>2. CASE w.step \in {"SAVED", "CLEARED"}
      <4>1. /\ w.new \in files /\ \A c \in Docs : column[c] # w.new
            /\ \A p \in Requests \ {q} :
                  upload[p] # Waiting => upload[p].new # w.new /\ upload[p].old # w.new
        BY <3>1, <3>2 DEF LInv, Uploads, Unnamed
      <4>2. u.new # w.new /\ u.old # w.new
        BY <1>1, <1>3, <2>2, <4>1
      <4>3. v # Waiting => v.new = u.new /\ v.old = u.old
        BY <1>4, <1>8
      <4> QED BY <1>1, <1>2, <1>7, <1>8, <2>2, <3>1, <4>1, <4>2, <4>3 DEF Unnamed
    <3>3. CASE w.step \notin {"SAVED", "CLEARED"}
      BY <3>1, <3>3 DEF Unnamed
    <3> QED BY <3>2, <3>3
  <2> QED BY <2>1, <2>2
<1>14. Uploads'
  BY <1>2, <1>8, <1>12, <1>13 DEF LInv, Uploads
<1>15. Named'
  BY <1>2, <1>5, <1>7 DEF LInv, Named, Careful
<1>16. Readers'
  BY <1>2 DEF LInv, Readers, Claimed
<1> QED BY <1>6, <1>14, <1>15, <1>16 DEF LInv

\* Rows and workers change, files and uploads do not.
LEMMA FilesStay ==
    ASSUME LInv, LibraryRows', Readers',
           kind' = kind, column' = column, files' = files, saved' = saved, upload' = upload
    PROVE  LInv'
  BY DEF UnderWay, Unnamed, LInv, Uploads, Named, Careful

\* A row that a starting process lists names what its document names.
LEMMA BackfillKeeps ==
    ASSUME LInv, NEW d \in Docs, Backfill(d)
    PROVE  LInv'
<1>1. /\ column[d] # NoFile /\ lib' = [lib EXCEPT ![d] = Registered(d, column[d])]
      /\ born' = Listed(d) /\ kind' = kind /\ column' = column /\ files' = files
      /\ saved' = saved /\ upload' = upload /\ holding' = holding
  BY DEF Backfill, workerVars
<1>2. PICK path : path = column[d]
  OBVIOUS
<1>3. path \in 1..saved /\ \A c \in Docs \ {d} : column[c] # path
  BY <1>1, <1>2 DEF LInv, LibraryRows, NoFile
<1>4. column' = [column EXCEPT ![d] = path]
  BY <1>1, <1>2 DEF LInv, LibraryRows
<1>5. LibraryRows'
  BY <1>1, <1>2, <1>3, <1>4, Registers DEF LInv
<1>6. Readers'
  BY <1>1 DEF LInv, Readers, Claimed
<1> QED BY <1>1, <1>5, <1>6, FilesStay

\* What the worker writes to a row is not what the row names.
LEMMA StatusKeeps ==
    ASSUME LInv, NEW d \in Docs, NEW row \in LibraryRow, lib' = [lib EXCEPT ![d] = row],
           (row.there <=> lib[d].there), row.path = lib[d].path,
           UNCHANGED <<kind, column, born, files, saved, upload>>, Readers'
    PROVE  LInv'
  BY FilesStay DEF LInv, LibraryRows, LibraryRow, Entered

\* A row that is claimed, or to be read again.
LEMMA Restated ==
    ASSUME NEW old \in LibraryRow, NEW status \in {"PENDING", "PROCESSING"},
           NEW row, row = [old EXCEPT !.status = status]
    PROVE  row \in LibraryRow /\ (row.there <=> old.there) /\ row.path = old.path
  BY DEF LibraryRow

\* A user who asks for the index again touches no file.
LEMMA ReindexKeeps ==
    ASSUME LInv, NEW d \in Docs, Reindex(d)
    PROVE  LInv'
<1>1. PICK row : row = [lib[d] EXCEPT !.status = "PENDING"]
  OBVIOUS
<1>2. row \in LibraryRow /\ (row.there <=> lib[d].there) /\ row.path = lib[d].path
  BY <1>1, Restated DEF LInv, LibraryRows
<1>3. lib' = [lib EXCEPT ![d] = row] /\ UNCHANGED <<kind, column, born, files, saved, upload>>
  BY <1>1 DEF Reindex
<1>4. Readers'
  BY DEF LInv, Readers, Claimed, Reindex
<1> QED BY <1>2, <1>3, <1>4, StatusKeeps

\* The worker claims a row, reads its file, writes what it found or dies.
LEMMA WorkerKeeps ==
    ASSUME LInv, NEW w \in Indexers, IndexStep(w) \/ DieIndexing(w)
    PROVE  LInv'
<1>1. CASE ClaimDocument(w)
  <2>1. PICK n \in DOMAIN born :
            /\ lib' = [lib EXCEPT ![born[n]].status = "PROCESSING"]
            /\ holding' = [holding EXCEPT ![w] =
                              [doc |-> born[n], path |-> lib[born[n]].path, found |-> "NONE"]]
    BY <1>1 DEF ClaimDocument
  <2>2. PICK d : d = born[n]
    OBVIOUS
  <2>3. d \in Docs
    BY <2>2 DEF LInv, LibraryRows
  <2>4. PICK row : row = [lib[d] EXCEPT !.status = "PROCESSING"]
    OBVIOUS
  <2>5. row \in LibraryRow /\ (row.there <=> lib[d].there) /\ row.path = lib[d].path
    BY <2>3, <2>4, Restated DEF LInv, LibraryRows
  <2>6. UNCHANGED <<kind, column, born, files, saved, upload>>
    BY <1>1 DEF ClaimDocument
  <2>7. [doc |-> d, path |-> lib[d].path, found |-> "NONE"] \in Claimed
    BY <2>3 DEF LInv, LibraryRows, LibraryRow, Claimed
  <2>8. Readers'
    BY <2>1, <2>2, <2>6, <2>7 DEF LInv, Readers, Claimed
  <2> QED BY <2>1, <2>2, <2>3, <2>4, <2>5, <2>6, <2>8, StatusKeeps
<1>2. CASE ReadFile(w)
  BY <1>2, RowsStay, FilesStay DEF ReadFile, LInv, Readers, Claimed, rowVars
<1>3. CASE WriteIndex(w)
  <2>1. PICK job : job = holding[w]
    OBVIOUS
  <2>2. /\ job # Free /\ job.found # "NONE"
        /\ lib' = [lib EXCEPT ![job.doc] = Indexed(job.doc, job.path, job.found)]
        /\ holding' = [holding EXCEPT ![w] = Free]
        /\ UNCHANGED <<kind, column, born, files, saved, upload>>
    BY <1>3, <2>1 DEF WriteIndex
  <2>3. job \in Claimed
    BY <2>1, <2>2 DEF LInv, Readers
  <2>4. PICK d, row : d = job.doc /\ row = Indexed(d, job.path, job.found)
    OBVIOUS
  <2>5. /\ d \in Docs /\ job.path \in 0..saved /\ job.found \in Settled
        /\ lib[d] \in LibraryRow /\ NoFile \in 0..saved
    BY <2>2, <2>3, <2>4 DEF Claimed, LInv, LibraryRows, NoFile
  <2>6. row \in LibraryRow /\ (row.there <=> lib[d].there) /\ row.path = lib[d].path
    BY <2>4, <2>5 DEF Indexed, LibraryRow, Settled
  <2>7. Readers'
    BY <2>2 DEF LInv, Readers, Claimed
  <2> QED BY <2>2, <2>4, <2>5, <2>6, <2>7, StatusKeeps
<1>4. CASE DieIndexing(w)
  BY <1>4, RowsStay, FilesStay DEF DieIndexing, LInv, Readers, Claimed, rowVars
<1> QED BY <1>1, <1>2, <1>3, <1>4 DEF IndexStep

\* Every step of the library keeps the invariant.
LEMMA LibrarySteps == LInv /\ [LibraryNext]_libraryVars => LInv'
<1> SUFFICES ASSUME LInv, [LibraryNext]_libraryVars PROVE LInv'
  OBVIOUS
<1>1. ASSUME NEW r \in Requests, UploadStep(r) PROVE LInv'
  BY <1>1, SaveKeeps, CommitKeepsFiles, TurnsKeep DEF UploadStep
<1>2. ASSUME NEW d \in Docs, Backfill(d) \/ Reindex(d) PROVE LInv'
  BY <1>2, BackfillKeeps, ReindexKeeps
<1>3. ASSUME NEW w \in Indexers, IndexStep(w) \/ DieIndexing(w) PROVE LInv'
  BY <1>3, WorkerKeeps
<1>4. CASE UNCHANGED libraryVars
  BY <1>4, RowsStay, FilesStay DEF libraryVars, rowVars, LInv, Readers, Claimed
<1> QED BY <1>1, <1>2, <1>3, <1>4 DEF LibraryNext

\* So it holds in every reachable state.
LEMMA LibraryInvariance == LibrarySpec => []LInv
  BY LibraryStarts, LibrarySteps, PTL DEF LibrarySpec

\* What is promised of files follows from it.
LEMMA LibraryHolds == LInv => LibraryTypeOK /\ NamedFilesExist
<1> SUFFICES ASSUME LInv PROVE LibraryTypeOK /\ NamedFilesExist
  OBVIOUS
<1>1. /\ saved \in 0..MaxFiles /\ files \subseteq 1..saved
      /\ \A n \in 0..saved : n \in 0..MaxFiles
  BY LibraryAssumption DEF LInv, LibraryRows, Uploads, LibraryAssumption
<1>2. column \in [Docs -> 0..MaxFiles]
  BY <1>1 DEF LInv, LibraryRows
<1>3. lib \in [Docs -> [there : BOOLEAN, path : 0..MaxFiles, of : 0..MaxFiles,
                        status : {"NONE", "PENDING", "PROCESSING"} \cup Settled]]
  BY <1>1 DEF LInv, LibraryRows, LibraryRow
<1>4. LibraryTypeOK
  BY <1>1, <1>2, <1>3 DEF LibraryTypeOK, LInv, LibraryRows, Entered
<1>5. NamedFilesExist
  BY DEF NamedFilesExist, LInv, LibraryRows, Named
<1> QED BY <1>4, <1>5

\* Whatever uploads cross, fail or are cut short, and however many there are, the
\* file that a row names is in storage and the library names the same one
\* (documents.upload, upload_fuel_delivery_receipt, register_sources).
THEOREM FilesAreKept == LibrarySpec => [](LibraryTypeOK /\ NamedFilesExist)
  BY LibraryInvariance, LibraryHolds, PTL

\* In the process that ticks, delivers and indexes, whatever it does beside: the intervals
\* of a schedule do not overlap (evaluate), a mail is sent once unless an answer or a
\* commit is lost, an account has one live link and a way back in (deliver_one,
\* reset_account), and the files that are named are there.
THEOREM SchedulerIsSound ==
    SchedulerSpec => [](/\ AlertsTypeOK /\ IntervalsApart
                        /\ TypeOK /\ SentUnlessLost /\ OneLiveLink /\ WayBackIn
                        /\ LibraryTypeOK /\ NamedFilesExist)
<1>1. SchedulerInit => Init /\ AlertsInit /\ LibraryInit
  BY DEF SchedulerInit
<1>2. [SchedulerNext]_schedulerVars
        => [Next]_vars /\ [AlertsNext]_alertsVars /\ [LibraryNext]_libraryVars
  BY DEF SchedulerNext, Mailing, Alerting, Indexing, schedulerVars
<1>3. SchedulerSpec => Spec /\ AlertsSpec /\ LibrarySpec
  BY <1>1, <1>2, PTL DEF SchedulerSpec, Spec, AlertsSpec, LibrarySpec
<1>4. SchedulerSpec => []AlertsTypeOK /\ []IntervalsApart
  BY <1>3, AlertsTypeCorrect, IntervalsStayApart, PTL
<1>5. SchedulerSpec => []TypeOK /\ []SentUnlessLost /\ []OneLiveLink /\ []WayBackIn
  BY <1>3, TypeCorrect, DeliveredOnce, NewestLinkOnly, AlwaysAWayBackIn, PTL
<1> QED BY <1>3, <1>4, <1>5, FilesAreKept, PTL
=============================================================================
