--------------------------- MODULE AlertSchedules ---------------------------
(***************************************************************************)
(* One saved alert schedule and the notifications it sends: the requests   *)
(* of the office (NotificationService of                                   *)
(* app/services/notification_service.py) against the scheduler of every    *)
(* application process (run_due_schedules and evaluate of                  *)
(* app/services/notification_schedules.py).                                *)
(*                                                                         *)
(* An evaluation locks the row of the schedule, from its SELECT to its     *)
(* commit.  An update reads the row without a lock and locks it with its   *)
(* first UPDATE; SQLAlchemy writes only the columns whose value differs    *)
(* from the one that was read.  A tick of the scheduler reads the time     *)
(* once, before it looks for schedules, and locks with SKIP LOCKED.        *)
(*                                                                         *)
(* Time advances whenever it is read, so two readings differ below MaxTime *)
(* as two microseconds do.  What a rule matches and who can be reached are *)
(* read from other tables, which change at any time.                       *)
(***************************************************************************)
EXTENDS Integers

CONSTANTS Schedulers,   \* application processes, each with a scheduler
          Editors,      \* requests of the office
          NoOne,        \* holder of a row that is not locked
          Recipients,   \* users the schedule names
          Alerts,       \* records the rule may match
          Frequencies,  \* lengths of an interval (a month as one), ONCE apart
          MaxTime,      \* bound on time
          MaxEdits,     \* bound on the updates that are committed
          MaxCrashes    \* bound on the crashes

ASSUME AlertsAssumption ==
    /\ Frequencies \subseteq Nat \ {0}
    /\ MaxTime \in Nat \ {0} /\ MaxEdits \in Nat /\ MaxCrashes \in Nat
    /\ NoOne \notin Schedulers \cup Editors
    /\ Schedulers \cap Editors = {}

VARIABLES schedule,   \* the row
          lock,       \* who holds the lock of the row
          tick,       \* scheduler -> the time of a tick that found it due
          request,    \* editor -> what its request has read and will do
          matching,   \* the records the rule matches
          reachable,  \* the recipients with an active account
          time,
          notes,      \* the notifications, each with the frequency and edition
          begun,      \* the intervals that began, each with the same
          edits,      \* updates committed, the edition of the schedule
          crashes

alertsVars == <<schedule, lock, tick, request, matching, reachable, time,
                notes, begun, edits, crashes>>

-----------------------------------------------------------------------------
(* Helpers. *)

Never == 0      \* a time column that is NULL
ONCE == 0       \* the frequency that does not repeat

Unsaved == [there |-> FALSE]
NoRequest == [step |-> "NONE"]
Called == [step |-> "CALLED"]
Running == [step |-> "RUNNING"]

\* datetime.now.
Now == IF time < MaxTime THEN time + 1 ELSE time

\* next_run.
NextRun(now, every) == IF every = ONCE THEN Never ELSE now + every

\* The rows run_due_schedules selects, and selects again when it locks one.
Due(now) ==
    /\ schedule.there
    /\ schedule.active
    /\ \/ schedule.last = Never
       \/ /\ schedule.every # ONCE
          /\ schedule.next = Never \/ schedule.next <= now

\* Changed for a mutant: a schedule that runs once is never in its interval.
InIntervalUnlessOnce(now) ==
    schedule.last # Never /\ schedule.next # Never /\ schedule.next > now

\* current_period of evaluate: a rerun repairs the interval that has begun.
InInterval(now) ==
    /\ schedule.last # Never
    /\ schedule.every = ONCE \/ (schedule.next # Never /\ schedule.next > now)

\* emit_event: the primary key of a notification is made of the schedule, the
\* interval, the record and the recipient; a key that exists is left alone.
Emit(period) ==
    LET known == {<<n.alert, n.to, n.period>> : n \in notes}
        fresh == {f \in matching \X reachable : <<f[1], f[2], period>> \notin known}
    IN notes \cup {[alert |-> f[1], to |-> f[2], period |-> period,
                    every |-> schedule.every, edition |-> edits] : f \in fresh}

\* evaluate, by whoever holds the row.  An inactive schedule sends nothing, and
\* without recipients it raises: nothing is written.
Evaluate(now) ==
    IF ~schedule.active \/ reachable = {}
    THEN UNCHANGED <<schedule, notes, begun>>
    ELSE IF InInterval(now)
         THEN notes' = Emit(schedule.last) /\ UNCHANGED <<schedule, begun>>
         ELSE /\ notes' = Emit(now)
              /\ schedule' = [schedule EXCEPT !.last = now,
                                              !.next = NextRun(now, schedule.every)]
              /\ begun' = begun \cup {[at |-> now, every |-> schedule.every,
                                       edition |-> edits]}

-----------------------------------------------------------------------------

AlertsInit ==
    /\ schedule = Unsaved
    /\ lock = NoOne
    /\ tick = [s \in Schedulers |-> Never]
    /\ request = [e \in Editors |-> NoRequest]
    /\ matching \in SUBSET Alerts
    /\ reachable \in SUBSET Recipients
    /\ time = Never
    /\ notes = {} /\ begun = {}
    /\ edits = 0 /\ crashes = 0

-----------------------------------------------------------------------------
(* The scheduler. *)

\* Changed for a mutant: a next_run_at that is NULL is not due.
BeginTickOfStarted(s) ==
    /\ tick[s] = Never
    /\ time' = Now
    /\ tick' = [tick EXCEPT ![s] =
                   IF Due(Now) /\ schedule.next # Never THEN Now ELSE Never]
    /\ UNCHANGED <<schedule, lock, request, matching, reachable, notes, begun,
                   edits, crashes>>

\* The ids of run_due_schedules, and the time they were read at.
BeginTick(s) ==
    /\ tick[s] = Never
    /\ time' = Now
    /\ tick' = [tick EXCEPT ![s] = IF Due(Now) THEN Now ELSE Never]
    /\ UNCHANGED <<schedule, lock, request, matching, reachable, notes, begun,
                   edits, crashes>>

\* FOR UPDATE SKIP LOCKED of a row that is still due.
LockDue(s) ==
    /\ tick[s] # Never
    /\ lock # s
    /\ IF lock = NoOne /\ Due(tick[s])
       THEN lock' = s /\ UNCHANGED tick
       ELSE tick' = [tick EXCEPT ![s] = Never] /\ UNCHANGED lock
    /\ UNCHANGED <<schedule, request, matching, reachable, time, notes, begun,
                   edits, crashes>>

\* Changed for a mutant: the transaction is not ended.
RunDueUnended(s) ==
    /\ lock = s
    /\ Evaluate(tick[s])
    /\ tick' = [tick EXCEPT ![s] = Never]
    /\ UNCHANGED <<lock, request, matching, reachable, time, edits, crashes>>

\* The evaluation, at the time of the tick, and its commit or rollback.
RunDue(s) ==
    /\ lock = s
    /\ Evaluate(tick[s])
    /\ lock' = NoOne
    /\ tick' = [tick EXCEPT ![s] = Never]
    /\ UNCHANGED <<request, matching, reachable, time, edits, crashes>>

-----------------------------------------------------------------------------
(* The office. *)

\* create_schedule commits the row, then calls evaluate_schedule.
CreateSchedule(e, every, active) ==
    /\ schedule = Unsaved
    /\ request[e] = NoRequest
    /\ active => reachable # {}
    /\ schedule' = [there |-> TRUE, active |-> active, every |-> every,
                    last |-> Never, next |-> Never]
    /\ request' = [request EXCEPT ![e] = Called]
    /\ UNCHANGED <<lock, tick, matching, reachable, time, notes, begun, edits,
                   crashes>>

\* update_schedule reads the row and is to change it to these values.
ReadSchedule(e, every, active) ==
    /\ schedule.there
    /\ request[e] = NoRequest
    /\ edits < MaxEdits
    /\ request' = [request EXCEPT
                      ![e] = [step |-> "READ", every |-> every,
                              active |-> active, read |-> schedule]]
    /\ UNCHANGED <<schedule, lock, tick, matching, reachable, time, notes,
                   begun, edits, crashes>>

\* Its first UPDATE, sent with the query of the recipients, who must be there.
LockUpdate(e) ==
    /\ request[e].step = "READ"
    /\ lock = NoOne
    /\ IF schedule.there /\ (request[e].active => reachable # {}) /\ edits < MaxEdits
       THEN /\ lock' = e
            /\ request' = [request EXCEPT ![e].step = "WRITE"]
       ELSE /\ request' = [request EXCEPT ![e] = NoRequest]
            /\ UNCHANGED lock
    /\ UNCHANGED <<schedule, tick, matching, reachable, time, notes, begun,
                   edits, crashes>>

\* A column is written when its new value is not the one that was read: a
\* last_run_at that was read as NULL is not written as NULL again.
Written(r) ==
    [schedule EXCEPT
        !.every = IF r.every # r.read.every THEN r.every ELSE @,
        !.active = IF r.active # r.read.active THEN r.active ELSE @,
        !.last = IF r.read.last # Never THEN Never ELSE @,
        !.next = IF r.read.next # Never THEN Never ELSE @]

\* The commit of update_schedule, which evaluates an active schedule next.
CommitUpdate(e) ==
    /\ request[e].step = "WRITE"
    /\ schedule' = Written(request[e])
    /\ lock' = NoOne
    /\ request' = [request EXCEPT
                      ![e] = IF request[e].active THEN Called ELSE NoRequest]
    /\ edits' = edits + 1
    /\ UNCHANGED <<tick, matching, reachable, time, notes, begun, crashes>>

\* run-now.
RunNow(e) ==
    /\ schedule.there
    /\ request[e] = NoRequest
    /\ request' = [request EXCEPT ![e] = Called]
    /\ UNCHANGED <<schedule, lock, tick, matching, reachable, time, notes,
                   begun, edits, crashes>>

\* evaluate_schedule waits for the row, which may be gone.
LockToRun(e) ==
    /\ request[e] = Called
    /\ lock = NoOne
    /\ IF schedule.there
       THEN /\ lock' = e
            /\ request' = [request EXCEPT ![e] = Running]
       ELSE /\ request' = [request EXCEPT ![e] = NoRequest]
            /\ UNCHANGED lock
    /\ UNCHANGED <<schedule, tick, matching, reachable, time, notes, begun,
                   edits, crashes>>

\* It reads the time once it holds the row.
FinishRun(e) ==
    /\ request[e] = Running
    /\ time' = Now
    /\ Evaluate(Now)
    /\ lock' = NoOne
    /\ request' = [request EXCEPT ![e] = NoRequest]
    /\ UNCHANGED <<tick, matching, reachable, edits, crashes>>

\* delete_schedule, whose DELETE waits for the row and fails on the foreign key
\* of the notifications once there is one.
DeleteSchedule ==
    /\ schedule.there
    /\ lock = NoOne
    /\ notes = {}
    /\ schedule' = [schedule EXCEPT !.there = FALSE]
    /\ UNCHANGED <<lock, tick, request, matching, reachable, time, notes,
                   begun, edits, crashes>>

-----------------------------------------------------------------------------
(* The environment. *)

\* Records come to match and cease to; accounts are disabled and restored.
Change ==
    /\ \/ matching' \in SUBSET Alerts /\ UNCHANGED reachable
       \/ reachable' \in SUBSET Recipients /\ UNCHANGED matching
    /\ UNCHANGED <<schedule, lock, tick, request, time, notes, begun, edits,
                   crashes>>

\* A process dies: its transaction is rolled back, its requests are not resumed.
ProcessDies(p) ==
    /\ crashes < MaxCrashes
    /\ crashes' = crashes + 1
    /\ \/ /\ p \in Schedulers /\ tick[p] # Never
          /\ tick' = [tick EXCEPT ![p] = Never]
          /\ UNCHANGED request
       \/ /\ p \in Editors /\ request[p] # NoRequest
          /\ request' = [request EXCEPT ![p] = NoRequest]
          /\ UNCHANGED tick
    /\ lock' = IF lock = p THEN NoOne ELSE lock
    /\ UNCHANGED <<schedule, matching, reachable, time, notes, begun, edits>>

-----------------------------------------------------------------------------

SchedulerStep(s) == BeginTick(s) \/ LockDue(s) \/ RunDue(s)

EditorStep(e) ==
    \/ \E every \in Frequencies \cup {ONCE}, active \in BOOLEAN :
          CreateSchedule(e, every, active) \/ ReadSchedule(e, every, active)
    \/ LockUpdate(e) \/ CommitUpdate(e)
    \/ RunNow(e) \/ LockToRun(e) \/ FinishRun(e)

AlertsNext ==
    \/ \E s \in Schedulers : SchedulerStep(s)
    \/ \E e \in Editors : EditorStep(e)
    \/ DeleteSchedule
    \/ Change
    \/ \E p \in Schedulers \cup Editors : ProcessDies(p)

AlertsSpec == AlertsInit /\ [][AlertsNext]_alertsVars

\* What is fair: the scheduler is a loop that catches what a tick raises, and a
\* request that holds the row runs to its end.
RequestEnds(e) == CommitUpdate(e) \/ FinishRun(e)

-----------------------------------------------------------------------------
(* Properties. *)

Times == 0..MaxTime

Schedules ==
    [there : BOOLEAN, active : BOOLEAN, every : Frequencies \cup {ONCE},
     last : Times, next : Nat]

\* The row keeps its shape; its lock is held by one who knows of it.
AlertsTypeOK ==
    /\ schedule \in Schedules \cup {Unsaved}
    /\ tick \in [Schedulers -> Times]
    /\ request \in [Editors ->
           {NoRequest, Called, Running}
             \cup [step : {"READ", "WRITE"}, every : Frequencies \cup {ONCE},
                   active : BOOLEAN, read : Schedules]]
    /\ lock \in Schedulers => tick[lock] # Never
    /\ lock \in Editors => request[lock].step \in {"WRITE", "RUNNING"}
    /\ lock \in Schedulers \cup Editors \cup {NoOne}
    /\ matching \subseteq Alerts /\ reachable \subseteq Recipients
    /\ time \in Times
    /\ notes \subseteq [alert : Alerts, to : Recipients, period : Times,
                        every : Frequencies \cup {ONCE}, edition : 0..MaxEdits]
    /\ begun \subseteq [at : Times, every : Frequencies \cup {ONCE},
                        edition : 0..MaxEdits]
    /\ edits \in 0..MaxEdits /\ crashes \in 0..MaxCrashes

\* Between two updates of a schedule its intervals do not overlap, whoever
\* begins them: several schedulers, one whose time is stale, or a rerun.  A
\* schedule that runs once begins one, and no notification names an interval
\* that never began.
IntervalsApart ==
    /\ \A b, c \in begun :
          b.edition = c.edition /\ b # c =>
             /\ b.every # ONCE
             /\ b.at + b.every <= c.at \/ c.at + c.every <= b.at
    /\ \A n \in notes : \E b \in begun : b.at = n.period

\* A schedule that is due and has someone to reach is run, whatever the office
\* does to it and whichever process dies.
RunsWhenDue == Due(time) /\ reachable # {} ~> ~Due(time) \/ reachable = {}

\* docs/notification-scheduler-audit.md:14: the worker "honours the configured
\* frequency": under one configuration the same person is not reminded of the
\* same record before the interval has passed.
HonoursFrequency ==
    \A n, m \in notes :
        n.alert = m.alert /\ n.to = m.to /\ n.edition = m.edition /\ n.period < m.period
            => m.every # ONCE /\ n.period + m.every <= m.period

=============================================================================
