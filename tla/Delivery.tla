------------------------------ MODULE Delivery ------------------------------
(***************************************************************************)
(* From the outbox to a phone: the outbox worker (app/core/outbox.py), the *)
(* provider it hands pages to, the provider's delivery reports             *)
(* (app/api/webhooks.py), and the watchdog that raises an alarm over       *)
(* another channel while pages do not arrive (app/core/watchdog.py).       *)
(*                                                                         *)
(* A page is a row of the table `outbox`.  Times are absolute here, since  *)
(* the watchdog compares them with each other; 0 is NULL.  A step is one   *)
(* query, one transaction, or one call of the provider.                    *)
(***************************************************************************)
EXTENDS Integers, FiniteSets, FiniteSetsExt, SequencesExt

CONSTANTS
  MaxPages,      \* rows of the outbox; bounds the model
  MaxTime,       \* bounds the model: see Tick
  MaxFaults,     \* bounds the model: crashes, failed transactions, lost answers
  MaxAttempts,   \* _MAX_ATTEMPTS
  BackoffBase,   \* _BASE_BACKOFF_S
  BackoffCap,    \* _MAX_BACKOFF_S
  BatchLimit,    \* drain's limit
  AssumeAfter,   \* assume_delivered_after_minutes
  RepeatEvery    \* repeat_minutes

ASSUME DeliveryAssumption ==
  /\ {MaxPages, MaxTime, MaxFaults, BackoffCap, AssumeAfter} \subseteq Nat
  /\ {MaxAttempts, BackoffBase, BatchLimit, RepeatEvery} \subseteq Nat \ {0}

Pages == 1 .. MaxPages
Null  == 0

VARIABLES
  now,         \* the clock
  row,         \* table outbox
  copies,      \* the provider: the fate of each copy of a page it accepted
  faults,      \* crashes, failed transactions and lost answers so far
  outPc, todo, outcome,           \* the outbox worker
  downSince,   \* alert_state 'send_down_since'
  alerts,      \* the dedupe keys of the alerts queued so far
  dogPc, lastFail, lastOk, since  \* the watchdog, run by the ticker thread

worker == <<outPc, todo, outcome>>
dog    == <<dogPc, lastFail, lastOk, since>>
alarm  == <<downSince, alerts>>
vars   == <<now, row, copies, faults, worker, alarm, dog>>

\* status, attempts, next_try_at, sent_at, provider_msg_id (which copy), and
\* delivery_status.
PageRow ==
  [status : {"none", "queued", "sent", "failed"}, attempts : Nat, next : Nat,
   sent : Nat, pid : Nat, report : {"none", "submitted", "delivered", "failed"}]

NoPage == [status |-> "none", attempts |-> 0, next |-> 0, sent |-> Null,
           pid |-> Null, report |-> "none"]

Alert == [kind : {"down", "up"}, since : Nat, interval : Nat]

With(status) == {p \in Pages : row[p].status = status}

-----------------------------------------------------------------------------
(* The queue and the clock. *)

\* enqueue, of a key that is new (fire, _reply): the next row of the table.
Enqueue(p) ==
  /\ row[p].status = "none" /\ \A q \in Pages : q < p => row[q].status # "none"
  /\ row' = [row EXCEPT ![p] = [NoPage EXCEPT !.status = "queued", !.next = now]]
  /\ UNCHANGED <<now, copies, faults, worker, alarm, dog>>

\* The clock stops at MaxTime, but for pages that wait for their next attempt.
Tick ==
  /\ now < MaxTime \/ \E p \in With("queued") : row[p].next > now
  /\ now' = now + 1
  /\ UNCHANGED <<row, copies, faults, worker, alarm, dog>>

-----------------------------------------------------------------------------
(* The outbox worker: drain. *)

\* Mutants of Due: a page is tried once; a page that was sent is still due.
DueOnce(p)  == row[p].status = "queued" /\ row[p].next <= now /\ row[p].attempts = 0
DueAgain(p) == row[p].status \in {"queued", "sent"} /\ row[p].next <= now

Due(p) == row[p].status = "queued" /\ row[p].next <= now

\* Mutant of NextPc: an empty batch is sent too.
NextPcAlways(batch) == "send"

NextPc(batch) == IF batch = << >> THEN "idle" ELSE "send"

Earlier(p, q) == row[p].next < row[q].next \/ (row[p].next = row[q].next /\ p < q)

\* The pages that are due, the longest waiting first.
DrainQuery ==
  /\ outPc = "idle"
  /\ \E ready \in SetToSeqs({p \in Pages : Due(p)}) :
       /\ \A j, k \in DOMAIN ready : j < k => Earlier(ready[j], ready[k])
       /\ todo' = SubSeq(ready, 1, Min({BatchLimit, Len(ready)}))
  /\ outPc' = NextPc(todo')
  /\ UNCHANGED <<now, row, copies, faults, outcome, alarm, dog>>

\* notifier.send.  The provider accepts the page, and whether that copy will
\* arrive is up to it; or refuses it, for now or for good; or accepts it and the
\* answer is lost, which send reports as it reports any other exception.
Send ==
  /\ outPc = "send"
  /\ LET p == Head(todo) IN
       \/ /\ outcome' \in {"transient", "permanent"}
          /\ UNCHANGED <<copies, faults>>
       \/ /\ \/ outcome' = "accepted" /\ UNCHANGED faults
             \/ outcome' = "transient" /\ faults < MaxFaults /\ faults' = faults + 1
          /\ \E fate \in {"arrives", "dies"} :
               copies' = [copies EXCEPT ![p] = Append(@, fate)]
  /\ outPc' = "record"
  /\ UNCHANGED <<now, row, todo, alarm, dog>>

\* _backoff_seconds
Backoff(attempts) == Min({BackoffBase * 2 ^ (attempts - 1), BackoffCap})

\* A fact of arithmetic that the provers do not know.
ASSUME BackoffAssumption == \A k \in 1 .. MaxAttempts : Backoff(k) \in Nat

GivesUp(attempts) == outcome = "permanent" \/ attempts >= MaxAttempts

\* Mutant of CopyId: the row keeps the id of the first copy.
FirstCopy(p) == 1

CopyId(p) == Len(copies[p])

\* What the worker writes of an attempt.
Recorded(p) ==
  LET r == row[p]  attempts == r.attempts + 1 IN
  IF outcome = "accepted"
    THEN [r EXCEPT !.status = "sent", !.sent = now, !.pid = CopyId(p),
                   !.attempts = attempts]
  ELSE IF GivesUp(attempts)
    THEN [r EXCEPT !.status = "failed", !.attempts = attempts]
  ELSE [r EXCEPT !.attempts = attempts, !.next = now + Backoff(attempts)]

Record ==
  /\ outPc = "record"
  /\ row' = [row EXCEPT ![Head(todo)] = Recorded(Head(todo))]
  /\ todo' = Tail(todo)
  /\ outPc' = NextPc(todo')
  /\ outcome' = "accepted"
  /\ UNCHANGED <<now, copies, faults, alarm, dog>>

\* The transaction that records a success is inside the try: if it raises, the
\* page counts as not sent.  The one that records a failure is not: it ends the
\* pass.
RecordRaises ==
  /\ outPc = "record" /\ faults < MaxFaults
  /\ faults' = faults + 1
  /\ \/ outcome = "accepted" /\ outcome' = "transient" /\ UNCHANGED <<outPc, todo>>
     \/ outcome # "accepted" /\ outPc' = "idle" /\ todo' = << >> /\ outcome' = "accepted"
  /\ UNCHANGED <<now, row, copies, alarm, dog>>

-----------------------------------------------------------------------------
(* Delivery reports: provider_events. *)

\* Reports the provider may send of a copy.
Verdicts(fate) == IF fate = "arrives" THEN {"submitted", "delivered"}
                  ELSE {"submitted", "failed"}

\* Mutant of Reported: a failure is noted, but the row still counts as sent.
ReportedOnly(r, verdict) == [r EXCEPT !.report = verdict]

Reported(r, verdict) ==
  IF verdict = "failed" THEN [r EXCEPT !.report = verdict, !.status = "failed", !.next = now]
  ELSE [r EXCEPT !.report = verdict]

\* A report finds its row by the provider's id; a report of a copy whose id was
\* not recorded, or not yet, finds none and changes nothing.
Report(p, verdict) ==
  /\ row[p].pid # Null /\ verdict \in Verdicts(copies[p][row[p].pid])
  /\ row' = [row EXCEPT ![p] = Reported(row[p], verdict)]
  /\ UNCHANGED <<now, copies, faults, worker, alarm, dog>>

-----------------------------------------------------------------------------
(* The watchdog: check_send_path, at the end of every tick. *)

\* When a page failed, as far as the table knows.
FailedAt(p) == IF row[p].next # Null THEN row[p].next ELSE row[p].sent
FailTimes   == {FailedAt(p) : p \in With("failed")}

\* Mutant of OkTimes: whether the page was refused since is not asked.
OkTimesOfAll == {row[p].sent : p \in
              {q \in Pages : /\ row[q].sent # Null
                             /\ row[q].report = "delivered" \/ row[q].sent + AssumeAfter <= now}}

\* A success is a page known to have arrived, or one of which nothing was heard
\* for so long that its report must have been lost.
OkTimes == {row[p].sent : p \in
              {q \in With("sent") : \/ row[q].report = "delivered"
                                    \/ row[q].report = "none" /\ row[q].sent + AssumeAfter <= now}}

Latest(times) == Max(times \cup {Null})

\* The check is over, and what it read is forgotten.
WatchDone == dogPc' = "idle" /\ lastFail' = Null /\ lastOk' = Null /\ since' = Null

WatchFailures ==
  /\ dogPc = "idle"
  /\ lastFail' = Latest(FailTimes)
  /\ dogPc' = "successes"
  /\ UNCHANGED <<now, row, copies, faults, worker, alarm, lastOk, since>>

Down(fail, ok) == fail # Null /\ ok < fail

WatchSuccesses ==
  /\ dogPc = "successes"
  /\ \/ /\ Down(lastFail, Latest(OkTimes))
        /\ dogPc' = "since" /\ lastOk' = Latest(OkTimes)
        /\ UNCHANGED <<lastFail, since>>
     \/ /\ ~Down(lastFail, Latest(OkTimes)) /\ downSince # Null
        /\ dogPc' = "clear" /\ lastFail' = Null
        /\ UNCHANGED <<lastOk, since>>
     \/ /\ ~Down(lastFail, Latest(OkTimes)) /\ downSince = Null
        /\ WatchDone
  /\ UNCHANGED <<now, row, copies, faults, worker, alarm>>

\* The start of this outage: the first failure after the last success.
WatchSince ==
  /\ dogPc = "since"
  /\ LET after == {t \in FailTimes : t > lastOk}
     IN  since' = IF after = {} THEN lastFail ELSE Min(after)
  /\ dogPc' = "raise" /\ lastFail' = Null /\ lastOk' = Null
  /\ UNCHANGED <<now, row, copies, faults, worker, alarm>>

WatchRaise ==
  /\ dogPc = "raise"
  /\ downSince' = since
  /\ dogPc' = "post"
  /\ UNCHANGED <<now, row, copies, faults, worker, alerts, lastFail, lastOk, since>>

\* INSERT IGNORE: an alert whose key is there already is not queued again.
Post(alert) ==
  /\ alerts' = alerts \cup {alert}

\* Once an interval.
WatchPost ==
  /\ dogPc = "post"
  /\ Post([kind |-> "down", since |-> since, interval |-> (now - since) \div RepeatEvery])
  /\ WatchDone
  /\ UNCHANGED <<now, row, copies, faults, worker, downSince>>

\* Sending works again: say so, then forget the outage.
WatchClear ==
  /\ dogPc = "clear"
  /\ Post([kind |-> "up", since |-> downSince, interval |-> 0])
  /\ dogPc' = "forget"
  /\ UNCHANGED <<now, row, copies, faults, worker, downSince, lastFail, lastOk, since>>

WatchForget ==
  /\ dogPc = "forget"
  /\ downSince' = Null
  /\ WatchDone
  /\ UNCHANGED <<now, row, copies, faults, worker, alerts>>

-----------------------------------------------------------------------------
\* The process dies and is started again.
Restart ==
  /\ faults < MaxFaults
  /\ faults' = faults + 1
  /\ outPc' = "idle" /\ todo' = << >> /\ outcome' = "accepted"
  /\ dogPc' = "idle" /\ lastFail' = Null /\ lastOk' = Null /\ since' = Null
  /\ UNCHANGED <<now, row, copies, alarm>>

Init ==
  /\ now = 1 /\ faults = 0
  /\ row = [p \in Pages |-> NoPage]
  /\ copies = [p \in Pages |-> << >>]
  /\ outPc = "idle" /\ todo = << >> /\ outcome = "accepted"
  /\ downSince = Null /\ alerts = {}
  /\ dogPc = "idle" /\ lastFail = Null /\ lastOk = Null /\ since = Null

Drain == DrainQuery \/ Send \/ Record

Watch == \/ WatchFailures \/ WatchSuccesses \/ WatchSince \/ WatchRaise \/ WatchPost
         \/ WatchClear \/ WatchForget

Next ==
  \/ \E p \in Pages : Enqueue(p) \/ \E v \in {"submitted", "delivered", "failed"} : Report(p, v)
  \/ Tick \/ Drain \/ RecordRaises \/ Watch \/ Restart

Spec == Init /\ [][Next]_vars

\* The workers loop for ever and a send returns in the end (it has a timeout);
\* time passes.  The provider owes no report.
FairSpec == Spec /\ WF_vars(Tick) /\ WF_vars(Drain) /\ WF_vars(Watch)

-----------------------------------------------------------------------------
(* Properties. *)

\* The tables and the two workers hold what they may hold; in particular the
\* worker that sends has a page in hand.
TypeOK ==
  /\ now \in Nat \ {0} /\ faults \in 0 .. MaxFaults
  /\ row \in [Pages -> PageRow]
  /\ copies \in [Pages -> Seq({"arrives", "dies"})]
  /\ outPc \in {"idle", "send", "record"} /\ todo \in Seq(Pages)
  /\ outPc = "idle" <=> todo = << >>
  /\ outcome \in {"accepted", "transient", "permanent"}
  /\ downSince \in Nat /\ alerts \subseteq Alert
  /\ dogPc \in {"idle", "successes", "since", "raise", "post", "clear", "forget"}
  /\ {lastFail, lastOk, since} \subseteq Nat

\* "Delivery is at-least-once" and no more often than it must: every copy of a
\* page beyond the first is paid for by a crash, a failed transaction or a lost
\* answer.
CopiesPaidFor ==
  Cardinality(UNION {{p} \X (2 .. Len(copies[p])) : p \in Pages}) <= faults

\* The id a report is matched by is that of the copy the row stands for: a page
\* recorded as sent is one the provider has, and no report of another copy (one
\* sent before a crash) can be taken for it.
ReportsMatch ==
  \A p \in Pages :
    /\ row[p].pid # Null => row[p].pid = Len(copies[p])
    /\ row[p].status = "sent" => row[p].pid # Null
    /\ row[p].status = "queued" => row[p].pid = Null

\* What the escalation engine asks of the outbox (_ask_reached_anyone): a page
\* that is known not to have arrived stays known, whatever report comes later.
Dead(p) == row[p].status = "failed" \/ row[p].report = "failed"
DeathIsFinal == [][\A p \in Pages : Dead(p) => Dead(p)']_vars

\* A page that was accepted and is not known to be dead, and of which either
\* a report is true that it has arrived, or nothing was heard for so long that
\* its report must have been lost ("success here means a delivery report came
\* back, or enough time passed that one would have", watchdog.py:93).
Vouched(p) ==
  /\ ~Dead(p) /\ row[p].pid # Null
  /\ \/ copies[p][row[p].pid] = "arrives"
     \/ row[p].report = "none" /\ row[p].sent + AssumeAfter <= now

\* An all-clear is earned: when the watchdog decides that sending works again,
\* some page accepted no earlier than the failure its alarm stands for (which
\* an earlier check wrote down, maybe before a restart) is vouched for at that
\* moment: a page that was refused meanwhile does not count, however recently
\* it was sent, and a report that came before the look is not overlooked.
AllClearEarned ==
  [][dogPc # "clear" /\ dogPc' = "clear" =>
       \E p \in Pages : row[p].sent >= downSince /\ Vouched(p)]_vars

\* Every page that is queued is sent or given up in the end, crashes or not.
PagesSettle ==
  \A p \in Pages : row[p].status = "queued" ~> row[p].status \in {"sent", "failed"}
=============================================================================
