# ops-core in TLA+

ops-core watches a weaving shed: it polls the looms, opens an *incident* when one
stops, asks the floor for the reason over WhatsApp, opens a *ticket* for reasons
somebody has to repair, asks the repairer for an estimate, and escalates up a
ladder of people until the loom runs again.  One process does all of it, with
several threads over one MySQL database.  This directory holds its model: TLA+
modules translated from `src/app/`, TLC runs on small instances, and theorems
that TLAPS proves for every instance.

Lines are quoted as `path:line` below `src/`.

## 1. Inventory

### The threads

| Thread | Code | What it does |
|---|---|---|
| poller | `app/core/poller.py`, every `poll_seconds` | asks the source for transitions, opens, reopens and resolves incidents, classifies the new ones |
| ticker | `app/core/ticker.py`, every 30 s | commits resolutions whose grace is over, fires due rungs, calls the watchdog |
| outbox | `app/core/outbox.py`, every 5 s | sends what is queued, with retries |
| HTTP requests | `app/api/*.py`, a pool | replies of the floor, delivery reports, the admin panel, read-only queries |

They share the database and little else.  `db.transaction()` takes a process-wide
write lock (`app/db.py`), so transactions exclude each other; `db.query` and
`db.query_one` do not take it.  Every function that first looks with a query and
then acts in a transaction acts on what it saw *then*: this is where most of the
hazards are.

### The components

**Fault lifecycle** (`app/core/incidents.py`).  State: `incidents`,
`incident_reasons`, `tickets`.  Operations: `open_incident`, `reopen`,
`begin_resolve`, `commit_resolve`, `set_reason`, `_open_ticket`, `ensure_asset`.
An incident is open, then resolving for a grace window when the loom runs again,
then resolved; a second stop within the grace reopens it.  Hard: looked up outside
the transaction that writes it, by poller, ticker and requests at once.  Correct
if: one live incident per loom, one open ticket per incident, nothing scheduled
about what is closed, no stop and no resume lost.

**Escalation engine** (`app/core/escalation.py`, `departments/weaving/escalation.yaml`).
State: `escalations` (one pending row is the next rung of one ladder) and the dedupe
keys it gives to pages.  Operations: `schedule_unknown`, `start_ladder`,
`compute_start` (recurrence), `_schedule_next`, `fire`, `set_eta`,
`cancel_for_incident`, `cancel_for_ticket`.  Hard: several threads replace the same
rows; the key must be new exactly when the page is.  Correct if: one timer per
ladder, no page about a closed or resuming fault, no page swallowed by its key, an
estimate silences everything but its own check, a fault that stands is always chased.

**Ticker** (`app/core/ticker.py`).  State: the two lists it has read.  Hard: rows
change between its query and `commit_resolve` or `fire`; one row that raises must
not hold up the others.  Correct if: what is due is dealt with, once.

**Poller** (`app/core/poller.py`).  State: the batch in hand.  Hard: its
source forgets each transition as it reports it, so whatever fails after that is
lost.  Correct if: every stop is raised and every resume resolves.

**Classification** (`app/core/classify.py`).  No state: it counts the incidents that are
live.  A fleet that stops at once is a power failure or a changeover, which pages nobody;
anything else is asked about.  Hard: the count is taken while the batch of a poll is
worked off and the fleet is edited.  Correct if: the stops of a poll get one code, a
power cut is recognised, and two ordinary faults are never taken for one.

**Loom source** (`app/sources/`).  State: `_last`, the cursor.  Edge detection over
the rows of the feed: repeats, stale rows, looms that go dark, restarts.  Correct if:
each change of a loom is reported exactly once and a loom that is dark is not
believed to run or to stand.

**Inbound replies** (`app/api/webhooks.py`, `app/core/prompts.py`).  No state but the
outbox it reads.  Which of several open questions does a bare number answer?  Hard: the
menu of reasons and the estimate are both numbers; what is looked up may be answered by
somebody else, or be over, before it is written.  Correct if: the question the sender was
asked, still open, and only once; and if what is said back is true.

**Operator endpoints** (`app/api/admin_api.py`).  Reason, remind, assign, off plan,
retire, recommission; people, rosters, plans and settings.  Correct if each leaves
incidents, tickets and timers as the lifecycle would.

**Off plan** (`app/core/offplan.py`).  State: `asset_offplan`.  Planned downtime
that is nobody's fault.

**Outbox and delivery** (`app/core/outbox.py`, `app/notifiers/`,
`app/api/webhooks.py:555`).  State: `outbox`: queued, sent or failed, attempts,
next_try_at, the provider's id, the delivery report.  Hard: a crash between the send
and its record, reports that overtake the record, retries.  Correct if: at least
once until given up, never twice without a crash.

**Workers** (`app/workers.py`, `app/main.py`).  State: heartbeats.

**Watchdog** (`app/core/watchdog.py`, `app/api/health.py`).  State: `alert_state`.
Alarms when messages stop reaching phones, once per interval, and says when they do again.

**Configuration** (`app/config.py`, `app/api/config_api.py`, and the editing half of
`app/api/admin_api.py`).  State: YAML files, `config_overrides` (one patch for each
scope), the live `Config` object that every thread reads.  An edit looks at the live
object, composes its patch onto the stored one, validates what would result, writes the
row, and installs what it validated.  Hard: nothing holds the table between these steps;
a deletion is a null that must survive the next patch; a roster has two forms, and the
one for the whole day wins; the table is what the next start reads.  Correct if: the live
configuration always routes faults to teams that exist and to people who can be reached (and
the panel's, to somebody), an accepted edit takes effect and survives a restart, and no edit
of the panel leaves a paged shift without anybody.

**Routing and shifts** (`app/core/routing.py`, `app/clock.py`).  No state; shifts
that cross midnight.  Correct if: at every minute one shift is on duty, and the changeover
the classifier looks for is where it changes.

**Database layer** (`app/db.py`).  The lock above; retries of a lost connection.

**Read-only API, event log, scripts.**  Nothing they do changes what the others see.

`PROJECT.json` has the same list with what is modelled of each, and under `hazards`
each thing in this code that tests hardly reach, at its line.

## 2. The modules

| Module | Stands for |
|---|---|
| `EscalationLadder` | the ladders and the rows they produce, as pure operators: first prompt, first page, the row that follows a row, the check of an estimate |
| `OpsCore` | the tables and the poller, the ticker and the request threads that write them; its properties |
| `FaultContract` | the abstract specification: what is promised of a fault whoever handles it |
| `OpsClaims` | what comments and documents say and the code does not keep |
| `MCOpsCore` | the values TLC uses |
| `OpsCoreProofs` | theorems about `OpsCore` |
| `ContractProofs` | that `OpsCore` implements `FaultContract`, for every instance |
| `OpsTimerProofs` | theorems about the rungs of `OpsCore`: estimates, answers, pages, short stops, and that no fault is left without |
| `Delivery` | the outbox worker, the provider, the delivery reports, and the watchdog's alarm over the send path |
| `DeliveryProofs` | theorems about `Delivery` |
| `LoomSource` | the adapter between the feed of the looms and the poller |
| `LoomSourceProofs` | theorems about `LoomSource` |
| `ConfigStore` | the stored patches, the live configuration, and every endpoint that edits them; what its comments claim is at its end |
| `MCConfigStore` | the values TLC uses for it |
| `ConfigStoreProofs` | theorems about `ConfigStore` |
| `Replies` | what a reply of the floor is taken to answer: the handlers of inbound messages, step by step, under a lifecycle that goes on |
| `ReplyClaims`, `MCReplies` | what comments say of replies and the code does not keep; the values TLC uses |
| `RepliesProofs` | theorems about `Replies` |
| `ShiftCalendar` | the shift on duty, changeovers, and the calendars the panel accepts, as pure operators |
| `FleetStop` | the rules of the classifier, the batches they are applied to, and the edits of the calendar and the fleet they meet |
| `MCFleetStop` | the values TLC uses for it |
| `FleetStopProofs` | theorems about `ShiftCalendar` and `FleetStop` |

`OpsCore` EXTENDS `EscalationLadder`, instantiates `FaultContract` (`Contract`), and
`OpsClaims` and `OpsCoreProofs` EXTEND it, `ContractProofs` the latter, and
`OpsTimerProofs` that one.  `Delivery`, `LoomSource`, `ConfigStore` and `Replies` stand on
their own, and `FleetStop` EXTENDS `ShiftCalendar`.  They meet at the edges of `OpsCore`:

- `ConfigStore` says which `Rosters` and `LadderFor` its constants may be.
- What it calls `PollFetch` is one `Poll` of `LoomSource` that reports something, and its
  `last` is that of a feed which is never silent.
- What it calls a message of `outbox` is a row of `Delivery`, and `dead` its `Dead`.
- What it leaves to `\E` about a reply (which incident or ticket it is about) `Replies`
  decides, and takes from `OpsCore` that a loom has one live incident.
- Which of `AutoCodes` a stop is given, `FleetStop` decides.

### State and code: `OpsCore`

| Variable | Code |
|---|---|
| `inc` | `incidents`, with `incident_reasons` in order and whether a reopening was logged |
| `tkt` | `tickets` |
| `esc` | the pending rows of `escalations`; a row that is fired, cancelled or wedged is `NoRow`, and its place is used again |
| `outbox` | the dedupe keys ever queued; `dead`: those known not to have reached a phone |
| `active`, `retired`, `offplan` | `assets.active`, `assets.decommissioned_at`, `asset_offplan` |
| `last` | the source's `_last` |
| `pollPc`, `batch`, `ev`, `found`, `fresh` | the poller: what is left of the batch, the event in hand, the incident its query found, the incidents to classify at the end |
| `tickPc`, `settled`, `due` | the ticker: the ids its two queries returned |
| `req` | each request thread: what it looked up and is about to write |
| `machine` | the looms themselves, outside the program |

### State and code: `Delivery`

| Variable | Code |
|---|---|
| `row` | the table `outbox`, one record for each page: status, attempts, next_try_at, sent_at, provider_msg_id (as the number of the copy it names), delivery_status |
| `copies` | the provider: every copy of a page it accepted, and whether that copy will arrive |
| `outPc`, `todo`, `outcome` | the outbox worker inside `drain`: the batch it has read, and what `send` returned or raised |
| `downSince`, `alerts` | `alert_state`, and the dedupe keys of the alerts |
| `dogPc`, `lastFail`, `lastOk`, `since` | `check_send_path` between its queries and transactions |

### State and code: `LoomSource`

| Variable | Code |
|---|---|
| `machine`, `sending`, `feed` | the looms, which of them transmit, and the newest row of each in the server |
| `last`, `seen`, `cursor` | `_last`, `_last_seen`, `_cursor` |
| `serverNow`, `syncWall` | `_server_now`, `_sync_wall` |
| `told` | the looms whose stop has been reported and whose resume has not: what `seed` finds in `incidents`; `reported`: the events of the last poll |

### State and code: `ConfigStore`

| Variable | Code |
|---|---|
| `stored` | the table `config_overrides`, its rows taken together as one patch |
| `live` | the `Config` object of the process (`OPS_CFG`) |
| `up` | whether the process is there: `create_app` raises on a table that `validate` rejects |
| `req` | each thread that serves an edit: the edit it decided on, and the rows it has read, composed and validated |
| `raced`, `edits` | not in the code: whether two edits have overlapped since the start, and how many were begun |

A document and a patch have one shape: for each person a value on each channel, for each
team the members of each bucket (`all`, or a shift), the backstop, the teams the plans name,
the owner of each reason, the settings of the feed.  A key that is missing is `Absent`; a
patch may also say `Null`.  `merge_patch` and `compose_patch` differ in what they do with it.

### State and code: `Replies`

| Variable | Code |
|---|---|
| `inc`, `tkt` | `incidents` with whether there is a row in `incident_reasons`, and `tickets` |
| `chat` | `outbox`, by recipient and in the order of `id`: the type of each message and what it is about |
| `req` | each request thread: `pc` is the place in `_handle`, `found` its `question` (later its `incident_id`), `text` and `loom` what `split_asset` left; `did`, `passed` and `ack` are what came of it; `settled` and `upto` remember the moment of the delivery, for the properties only |

### State and code: `FleetStop`

| Variable | Code |
|---|---|
| `now`, `standing` | the time of the last poll and the looms that stood at it (`_last`) |
| `asset`, `offplan`, `inc` | `assets` with `decommissioned_at`, `asset_offplan`, and the newest incident of each loom |
| `calendar`, `fraction` | `shifts` and `fleet_fraction` of the live `Config` |
| `poller` | `apply_events`: the events still to apply, the off-plan and retired looms it read at the start (`silent`), `new_incidents`; `batch` and `touched` are for the properties |

### Steps

A transaction is one step; a query outside one is a step of its own, and its result
is kept in the thread's variables until the step that uses it.  So `open_incident`
is `PollRead` and then `PollInsert` or `PollReopen`; `tick` is `TickBegin`,
`TickCommit` per incident, `TickQuery`, `TickFire` per row; a reply is `ReplyToPrompt`
(or `ReplyToEta`, `NamedReply`, `PanelReason`, `PanelRemind`) and then `RequestReason`,
`RequestEta` or `RequestForward`.  Endpoints that do everything in one transaction
(`set_offplan`, `decommission_asset`) are one step.  Between any two steps other
threads run, the process may die (`Restart`), and a poll, a resolution or a rung may
raise (`PollFails`, `TickFails`, `TickWedge`).

In `Delivery` a send is `DrainQuery`, and for each page `Send` and `Record`; the
watchdog's check is up to five steps, one for each query or transaction, with the
outbox worker and the reports in between.  In `LoomSource` a poll is one step: its
state belongs to one thread.

In `ConfigStore` an edit is `Ask` (the handler's look at the live object, its refusals, and
the patch it decides on), `Propose` (`load_overrides`, compose, `validate`), `Store` (the
transaction) and `Reload` (`reload_into`), with the other threads and a `Restart` between
any two.  A patch of the scope `source` ends with `Store`.

In `Replies` a delivery is `Receive` (stored, taken apart, its question looked up), `Name`
when it names a loom, and then one of `Refuse`, `HandOver`, `Eta` (`set_eta`, which looks
again), `Find` and `Reason` (`set_reason`, which does not), and `Say`.  Between any two the
lifecycle, the questions, other requests and answers from elsewhere go on, and the handler
may die.

In `FleetStop` a batch is `Poll`, a `Stopped` or `Resumed` for each event in any order, and
then a `Classify` for each new incident; edits, resolutions and failures come in between.

### Time

The code stores absolute times and compares them with now.  The model stores what is
left of them (0: over) and the ages of incidents and tickets up to `AgeCap`, no
shorter than any rung, and `Advance` moves all of them at once.  Nothing the code
compares can tell the difference, and a loom may stand for ever in finitely many states.

`Delivery` and `LoomSource` compare times with each other (the newest failure with the
newest success; the newest row with the clock), so there time is a number that starts
at 1, with 0 for NULL, and stops at `MaxTime`.

### Where the models are coarser than the code

- `opened_at` and `resolved_at` are those of the step that writes them; the code
  stamps them when the batch is fetched, or takes the feed's.
- The order of a batch, of the rows due together, and of rows chosen with LIMIT 1 and
  no ORDER BY is arbitrary.
- A reply may carry any reason code, where the code offers a menu.
- The key of a repeat contains the row's id and is new each time; in the model such
  keys share one element of `outbox`, and repeating makes it live again.
- Which automatic reason a stop gets, or none, is a free choice among `AutoCodes`.
- `assign`, which adds a person to a fault, adds only recipients and is not modelled.
- `decommission_asset` closes every open ticket of the incident; the theorem
  `TicketsAreNotDoubled` says there is at most one.
- `Delivery`: the alert for an interval is queued with the clock of that step, where the
  code reads the clock at the start of the check.  Alerts are kept as their keys; that
  they reach the chat room is taken for granted.  The provider reports only what is true
  of the copy, and may report it late, twice, in any order, or never; of the verdicts
  that judge nothing only `submitted` is kept, and `read` counts as `delivered`.
- `LoomSource`: a loom that transmits does so at least once in a unit of time; the two
  configured conditions exclude each other and one of them always holds; `offline_after`
  is in use; a request that fails changes nothing and is no step.  `told` is what the
  adapter reported: that the core acts on every report is the business of `OpsCore`.
- `ConfigStore` keeps of `validate` what relates two parts of a document; the rules about
  one field (a number's form, a shift's hours, an interval that is positive), credentials,
  and references of the detection rules are left out, and so are names, labels, minutes,
  aliases, the order of codes and rungs, and the scope `alerts`.  Plans are the set of
  teams their steps name.  The endpoints of the panel are whole in what they refuse for
  the sake of routing; what they refuse for history or an approved template
  (`delete_reason`, `update_reason`) the model sometimes allows.  `PATCH /api/config` takes
  any patch; the model has what no endpoint of the panel sends (an entry or a key of it
  dropped, a roster emptied, the backstop dropped, the last two at once), and `DELETE` the
  reverts.  A patch of several other changes is taken to be these one after the other.
  `resolve` is what a fault is paged to: a role's people on a shift, or else the backstop.
  `reload_into` is one step.
- `Replies`: an incident in its grace is live, timers are left to `OpsCore`, and a promise is
  kept as an open ticket.  A message can be found as soon as it is queued, as in the code; whoever
  quotes one whose provider id is not recorded quotes nothing.  The rows one look-up reads
  one after the other are read at once: a question that is closed stays so.  A text is numbers and
  at most one word; one label stands for all labels and aliases, "loom 91 1" for "91 1".
  TLC has one request thread, with `CodedElsewhere` for whoever else answers; the theorems
  have any number.
- `FleetStop`: a unit of time is longer than the five seconds of the rule for power failures and
  no longer than a poll, so that a poll sees the looms and not the moments they stopped at.
  Fractions are exact where the code multiplies floats, which may round a threshold up by
  one (0.14 of 50 is 8).  The list of rules does not change while the program runs.
- `ShiftCalendar`: spans are minutes and not their text.

## 3. The runs

### What each run asks

| Run | Question | Properties |
|---|---|---|
| `core_answers` | two people answer the same question, or the same request for an estimate, while the ticker fires rungs and commits resolutions; one crash, failed database call, wedged rung or dead page anywhere | `OneTimerPerLadder`, `OneOpenTicket`, `ClosedTicketIsSilent`, `AnsweredStopsAsking`, `EtaSnoozes` |
| `core_live` | a loom stops twice, inside or beyond its grace window; one person answers or does not | `TypeOK`, `OneLiveIncident`, `StillChased`, `EveryPageQueued`, `ShortStopNotAsked`, `RunningSettles`, `DueIsHandled` |
| `core_forward` | the endpoints that reach into a running fault: replies that name the loom, the panel's reason and reminder, a job handed over, off plan, retirement and its end, under the poller's hands | `RetiredStaysRetired`, `ContractHolds` |
| `delivery` | two pages, their retries, copies and reports, and the watchdog, with one crash, failed transaction or lost answer | `TypeOK`, `CopiesPaidFor`, `ReportsMatch`, `AllClearEarned`, `DeathIsFinal`, `PagesSettle` |
| `source` | two looms that stop, resume, fall silent alone or together, and a restart with or without an answer of the server | `StopIsTold`, `RepeatsReportNothing`, `StopIsSeen`, `SilenceIsTold` |
| `config` | every endpoint that edits the configuration, patches that drop the backstop or empty a roster, two edits that overlap in any way, and a restart anywhere | `TypeOK`, `LiveRoutes`, `RestartKeepsLive`, `EditsTakeEffect`, `CoverIsKept` |
| `replies` | a person who may quote, and a chat room; two looms; numbers, a label, a loom by name, a hand-over and noise | `TypeOK`, `QuoteDecides`, `OnlyTheAsked`, `FirstAnswerStands`, `AnswerIsHeard`, `RefusalIsTrue` |
| `fleet` | three looms that stop and resume in any combination between polls, with one edit of the calendar, the fraction, an asset or a plan | `CalendarTiles`, `ChangeoverIsChange`, `BatchCodedAlike`, `WholeFleetIsSeen`, `PowerCutIsReal` |
| `claim_*` | one claim each that the code does not keep, see section 5 | one each |

`ContractHolds` is the refinement: `OpsCore`, with its threads, timers and requests,
implements `FaultContract` (and `CoreKeepsContract` proves it), in which a fault is raised only for a loom that has none,
told about only while it is open, relapses only from its grace window, and ends for
good.  The mapping reads `state` off `inc`, and `said` off the outbox: every key that
names the incident, or a ticket of it.  The hard part is the last: a rung or a request
that was looked up while the fault was open may be acted on when it no longer is.

### Bounds, and why they are enough

- One loom is enough for the core: looms share nothing but the batch and the lists of the
  ticker, and the theorems hold for any number.  `source` has two, for the count of the
  dark feed.
- A rung resolves to one person in every run.  A rung that resolves to nobody makes the
  runs too large; the theorems hold for all `Rosters`.
- Two incidents and two tickets for one loom where a second fault matters
  (`core_live`, where the second ticket is recurrent and starts further up its ladder);
  one incident where it does not, and two tickets for it in `core_answers`, where a
  second one would be the mistake.
- Four places for pending rows are more than one incident and its ticket ever use;
  the run would find a fork of a ladder with two.
- Ladders of two rungs, the second repeating: an ask, an escalation and a repeat are all
  the kinds of rung there are.  `AgeCap`, 2, is the age at which the last rung is due.
- One missed estimate, one fault of the infrastructure: each property speaks of what one
  of them may break.
- In `delivery`, two pages let one succeed while the other fails and let a batch be cut
  short by a crash; two attempts are one retry; `MaxTime` is 2, and the clock goes on
  past it while a page waits for its retry.  In `source` the threshold is 2, the
  horizon 6: a loom can fall silent, be noticed, return and fall silent again.
- In `config` there are two people, two teams, two shifts, one reason beside the catch-all
  and one address: a person and a team can refer to each other or not, and a roster can
  have either form or a gap.  Three edits one after the other, or two that overlap and no
  more: the first prepares (a deletion), the second and third are what meets it.  `raced`
  separates the two cases, because of overlapping edits only `LiveRoutes` is claimed.
- In `replies` the limit of the look-ups is 1 instead of 20, so that two messages exceed it; two
  incidents are two looms or one that stopped twice; a text can be an option, an estimate
  and a loom at once.  In `fleet` three looms are a fleet of which some, a threshold (two
  at one half) or all stop; the day has four minutes and the windows one and two of them, so that
  a stop lies in none, one or both; of the four calendars two are accepted, one of them across
  midnight, one has a gap and an overlap that cancel out, and one a gap.  Looms are
  interchangeable (`SYMMETRY`).
- `BackoffBase` and `BackoffCap` are 1 and 2: the first retry is below the cap and the
  second would be at it.

Deadlock is checked in every run but `fleet`, which stops when its time is over: elsewhere the
looms or the clock can always go on, or a worker or a request can.

### Fairness

`FairSpec` of each module says: a worker takes its next step as long as it has one, a
request that has begun is carried through, and time passes.  `_Worker.run`
(`app/workers.py:32`) loops for ever, catches what its function raises, and none of the
steps waits for another thread except for the write lock, which every holder gives back
at the end of its transaction.  A request of the provider or of the feed has a timeout
of 15 s.  All of it is weak fairness.  The looms need not stop or run, the floor need
not answer, the provider need not report, the panel is not used, nothing need go wrong.
In `source` a poll is assumed to be answered again and again; a feed that refuses for
ever is a dark one that the adapter cannot even see.

Liveness is claimed of what the code itself must bring about: `RunningSettles` (a loom
that runs for good has no live incident in the end), `DueIsHandled` (a due rung is
fired, dropped or replaced), `PagesSettle` (a queued page is sent or given up),
`StopIsSeen` and `SilenceIsTold` (a loom that stands, or falls silent, for good is
raised in the end).

## 4. The proofs

`OpsCoreProofs` is about every instance of `OpsCore`: any looms, ladders, reasons,
rosters, request threads and endpoints, any bounds, and with faults.  It rests on
`CoreAssumption` and `LadderAssumption` only: there is a loom, the ticketable and the
automatic reasons and `short_stop` are reasons, times and bounds are numbers, estimates
are positive, ladders are sequences of rungs.

| Theorem | Establishes |
|---|---|
| `SpecIInv` | `Spec => []IInv` |
| `TypeCorrect` | `Spec => []TypeOK` |
| `LaddersDoNotFork` | `Spec => []OneTimerPerLadder` |
| `StopsAreNotDoubled` | `Spec => []OneLiveIncident` |
| `TicketsAreNotDoubled` | `Spec => []OneOpenTicket` |
| `ClosedTicketsAreSilent` | `Spec => []ClosedTicketIsSilent` |
| `RetiredStayRetired` | `Spec => []RetiredStaysRetired` |

None of the three uniqueness invariants is inductive.  `IInv` adds what they rest on:

- `TicketsRefer`: a ticket that was opened names its incident and a ticketable reason.
  Without it `set_eta` and `fire` could write rows of no type.
- `RowsRefer`: a pending row is about an incident that was opened, or about a ticket that is
  *open*. It is `ClosedTicketIsSilent` with what `fire` needs to find its ladder, and the
  reason why a new ticket begins with no timer.
- `FreshUnasked`: the incidents the poller is about to classify have no timer, so `on_open`
  does not start a second ladder. It holds because every path to a timer of an incident goes
  through `on_open`.
- `PollerKnows`: if the poller has found no live incident, there is still none when it
  inserts one. Only the poller opens incidents, and nothing brings back a resolved one: this
  is what makes the look-up outside the transaction (`app/core/incidents.py:54`) harmless.
- `RequestKnows`: what a request holds is a row of its table.

The proof has one lemma for each action, and one each for the operations that several
actions share (`SetReason`, `OpenTicket`, `CancelAll`, `Page`).  Resolving, retiring and
going off plan all close incidents and tickets and cancel timers; the lemma `Closing`
treats them as one: whatever only closes and cancels keeps the invariant.

`ConfigStoreProofs` is about every instance of `ConfigStore`, with any number of threads
and edits that overlap in any way.  It rests on `StoreAssumption` (the YAML files are valid,
the shifts are a sequence) and on `DocumentAssumption`: the files are a document, the ids of
persons and teams are apart, `all` is no shift, and a key that is missing or null is not
taken for a value.

| Theorem | Establishes |
|---|---|
| `StoreIInv` | `Spec => []IInv` of `ConfigStoreProofs` |
| `LiveConfigurationRoutes` | `Spec => []LiveRoutes` |
| `PanelRoutesToSomebody` | `Spec => []RoutesToSomebody`, if the configuration API is not used (`"api" \notin Doors`) and the YAML files name a backstop |
| `StoreTInv` | `Spec => []TInv` |
| `StoreTyped` | `Spec => []TypeOK` |
| `AcceptedEditsTakeEffect` | `Spec => EditsTakeEffect` |
| `StoreAInv` | `Spec => []AInv` |
| `RestartsKeepLive` | `Spec => []RestartKeepsLive` |
| `RostersKeepCover` | `Spec => CoverIsKept` |

`LiveRoutes` is not inductive: `Reload` installs what a thread has held since `Propose`, and
the table may have become invalid meanwhile (section 5).  `SnapshotsValid` is what is
missing: a thread that has validated holds rows that are valid, and installs just these.
That each of them is valid on its own is why the table may be wrong and the process right.
`ResolvesToMembers` says that the fallback of `role_person_ids` stays on the roster; the
first shift that is there exists by `WFMin`.

`LiveRoutes` says that whoever is paged can be reached, the backstop too, and not that there
is anybody to page: a patch may drop the backstop and empty a roster (section 5).  That
somebody is there is `RoutesToSomebody`, and true of the panel.  `BackstopStays` is why: no
edit of it takes the backstop away, in the table, in a thread's hands or live, so that
`resolve` has it to fall back on.

The other theorems need to know what a patch *does*, and that is where the merging of
`app/config.py` is reasoned about:

- `EditOK`, of every edit of every endpoint: its patch is silent outside its scope, and
  within it says of the entry that it edits every field that it changes. A patch that forgot
  to set a field to null would leave the YAML file's value standing (`Says`).
- `TInv`: what a thread holds is *some* settled rows with its own edit composed on top,
  whoever wrote what in between. With `EditShown` (composing and then merging over the files
  gives what the edit says) this is `EditsTakeEffect`.
- `AInv`, for `RestartKeepsLive`: as long as no two edits have overlapped there is at most
  one thread at work (`OneAtATime`), what it composed its edit onto is what is live
  (`Composed`), and what it stored is the table. So between two edits the table merged over
  the files *is* the live configuration, and a restart, which computes just that, changes
  nothing.
- `CoverKept` takes the edits of the panel one at a time, on a configuration that passes
  `validate`: the checks of `set_roster` and `update_reason` are about a team, and the lemma
  says what else their patch could have touched, which is nothing (`Untouched`).

`OpsTimerProofs` is about every instance of `OpsCore` again, and about what becomes of a
fault's rungs.  Some of it holds whatever the operators do.  The rest holds only
without some of the endpoints, because with them the code does otherwise
(section 5, and TLC finds the counterexamples when the hypotheses are dropped); then the theorem
names the endpoints as a hypothesis on `Ops` or `EtaHours`, and runs make the same choice.

| Theorem | Establishes | If |
|---|---|---|
| `StopsAreChased` | `Spec => []StillChased` | (of a fault of the database or the process `StillChased` promises nothing, nor of a reopened incident) |
| `PromisesSnooze` | `Spec => []EtaSnoozes` | no job is handed over by hand (`NoHandover`): handing over brings the check of an estimate forward |
| `AnswersEndQuestions` | `Spec => []AnsweredStopsAsking` | all answers are to questions that were sent (`OnlyReplies`): one by the panel or by the loom's name may come before the stop is classified, and `on_open` then asks all the same |
| `PagesAreQueued` | `Spec => EveryPageQueued` | nobody gives an estimate: when one runs out the ladder begins again, and so do its dedupe keys (the run `claim_page`) |
| `ShortStopsAreQuiet` | `Spec => ShortStopNotAsked` | questions wait as long as a short stop may last (`AsksLate`; 20 minutes and 2 in the shipped configuration) and are brought forward only by who was sent one (`HandoverAnswers`) |

The proofs share one idea: most steps are `Quiet`, they write no new rung, move none and
send nothing. `StepKinds` says which of the steps are not (time, a prompt, a reason, an
estimate, a rung that fires, a job that is handed over), so that an invariant about rungs
has to be looked at for six operations and not for all. What makes each of them inductive:

- `EtaSnoozes`: `CheckAtTheEnd`, the estimate is kept in `eta_due_at` and in the `due_at` of
  its check and they agree, and `DueStays`, what the ticker has in its list when the fixer
  answers is still due or gone, so that it cannot fire over the new estimate.
- `AnsweredStopsAsking`: `FreshUnanswered`, nothing but `on_open` gives a reason to an
  incident that is still to be classified, which needs in turn that a batch has one event a
  loom (`BatchOnce`): the incident it has just raised is not one that a later event of it
  resolves.
- `EveryPageQueued`: `RungsRise`, the pages of a ladder that were sent are of lower rungs
  than the one that is pending, unless that is the last and repeats.
- `ShortStopNotAsked`: `AskedLate` relates three clocks, the age of the stop, the time to
  its question, and how long it had run when it resumed; `AskedFirst` says that who is about
  to move the question has been asked.
- `StillChased`: `ChaseInv` has the same statement for incidents and for tickets separately,
  since giving a reason takes the rung from the one and must write it for the other in the
  same transaction.

`ContractProofs` shows that `OpsCore` implements its abstract specification, whoever meets
whom: `CoreKeepsContract` is `Spec => ContractHolds`. A refinement needs more than the
invariants of the detailed system: of every step it must be said which step of the contract
it is. `RInv` adds to `IInv` that an open ticket is of a fault that was raised
(`TicketsRaised`), that a page about a ticket came after the ticket was opened
(`MessagesRefer`: opening one cannot change what was *said* of a fault), and that whoever is
about to give a reason gives it to a fault that was raised (`AnswersRaised`). Then every
action either leaves each fault as it was or is one of `FaultContract`: the lemma
`FirePromised` rests on the second look that `fire` takes at the incident, in the
transaction that pages.

`DeliveryProofs` is about every instance of `Delivery`: any number of pages, attempts, crashes
and lost answers.  It rests on `DeliveryAssumption` and on `BackoffAssumption`, a fact of
arithmetic about powers of two that the provers do not know and TLC evaluates.

| Theorem | Establishes |
|---|---|
| `DeliveryInvariant` | `Spec => []DInv` |
| `DeliveryTyped` | `Spec => []TypeOK` |
| `ReportsFindTheirCopy` | `Spec => []ReportsMatch` |
| `AllClearIsEarned` | `Spec => AllClearEarned` |
| `DeathStaysFinal` | `Spec => DeathIsFinal` |
| `CopiesArePaidFor` | `Spec => []CopiesPaidFor` |

The worker, the reports and the watchdog meet in any order; what makes this harmless is that
rows only move forward (`RowsForward`): a page that failed stays failed, and neither the time
of its failure nor that of its sending is set back.  So what the watchdog remembers from one
query to the next, or in `alert_state` across restarts, stays a lower bound of a failure in
the table (`DogOK`), and a success it has found stays found.  `BatchOK` says that the pages in
hand are queued, due and different, so that no two entries of a batch are one row; `RowsOK`
that what happened to a page lies in the past, and that a page reported dead counts as failed,
without which a report could be the only trace of a death that `Record` then overwrites.

`AllClearEarned` is about one step, the decision: `WatchSuccesses` counts a page whose report
says it arrived, or of which nothing was heard for `AssumeAfter`, and not one that has failed.
`ReportsTrue` adds that such a report is of the copy the row stands for, and the lemma
`ClearedByPage` that the page counted was accepted no earlier than the newest failure the
watchdog has seen, and so than that of the alarm.

`CopiesPaidFor` counts, and is not inductive: a crash between `Send` and `Record` is a
fault, and the copy it leads to is made much later, in another batch. `PaidInv` counts the
copy when the doubt comes up: a page is `Doubtful` that the provider has and the worker
takes for unsent, and `Owed` holds the copies beyond the first with the next copy of every
doubtful page. Sending such a page leaves `Owed` as it is; only a fault adds to it, and one
element a fault (`FaultsPay`).

`LoomSourceProofs` is about every instance of `LoomSource`: any looms, any threshold, any window
of the server, any number of restarts.  It rests on `SourceAssumption`.

| Theorem | Establishes |
|---|---|
| `SourceInvariant` | `Spec => []SInv` |
| `StopsAreTold` | `Spec => []StopIsTold` |
| `RepeatsAreSilent` | `Spec => RepeatsReportNothing` |

`since` is inclusive and the adapter's clock may be set back, so it is not obvious that a
row which was passed over as old is still old when it is read again. The argument: the
cursor is the time that set the clock (`CursorIsClock`), so the only row that can be read
*again* is the one that set it (`RepeatIs`; a window that is asked for without `since` is
too far on to have it). Of a loom that is taken for silent and whose row this is, that was
long ago (`SilentIsOld`), and the clock has only gone on since. The run `source` has one
threshold and one window; the theorem says that neither their sizes nor how they compare
matters.

`RepliesProofs` is about every instance of `Replies`, with any number of request threads.  It
rests on `RepliesAssumption`: there is a sender, looms and options are what the code takes
them for.

| Theorem | Establishes |
|---|---|
| `RepliesIInv` | `Spec => []IInv` of `RepliesProofs` |
| `RepliesTyped` | `Spec => []TypeOK` |
| `TheFirstAnswerStands` | `Spec => []FirstAnswerStands` |
| `TheQuoteDecides` | `Spec => []QuoteDecides` |
| `OnlyTheAskedAnswer` | `Spec => []OnlyTheAsked` |
| `RefusalsAreTrue` | `Spec => []RefusalIsTrue` |
| `AnswersAreHeard` | `Spec => []AnswerIsHeard` |

A handler acts on what it looked up several steps ago. The proof rests on rows being never
taken back: an incident once answered stays answered, one resolved stays resolved, messages
are only added (`TargetStays`, `QuotedStays`, `RequestStays`). So each fact a handler has
found, written down in `RequestOK`, is one that others can only make more true. The newest
of several messages exists by `WFMin`.  `RefusalIsTrue` asks different things of the two
refusals; `Meant` says which, and stays true after the words are said.

`AnswerIsHeard` is about what a handler has *not* found. `HeardInv` says of one that is
about to give up an answer, or has, that no question is open as far as a look-up reaches
(`NothingOpen`). It is kept because a question that is settled stays so (`AnsweredStays`),
what came after the reply does not count, and messages queued meanwhile push old ones out of
the window and bring none in (`WindowShrinks`): so nothing that was passed over comes back
into reach.

`FleetStopProofs` begins with two theorems about the operators of `ShiftCalendar`
themselves, for days of any length: any three spans the panel accepts tile the day
(`AcceptedTiles`), and the changeovers computed from starts are where the shift on duty
changes (`AcceptedBoundaries`).

The rest of it is about every instance of `FleetStop`: any rules, looms, fractions and
calendars.  It rests on `FleetAssumption`: there are finitely many looms, fractions are above
zero and at most one, the calendar in the file is an accepted one.

| Theorem | Establishes |
|---|---|
| `FleetIInv` | `Spec => []IInv` of `FleetStopProofs` |
| `FleetTyped` | `Spec => []TypeOK` |
| `TheCalendarTiles` | `Spec => []CalendarTiles` |
| `TheChangeoverIsChange` | `Spec => []ChangeoverIsChange` |
| `BatchesAreCodedAlike` | `Spec => []BatchCodedAlike` |
| `TheWholeFleetIsSeen` | `Spec => []WholeFleetIsSeen` |
| `PowerCutsAreReal` | `Spec => []PowerCutIsReal`, if only rules whose window is a poll give `power_failure` |

`BatchCodedAlike` compares codes with each other, and is not inductive.  `CodesOK` is: as long
as nothing else was touched, every code of the batch is the one the rules would give *now*.
It holds because `apply_events` raises the whole batch before it classifies the first of it
(`app/core/poller.py:78`), so that the counts do not change from one to the next; the lemma
`SameCode` says that a code does not count.

Every invariant and every action property of a passing run is stated by a theorem. Left to
TLC is liveness (`PagesSettle`, `RunningSettles`, `DueIsHandled`, `StopIsSeen`,
`SilenceIsTold`), which needs fairness and ENABLED and is out of the prover's reach. The
hypotheses of `OpsTimerProofs` hold in the runs that check the same properties, and leave
out less than those runs do. What the claims of section 5 say is refuted, not proved.

## 5. Where the code and what is said of it part

Four runs end in a counterexample, each of them a finding in `PROJECT.json`.

- `claim_raised_race`: **a stop is lost** (`app/core/incidents.py:62`).  `open_incident`
  sees an incident that is resolving; before `reopen` begins its transaction the ticker
  commits the resolution; `reopen` finds nothing to reopen and returns.  The source has
  noted the stop and will not report it again.  The loom stands and nobody knows.
- `claim_page`: **a page is swallowed** (`app/core/escalation.py:460`).  After a missed
  estimate the re-ask has a key of its own, but the rung after it has the key it had
  before the estimate, and INSERT IGNORE drops it.
- `claim_dark`: **an incident is never resolved** (`app/sources/weaving_loom_api.py:402`).
  A dark feed overwrites the belief that a loom is stopped, and a loom that runs when
  the feed returns is no longer one that *resumed*.
- `claim_named`: **an answer is recorded for another loom** (`app/api/webhooks.py:468`).  A
  reply names a loom whose question is already answered; `_find_incident` falls back on the
  newest question of the sender, about any loom, and the reason goes there.

These were met while modelling, and the models behave so too; they have no run of their
own.  The first four are formulas at the end of `ConfigStore`; named as a property in
`config.cfg`, TLC refutes each of them.

- Two edits that overlap can leave a table the program does not start with (`StartsAgain`;
  `app/api/admin_api.py:115`).  One deletes a team, another gives a reason to it.  Each is
  valid with the rows it has read, outside the transaction that writes; together they are
  not.  The process goes on with what it has, until it is restarted.
- Settings of the feed are never applied (`BootAppliesAll`; `app/main.py:41`).  They are
  stored for the next start, which applies what is stored with `reload_into`, and this
  leaves the source out.
- A fault can have nobody to be paged to (`RoutesToSomebody`; `app/config.py:475`).  The
  validation before commit "never becomes 'accept a config that routes nothing to nobody at
  3am'" (`app/api/config_api.py:10`), but `validate` takes a `PATCH` of `routing` that drops
  the backstop and empties the roster of a team faults are routed to; `resolve` then returns
  nobody and logs it (`app/core/routing.py:55`).  The endpoints of the panel cannot do it,
  if the files name a backstop (`PanelRoutesToSomebody`).
- A team is not what it was created as (`CreatedAsGiven`; `app/api/admin_api.py:394`).  A
  team of the YAML file that is deleted and created again with shifts has the `all` bucket
  of the file again, which wins over every shift.  A person that is created again has an old
  address again.

- A reopened fault is silent: a rung that comes due inside the grace window is cancelled,
  rightly, but has no successor, and `reopen` schedules nothing
  (`app/core/escalation.py:312`).  `StillChased` says that this is the only way.
- An alarm may be late or never called off.  When the end of an outage was assumed from
  silence and a report then disproves it, the alarm comes back with the start it had: its key
  for the running interval may be used up (half an hour, against a quarter for the
  assumption), so it is swallowed until the next one (`app/core/watchdog.py:196`), and the
  second all-clear always is (`app/core/watchdog.py:169`).  `AllClearEarned` speaks of what
  was known when the watchdog looked.
- A page that fails for good while it is sent is dated by when that attempt was due, for
  nothing writes `next_try_at` then (`app/core/watchdog.py:101`): the outage looks older.
- `set_plan` asks whether a team exists and not whether anybody is on duty in it
  (`app/api/admin_api.py:631`), which roster edits and reasons do ask.
- `role_person_ids` falls back to another shift when one is missing, the panel shows it as
  empty; `add_to_shift` writes what the panel shows, and so takes the fallback away
  (`app/api/admin_api.py:531`).
- Of two overlapping edits of one scope one is lost in the table, a shift at a time as well
  (`app/api/admin_api.py:118`); of two in different scopes both are stored, but the live
  configuration lacks the one that reloaded first until something else reloads.
- `reload_into` assigns four documents one after the other and its readers take no lock
  (`app/config.py:391`): a reader in between sees the reasons of one version and the teams
  of another.  The second `if scope == "source"` of `patch_scope` is never reached, and
  `DELETE` of that scope answers like any other.
- An exception after `source.poll` loses the whole batch (`app/core/poller.py:87`), and a
  crash between the insert of an incident and its classification leaves it with neither
  reason nor question (`app/core/poller.py:78`).
- A stop on a loom that is off plan or retired is consumed and not raised when the plan
  ends, or the loom is recommissioned: edges, not levels, are reported.  The answer of
  `recommission_asset` says that the next poll will pick it up.
- `set_reason` does not look at the status (`app/core/incidents.py:121`): an answer to a
  fault that was resolved meanwhile opens a ticket on it, which stays open; its rung is
  dropped when it comes due.  Two answers to one question are both recorded; the second
  opens no ticket.
- An answer from the panel between the insert and the classification is followed by the
  question all the same (`app/core/classify.py:79`).
- `set_offplan` resolves the incident and leaves its ticket open (`app/api/admin_api.py:1178`).
- A batch fetched before a loom was retired may open an incident on it, or not close the
  one it has (`app/core/poller.py:45`).
- `commit_resolve` does not look at `resolve_due_at` again (`app/core/incidents.py:195`):
  a loom that stopped and resumed since the ticker's query gets a shorter grace.
- Handing a job over brings the check of a running estimate forward and so counts a miss
  early (`app/api/webhooks.py:394`).
- A crash between the send and its record sends the page again, although the first lines
  of `app/core/outbox.py` say it must not; `CopiesPaidFor` says it never happens
  without one.
- A delivery report that arrives before the provider's id is recorded finds no row and
  is lost.
- After a gap without polls as long as the offline threshold, a row that was passed over
  as stale may be taken for fresh when it is repeated: the first new rows set the
  adapter's clock back
  (`app/sources/weaving_loom_api.py:354`).

Of replies (`app/api/webhooks.py`):

- Whoever quotes a reminder of a question that nobody has answered is told "Already
  recorded" (`AlreadyMeansAnswered` of `ReplyClaims`): only questions and requests count as
  such, not what escalates them.
- "Running again" is said of every incident that is resolved: of one that off plan or
  retirement ended while the loom stands, and of an old one of a loom that has stopped again
  (`RunningMeansRunning` of `ReplyClaims`; `app/api/webhooks.py:452`).  `RefusalIsTrue` says
  that the incident is over, and no more.
- A bare number can answer a question that is still queued, or whose page has failed: the
  look-up asks for the message, not for its delivery.
- A number meant as an estimate, for a ticket closed between the look-up and `set_eta`, falls
  through and may be recorded as the reason of another incident.
- A message that is delivered twice under two ids is answered twice; without a quote the
  second may answer the next older question.  Two answers to one question at the same time
  are both recorded.
- "2 done" is loom 2 and "done", if there is a loom 2, although the docstring of the parser
  accepts it as an option.  "91 pass" names loom 91 in its answer and hands over whatever was
  asked last.
- The loom a chat card names is ignored when the newest question is one for a reason.  An
  answer that was understood, with nothing open, gets silence.

Of the classifier (`app/core/classify.py`):

- Events are stamped with the time of the poll, so a fleet that stops within seconds on both
  sides of a poll is no power failure.  `README.md:134` promises one for "a fleet-wide stop
  within a few seconds".
- Looms that are off plan count in the fleet and raise no incident: at a fraction of one, with
  a single loom off plan, a power cut is never recognised.  Looms that stood already do not
  count for one either.
- Incidents in their grace count in the window of a changeover.  A batch that fails is never
  classified.
- The panel asks to acknowledge a threshold at which single stops are a fleet stop
  (`app/api/admin_api.py:1914`) when the fraction is saved, not when looms retire later.
- `PATCH /api/config/routing` takes calendars with gaps, which the panel refuses:
  `CalendarTiles` is about what the panel accepts.

## 6. Not modelled

| Part | Why |
|---|---|
| daily digest of the watchdog | one message a local day, under a key that names the day: INSERT IGNORE is all there is to it |
| alert settings, assignment of a person, the list of detection rules | they change whom a message reaches or what the next poll counts, and no property here depends on it; `FleetStop` takes any list of rules |
| a configuration that changes under a running fault | the properties of `OpsCore` hold for any configuration that does not change while the program runs, those of `ConfigStore` for any that does |
| signatures and envelopes of the providers, the window for free text | checks of one request by itself |
| parsing of rows, templates, wording | no state, and no property depends on it; of replies `Replies` has what decides which question they answer |
| heartbeats and the health page | read only |
| reports, dashboard, event log | written in the transactions that are modelled, and read only |
| migrations, SQL rewriting, reconnection | the database is taken to do what it is asked or to raise |
| scripts, mock feed | not part of the program that runs |

## 7. What comes next

Modules:

1. `System`: `LoomSource`, `OpsCore` and `Delivery` composed, on the smallest instance,
   for the claims that cross the edges: a loom that stands is told to a phone.
2. `Replies` with the timers of `OpsCore`, so that a reply and a rung of the same ticket meet
   in one run.
3. Assignment, and the scope `alerts` of the configuration.

Theorems:

1. The edges between the models: that the `Poll` of `LoomSource` gives what `PollFetch` of
   `OpsCore` takes for granted, when there is a `System`.
2. What liveness rests on: that a step the fairness promises leads somewhere (a rung that is due
   leaves the ticker's hands, a page that is sent is recorded), as action properties.

The runs stay few: a new one takes the place of one whose question it contains.
