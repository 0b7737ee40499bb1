------------------------------- MODULE OpsCore -------------------------------
(***************************************************************************)
(* The fault lifecycle of ops-core: incidents, tickets, escalation timers  *)
(* and the queue of pages, and every thread of the one process that writes *)
(* them: the poller, the ticker and the HTTP request threads (replies of   *)
(* the floor, and the admin panel).                                        *)
(*                                                                         *)
(* Atomicity.  db.transaction() holds a process-wide write lock, so a      *)
(* transaction is one step.  db.query() and db.query_one() run outside it, *)
(* in autocommit: whatever a thread reads that way is kept in a variable   *)
(* of the thread and is used in a LATER step, by which time the tables may *)
(* have moved on.  A step named ...Read or ...Query is such a read.        *)
(***************************************************************************)
EXTENDS EscalationLadder, FiniteSets

CONSTANTS
  Asset,          \* the looms
  Codes,          \* reason codes; Ticketable is the subset that opens tickets
  AutoCodes,      \* codes classify_at_open may return (fleet stops)
  Rosters,        \* what routing.resolve may return: sets of people, {} = nobody
  EtaHours,       \* the estimates a fixer may answer with
  Request,        \* HTTP request threads
  Ops,            \* operator endpoints a run exercises
  Grace,          \* resolve_grace_seconds
  MinDuration,    \* min_duration_seconds
  RecurWindow,    \* recurrence.window_hours
  \* bounds of the model, none of them in the code
  MaxIncidents, MaxTickets, MaxRows, MaxStops, MaxMisses, MaxFaults

ASSUME CoreAssumption ==
  /\ Asset # {}
  /\ Ticketable \subseteq Codes /\ AutoCodes \subseteq Codes
  /\ "short_stop" \in Codes
  /\ EtaHours \subseteq Nat \ {0}
  /\ Grace \in Nat /\ MinDuration \in Nat /\ RecurWindow \in Nat
  /\ {MaxIncidents, MaxTickets, MaxRows, MaxStops, MaxMisses, MaxFaults} \subseteq Nat

Incidents == 1 .. MaxIncidents
Tickets   == 1 .. MaxTickets
Rows      == 1 .. MaxRows

VARIABLES
  machine,   \* what each loom does: external
  stops,     \* how often the looms have stopped; bounds the model
  faults,    \* crashes and failed database calls so far; bounds the model
  last,      \* the source adapter's _last, in memory
  active,    \* assets.active
  retired,   \* assets with a decommissioned_at
  offplan,   \* assets with a live row in asset_offplan
  inc,       \* table incidents, with incident_reasons folded in
  tkt,       \* table tickets
  esc,       \* table escalations: the pending rows
  outbox,    \* table outbox: what was ever queued
  dead,      \* the part of outbox known never to have reached a phone
  pollPc, batch, ev, found, fresh,   \* the poller thread
  tickPc, settled, due,              \* the ticker thread
  req                                \* the request threads

plant    == <<machine, stops>>
assets   == <<active, retired, offplan>>
mail     == <<outbox, dead>>
tables   == <<inc, tkt, esc, outbox, dead>>
poller   == <<pollPc, batch, ev, found, fresh>>
ticker   == <<tickPc, settled, due>>
vars     == <<plant, faults, last, assets, tables, poller, ticker, req>>

-----------------------------------------------------------------------------
(* Rows. *)

Status == {"none", "open", "resolving", "resolved"}

\* asset_id, status, the age of opened_at, the time left to resolve_due_at,
\* the age at which the loom resumed (resolved_at), incident_reasons in
\* order, and whether a K_REOPENED event was logged.  While an incident is open
\* it has neither a resolved_at nor a resolve_due_at.
IncidentRow ==
  {row \in [asset : Asset, status : Status, age : 0 .. AgeCap, left : Nat,
            ran : 0 .. AgeCap, reasons : Seq(Codes), reopened : BOOLEAN] :
     row.status = "open" => row.left = 0 /\ row.ran = 0}

\* incident_id, code, status, the age of opened_at, the time left to
\* eta_due_at (0: none, or in the past), eta_misses, reopen_count, and whether
\* first_notified_at is set.
TicketRow ==
  [inc : Incidents \cup {NULL}, code : Codes, status : {"none", "open", "closed"},
   age : 0 .. AgeCap, eta : Nat, misses : Nat, reopens : Nat,
   notified : BOOLEAN]

\* One queued page.  Everything but `ask` is the dedupe key of fire(): entity,
\* rung, :miss, :rep, :reask and person.  The key of a repeat carries the row
\* id and is new each time; such keys share one element, and queueing a repeat
\* anew makes that element live again.
Message ==
  [inc : Incidents \cup {NULL}, tkt : Tickets \cup {NULL}, rung : Nat,
   miss : Nat, rep : BOOLEAN, reask : BOOLEAN,
   to : (UNION Rosters) \cup {"unrouted"}, ask : BOOLEAN]

Event == [kind : {"opened", "resolved"}, asset : Asset]

RequestState ==
  [doing : {"idle", "reason", "eta", "forward"},
   inc : Incidents \cup {NULL}, tkt : Tickets \cup {NULL}]

NoIncident == [asset |-> CHOOSE a \in Asset : TRUE, status |-> "none", age |-> 0,
               left |-> 0, ran |-> 0, reasons |-> << >>, reopened |-> FALSE]
NoTicket   == [inc |-> NULL, code |-> "short_stop", status |-> "none", age |-> 0,
               eta |-> 0, misses |-> 0, reopens |-> 0, notified |-> FALSE]
NoEvent    == [kind |-> "opened", asset |-> CHOOSE a \in Asset : TRUE]
NotFound   == [id |-> NULL, status |-> "none"]
Idle       == [doing |-> "idle", inc |-> NULL, tkt |-> NULL]

-----------------------------------------------------------------------------
(* Queries. *)

Live(i)   == inc[i].status \in {"open", "resolving"}
\* Mutant of LiveOf: an incident inside its grace is not live.
LiveOfOpenOnly(a) == {i \in Incidents : inc[i].status = "open" /\ inc[i].asset = a}

LiveOf(a) == {i \in Incidents : Live(i) /\ inc[i].asset = a}

OpenTickets(i) == {t \in Tickets : tkt[t].inc = i /\ tkt[t].status = "open"}

\* SELECT ... LIMIT 1 with no order: no row, or any one of them.
LimitOne(S) == IF S = {} THEN {{}} ELSE {{x} : x \in S}

IncidentOf(row) == IF row.tkt # NULL THEN tkt[row.tkt].inc ELSE row.inc
LadderOf(row)   == IF row.tkt # NULL THEN LadderFor[tkt[row.tkt].code] ELSE UnknownLadder

\* _incident_open_no_reason
Unanswered(i) == Live(i) /\ inc[i].reasons = << >>

\* AUTO_INCREMENT.  A row of escalations that no worker holds any more is
\* forgotten, and its place used again.
NextIncident(i) == inc[i].status = "none" /\ \A j \in Incidents : j < i => inc[j].status # "none"
NextTicket(t)   == tkt[t].status = "none" /\ \A u \in Tickets : u < t => tkt[u].status # "none"
FreeRow(r)      == esc[r] = NoRow /\ r \notin due
NextRow(r)      == FreeRow(r) /\ \A s \in Rows : s < r => ~FreeRow(s)

-----------------------------------------------------------------------------
(* The plant and the clock. *)

MachineStops(a) ==
  /\ machine[a] = "RUNNING" /\ stops < MaxStops
  /\ machine' = [machine EXCEPT ![a] = "STOPPED"]
  /\ stops' = stops + 1
  /\ UNCHANGED <<faults, last, assets, tables, poller, ticker, req>>

MachineRuns(a) ==
  /\ machine[a] = "STOPPED"
  /\ machine' = [machine EXCEPT ![a] = "RUNNING"]
  /\ UNCHANGED <<stops, faults, last, assets, tables, poller, ticker, req>>

\* Mutant of Less: a last unit that never passes.
LessNotTheLast(n) == IF n > 1 THEN n - 1 ELSE n

Less(n) == IF n > 0 THEN n - 1 ELSE 0
Older(n) == Lower(n + 1, AgeCap)

\* One unit of time passes, for every absolute time stored in the tables.
Advance ==
  /\ inc' = [i \in Incidents |-> IF inc[i].status = "none" THEN inc[i]
                ELSE [inc[i] EXCEPT !.age = Older(@), !.left = Less(@)]]
  /\ tkt' = [t \in Tickets |-> IF tkt[t].status = "none" THEN tkt[t]
                ELSE [tkt[t] EXCEPT !.age = Older(@), !.eta = Less(@)]]
  /\ esc' = [r \in Rows |-> [esc[r] EXCEPT !.due = Less(@)]]
  /\ UNCHANGED <<plant, faults, last, assets, mail, poller, ticker, req>>

-----------------------------------------------------------------------------
(* Timers and reasons, shared by several threads. *)

\* Mutant of CancelForIncident: the answer leaves the question's ladder running.
CancelNothing(i) == esc

CancelForIncident(i) == [r \in Rows |-> IF esc[r].inc = i THEN NoRow ELSE esc[r]]

\* Mutant of CancelAll: the timers of the tickets are forgotten.
CancelIncidentsOnly(I, T) == [r \in Rows |-> IF esc[r].inc \in I THEN NoRow ELSE esc[r]]

\* Pending rows of the incidents I and of the tickets T are cancelled.
CancelAll(I, T) ==
  [r \in Rows |-> IF esc[r].inc \in I \/ esc[r].tkt \in T THEN NoRow ELSE esc[r]]

\* compute_start: tickets of this asset and code inside the window.
Prior(i, code) ==
  Cardinality({t \in Tickets : /\ tkt[t].status # "none" /\ tkt[t].code = code
                               /\ tkt[t].age <= RecurWindow
                               /\ inc[tkt[t].inc].asset = inc[i].asset})

\* _open_ticket, inside the transaction of set_reason.  The ticket counts
\* itself among the recurrences when its own opened_at is inside the window.
OpenTicket(i, code, age) ==
  \E t \in Tickets :
    /\ NextTicket(t)
    /\ tkt' = [tkt EXCEPT ![t] = [NoTicket EXCEPT !.inc = i, !.code = code,
                                                  !.status = "open", !.age = age]]
    /\ LET prior == Prior(i, code) + (IF age <= RecurWindow THEN 1 ELSE 0)
       IN  IF LadderFor[code] = << >> THEN esc' = CancelForIncident(i)
           ELSE \E r \in Rows :
                  /\ NextRow(r)
                  /\ esc' = [CancelForIncident(i) EXCEPT ![r] = FirstPage(t, code, age, prior)]

\* Mutant of SetReason: it does not look for a ticket that is open already.
SetReasonBlindly(i, code, age) ==
  /\ inc' = [inc EXCEPT ![i].reasons = Append(@, code)]
  /\ \/ code \in Ticketable /\ OpenTicket(i, code, age)
     \/ code \notin Ticketable /\ esc' = CancelForIncident(i) /\ UNCHANGED tkt

\* set_reason: one transaction.  It checks neither that the incident is still
\* live nor that it has no reason yet.
SetReason(i, code, age) ==
  /\ inc' = [inc EXCEPT ![i].reasons = Append(@, code)]
  /\ \/ /\ code \in Ticketable /\ OpenTickets(i) = {}
        /\ OpenTicket(i, code, age)
     \/ /\ code \notin Ticketable \/ OpenTickets(i) # {}
        /\ esc' = CancelForIncident(i)
        /\ UNCHANGED tkt

-----------------------------------------------------------------------------
(* The poller: poll_once -> apply_events. *)

\* Where the batch goes once an event or an incident of it is dealt with.
NextPc(events, opened) ==
  IF events # {} THEN "apply" ELSE IF opened # {} THEN "classify" ELSE "idle"

\* source.poll: the difference with the last poll, which it forgets at once;
\* then the off-plan and the retired looms, read once for the whole batch.
PollFetch ==
  /\ pollPc = "idle"
  /\ LET stopped == {a \in Asset : machine[a] = "STOPPED" /\ last[a] # "STOPPED"}
         resumed == {a \in Asset : machine[a] = "RUNNING" /\ last[a] = "STOPPED"}
     IN  batch' = [kind : {"opened"}, asset : stopped \ (retired \cup offplan)]
                    \cup [kind : {"resolved"}, asset : resumed]
  /\ last' = machine
  /\ pollPc' = NextPc(batch', {})
  /\ UNCHANGED <<plant, faults, assets, tables, ev, found, fresh, ticker, req>>

\* The newest live incident of the asset: read before open_incident's and
\* begin_resolve's transactions.
PollRead(e) ==
  /\ pollPc = "apply" /\ e \in batch
  /\ ev' = e /\ batch' = batch \ {e}
  /\ \/ LiveOf(e.asset) = {} /\ found' = NotFound
     \/ \E i \in LiveOf(e.asset) :
          /\ \A j \in LiveOf(e.asset) : j <= i
          /\ found' = [id |-> i, status |-> inc[i].status]
  /\ pollPc' = "act"
  /\ UNCHANGED <<plant, faults, last, assets, tables, fresh, ticker, req>>

\* The event in hand is done with.
EventDone ==
  /\ ev' = NoEvent /\ found' = NotFound
  /\ pollPc' = NextPc(batch, fresh')
  /\ UNCHANGED batch

\* Mutant of EnsureAsset: reporting always puts a loom back in service.
EnsureAssetAlways(a) == active \cup {a}

\* ensure_asset: reporting puts a loom in service, unless a person retired it.
EnsureAsset(a) == IF a \in retired THEN active ELSE active \cup {a}

\* open_incident, no incident found: a new one, and the asset is registered.
PollInsert ==
  /\ pollPc = "act" /\ ev.kind = "opened" /\ found = NotFound
  /\ \E i \in Incidents :
       /\ NextIncident(i)
       /\ inc' = [inc EXCEPT ![i] = [NoIncident EXCEPT !.asset = ev.asset, !.status = "open"]]
       /\ fresh' = fresh \cup {i}
  /\ active' = EnsureAsset(ev.asset)
  /\ EventDone
  /\ UNCHANGED <<plant, faults, last, retired, offplan, tkt, esc, mail, ticker, req>>

\* Mutant of Reopened: the resume that was taken back stays in the row.
ReopenedAsResumed(row) == [row EXCEPT !.status = "open", !.reopened = TRUE]

\* The row reopen writes: the loom has not resumed after all.
Reopened(row) ==
  [row EXCEPT !.status = "open", !.left = 0, !.ran = 0, !.reopened = TRUE]

\* open_incident, an incident found: reopen it if it was inside its grace when
\* read, and, as reopen checks again, still is.
PollReopen ==
  /\ pollPc = "act" /\ ev.kind = "opened" /\ found # NotFound
  /\ \/ /\ found.status = "resolving" /\ inc[found.id].status = "resolving"
        /\ inc' = [inc EXCEPT ![found.id] = Reopened(@)]
        /\ \E again \in LimitOne(OpenTickets(found.id)) :
             tkt' = [t \in Tickets |-> IF t \in again
                       THEN [tkt[t] EXCEPT !.reopens = @ + 1] ELSE tkt[t]]
     \/ /\ found.status = "open" \/ inc[found.id].status # "resolving"
        /\ UNCHANGED <<inc, tkt>>
  /\ UNCHANGED fresh /\ EventDone
  /\ UNCHANGED <<plant, faults, last, assets, esc, mail, ticker, req>>

\* begin_resolve: the grace window.
PollResolve ==
  /\ pollPc = "act" /\ ev.kind = "resolved"
  /\ inc' = IF found # NotFound /\ inc[found.id].status = "open"
              THEN [inc EXCEPT ![found.id].status = "resolving", ![found.id].left = Grace,
                               ![found.id].ran = inc[found.id].age]
              ELSE inc
  /\ UNCHANGED fresh /\ EventDone
  /\ UNCHANGED <<plant, faults, last, assets, tkt, esc, mail, ticker, req>>

\* on_open, for every incident the batch opened: an automatic reason (which one
\* the fleet decides, see classify_at_open), or the reason-prompt ladder.
PollClassify(i) ==
  /\ pollPc = "classify" /\ i \in fresh
  /\ fresh' = fresh \ {i}
  /\ pollPc' = NextPc({}, fresh')
  /\ \/ \E code \in AutoCodes : SetReason(i, code, inc[i].age)
     \/ /\ UNCHANGED <<inc, tkt>>
        /\ IF UnknownLadder = << >> THEN UNCHANGED esc
           ELSE \E r \in Rows : /\ NextRow(r)
                                /\ esc' = [esc EXCEPT ![r] = FirstPrompt(i, inc[i].age)]
  /\ UNCHANGED <<plant, faults, last, assets, mail, batch, ev, found, ticker, req>>

\* An exception in apply_events: the worker logs it and polls again later; the
\* rest of the batch is gone, and so are the incidents still to classify.
PollFails ==
  /\ pollPc # "idle" /\ faults < MaxFaults
  /\ faults' = faults + 1
  /\ pollPc' = "idle" /\ batch' = {} /\ ev' = NoEvent /\ found' = NotFound /\ fresh' = {}
  /\ UNCHANGED <<plant, last, assets, tables, ticker, req>>

-----------------------------------------------------------------------------
(* The ticker: tick. *)

\* Incidents whose grace has elapsed.
Settled == {i \in Incidents : inc[i].status = "resolving" /\ inc[i].left = 0}

TickBegin ==
  /\ tickPc = "idle" /\ Settled # {}
  /\ settled' = Settled
  /\ tickPc' = "resolve"
  /\ UNCHANGED <<plant, faults, last, assets, tables, poller, due, req>>

\* commit_resolve: closes the incident and its ticket, cancels their timers,
\* and codes a short stop nobody gave a reason for.  It checks the status
\* again, not resolve_due_at.
TickCommit(i) ==
  /\ tickPc = "resolve" /\ i \in settled
  /\ settled' = settled \ {i}
  /\ \/ /\ inc[i].status = "resolving"
        /\ inc' = [inc EXCEPT ![i].status = "resolved", ![i].left = 0,
                     ![i].reasons = IF @ = << >> /\ inc[i].ran < MinDuration
                                      THEN << "short_stop" >> ELSE @]
        /\ \E shut \in LimitOne(OpenTickets(i)) :
             /\ tkt' = [t \in Tickets |-> IF t \in shut
                          THEN [tkt[t] EXCEPT !.status = "closed"] ELSE tkt[t]]
             /\ esc' = CancelAll({i}, shut)
     \/ /\ inc[i].status # "resolving"
        /\ UNCHANGED <<inc, tkt, esc>>
  /\ UNCHANGED <<plant, faults, last, assets, mail, poller, tickPc, due, req>>

\* The due rungs, once the resolutions are done (or there were none).
TickQuery ==
  /\ \/ tickPc = "idle" /\ Settled = {}
     \/ tickPc = "resolve" /\ settled = {}
  /\ due' = {r \in Rows : esc[r] # NoRow /\ esc[r].due = 0}
  /\ tickPc' = IF due' = {} THEN "idle" ELSE "fire"
  /\ UNCHANGED <<plant, faults, last, assets, tables, poller, settled, req>>

\* Row r of the snapshot is dealt with.
RowDone(r) ==
  /\ due' = due \ {r}
  /\ tickPc' = IF due' = {} THEN "idle" ELSE "fire"
  /\ UNCHANGED settled

\* Mutant of Moot: a rung that comes due inside the grace window pages.
MootWhenClosed(row) ==
  \/ row.tkt # NULL /\ tkt[row.tkt].status = "closed"
  \/ inc[IncidentOf(row)].status = "resolved"

\* fire: nobody is paged about a closed ticket or a loom that has resumed.
Moot(row) ==
  \/ row.tkt # NULL /\ tkt[row.tkt].status = "closed"
  \/ inc[IncidentOf(row)].status \in {"resolving", "resolved"}

\* _ask_reached_anyone
AskReached(row) ==
  \E m \in outbox \ dead : m.ask /\ m.tkt = row.tkt /\ m.inc = row.inc

\* fire: a reminder of a question that never reached anyone becomes that
\* question; an estimate that ran out becomes a new request for one.
ReAsks(row) ==
  /\ row.act = "none" /\ ~AskReached(row)
  /\ row.tkt = NULL => inc[row.inc].reasons = << >>

Misses(row) == row.act = "eta_check"

\* The types of payload that are questions: reason_prompt, eta_request.
Asks(row) ==
  \/ row.act = "ask_reason"
  \/ row.act = "ask_eta" /\ row.tkt # NULL
  \/ Misses(row) \/ ReAsks(row)

\* Mutant of Page: the key of a repeat is the key of its rung.
PageByRung(row, p) ==
  [inc |-> row.inc, tkt |-> row.tkt, rung |-> row.rung,
   miss |-> IF Misses(row) THEN tkt[row.tkt].misses + 1 ELSE 0,
   rep |-> FALSE, reask |-> ReAsks(row), to |-> p, ask |-> Asks(row)]

\* The message that `row` queues for person p.
Page(row, p) ==
  [inc |-> row.inc, tkt |-> row.tkt, rung |-> row.rung,
   miss |-> IF Misses(row) THEN tkt[row.tkt].misses + 1 ELSE 0,
   rep |-> row.trig = "repeat", reask |-> ReAsks(row), to |-> p, ask |-> Asks(row)]

\* fire, past the checks: count a missed estimate, queue one page a recipient
\* (INSERT IGNORE: a key already there is left alone), write the next rung.
FireRow(r) ==
  LET row  == esc[r]
      base == IF Misses(row) THEN 0
              ELSE IF row.tkt # NULL THEN tkt[row.tkt].age ELSE inc[row.inc].age
  IN  /\ \E who \in Rosters :
           LET sent == {Page(row, p) : p \in IF who = {} THEN {"unrouted"} ELSE who}
           IN  /\ outbox' = outbox \cup sent
               /\ dead' = IF row.trig = "repeat" THEN dead \ sent ELSE dead
      /\ tkt' = IF row.tkt = NULL THEN tkt
                ELSE [tkt EXCEPT ![row.tkt].notified = @ \/ row.act # "ask_reason",
                                 ![row.tkt].misses = IF Misses(row) THEN @ + 1 ELSE @]
      /\ esc' = [esc EXCEPT ![r] = Successor(row, LadderOf(row), base)]

\* One row of the snapshot, in a transaction of its own that reads it again.
TickFire(r) ==
  /\ tickPc = "fire" /\ r \in due
  /\ \/ esc[r] = NoRow /\ UNCHANGED <<tkt, esc, mail>>
     \/ esc[r] # NoRow /\ Moot(esc[r])
          /\ esc' = [esc EXCEPT ![r] = NoRow] /\ UNCHANGED <<tkt, mail>>
     \/ esc[r] # NoRow /\ ~Moot(esc[r]) /\ FireRow(r)
  /\ RowDone(r)
  /\ UNCHANGED <<plant, faults, last, assets, inc, poller, req>>

\* fire raised: the row is parked as 'wedged'.
TickWedge(r) ==
  /\ tickPc = "fire" /\ r \in due /\ esc[r] # NoRow /\ faults < MaxFaults
  /\ faults' = faults + 1
  /\ esc' = [esc EXCEPT ![r] = NoRow]
  /\ RowDone(r)
  /\ UNCHANGED <<plant, last, assets, inc, tkt, mail, poller, req>>

\* commit_resolve raised: nothing in tick catches it, the pass is over.
TickFails ==
  /\ tickPc = "resolve" /\ settled # {} /\ faults < MaxFaults
  /\ faults' = faults + 1
  /\ tickPc' = "idle" /\ settled' = {}
  /\ UNCHANGED <<plant, last, assets, tables, poller, due, req>>

\* The provider gave up on a page, or reported it undelivered.
MessageDies(m) ==
  /\ m \in outbox \ dead /\ faults < MaxFaults
  /\ faults' = faults + 1
  /\ dead' = dead \cup {m}
  /\ UNCHANGED <<plant, last, assets, inc, tkt, esc, outbox, poller, ticker, req>>

-----------------------------------------------------------------------------
(* The request threads: a question is looked up in one step and acted on in *)
(* a later one.                                                             *)

Begin(q, doing, i, t) ==
  /\ req[q] = Idle
  /\ req' = [req EXCEPT ![q] = [doing |-> doing, inc |-> i, tkt |-> t]]
  /\ UNCHANGED <<plant, faults, last, assets, tables, poller, ticker>>

\* _answer_target, _last_question_to: a reply from the floor is about a question
\* that was queued.  It names a reason, or hands the job over ("not me").
ReplyToPrompt(q, i) ==
  /\ Unanswered(i) /\ \E m \in outbox : m.inc = i /\ m.ask
  /\ \/ Begin(q, "reason", i, NULL)
     \/ "pass" \in Ops /\ Begin(q, "forward", i, NULL)

\* The same for the request of an estimate: any open ticket takes one.
ReplyToEta(q, t) ==
  /\ tkt[t].status = "open" /\ \E m \in outbox : m.tkt = t /\ m.ask
  /\ \/ EtaHours # {} /\ Begin(q, "eta", NULL, t)
     \/ "pass" \in Ops /\ Begin(q, "forward", NULL, t)

\* _find_incident, by the loom the reply names ("91 1", "91 pass"): no question
\* need have been sent.
NamedReply(q, i) ==
  /\ "named" \in Ops /\ Unanswered(i)
  /\ \/ Begin(q, "reason", i, NULL)
     \/ "pass" \in Ops /\ Begin(q, "forward", i, NULL)

\* set_incident_reason, up to its checks.
PanelReason(q, i) ==
  "panel" \in Ops /\ Unanswered(i) /\ Begin(q, "reason", i, NULL)

\* remind_now, up to the open ticket it reads.
PanelRemind(q, i) ==
  /\ "remind" \in Ops /\ Live(i)
  /\ \/ OpenTickets(i) = {} /\ Begin(q, "forward", i, NULL)
     \/ \E t \in OpenTickets(i) : (\A u \in OpenTickets(i) : u <= t) /\ Begin(q, "forward", i, t)

Finish(q) ==
  /\ req' = [req EXCEPT ![q] = Idle]
  /\ UNCHANGED <<plant, faults, last, assets, mail, poller, ticker>>

\* set_reason, by reply or panel: nobody asks again whether it was answered.
RequestReason(q) ==
  /\ req[q].doing = "reason"
  /\ \E code \in Codes : SetReason(req[q].inc, code, 0)
  /\ Finish(q)

\* set_eta: the promise replaces every pending rung of the ticket.
RequestEta(q) ==
  LET t == req[q].tkt IN
  /\ req[q].doing = "eta"
  /\ \/ /\ tkt[t].status = "open" /\ tkt[t].misses < MaxMisses
        /\ \E h \in EtaHours, r \in Rows :
             /\ NextRow(r)
             /\ tkt' = [tkt EXCEPT ![t].eta = h]
             /\ esc' = [CancelAll({}, {t}) EXCEPT ![r] = EtaCheck(t, h)]
     \/ tkt[t].status = "closed" /\ UNCHANGED <<tkt, esc>>
  /\ UNCHANGED inc
  /\ Finish(q)

\* _handle_pass, remind_now: what is scheduled is due now.
RequestForward(q) ==
  /\ req[q].doing = "forward"
  /\ esc' = [r \in Rows |->
               IF \/ req[q].inc # NULL /\ esc[r].inc = req[q].inc
                  \/ req[q].tkt # NULL /\ esc[r].tkt = req[q].tkt
               THEN [esc[r] EXCEPT !.due = 0] ELSE esc[r]]
  /\ UNCHANGED <<inc, tkt>>
  /\ Finish(q)

\* set_offplan: the live incident is resolved as planned downtime.  Only the
\* timers of the incident are cancelled, and its ticket is left alone.
SetOffplan(a) ==
  /\ "offplan" \in Ops
  /\ offplan' = offplan \cup {a}
  /\ inc' = [i \in Incidents |-> IF i \in LiveOf(a)
               THEN [inc[i] EXCEPT !.status = "resolved", !.ran = inc[i].age] ELSE inc[i]]
  /\ esc' = CancelAll(LiveOf(a), {})
  /\ UNCHANGED <<plant, faults, last, active, retired, tkt, mail, poller, ticker, req>>

\* clear_offplan, or until_at goes by.
OffplanEnds(a) ==
  /\ a \in offplan
  /\ offplan' = offplan \ {a}
  /\ UNCHANGED <<plant, faults, last, active, retired, tables, poller, ticker, req>>

\* decommission_asset: closes the incident, its ticket, and the timers of both.
Decommission(a) ==
  LET gone == LiveOf(a) IN
  /\ "retire" \in Ops
  /\ retired' = retired \cup {a} /\ active' = active \ {a}
  /\ inc' = [i \in Incidents |-> IF i \in gone
               THEN [inc[i] EXCEPT !.status = "resolved", !.ran = inc[i].age] ELSE inc[i]]
  /\ LET shut == UNION {OpenTickets(i) : i \in gone}
     IN  /\ tkt' = [t \in Tickets |-> IF t \in shut
                      THEN [tkt[t] EXCEPT !.status = "closed"] ELSE tkt[t]]
         /\ esc' = CancelAll(gone, shut)
  /\ UNCHANGED <<plant, faults, last, offplan, mail, poller, ticker, req>>

\* recommission_asset
Recommission(a) ==
  /\ a \in retired
  /\ retired' = retired \ {a} /\ active' = active \cup {a}
  /\ UNCHANGED <<plant, faults, last, offplan, tables, poller, ticker, req>>

-----------------------------------------------------------------------------
(* Start, crash, restart. *)

\* seed: a loom with a live incident resumes it; any other stopped loom is
\* left unset, so that the first poll opens its incident.
Seeded ==
  [a \in Asset |-> IF LiveOf(a) # {} THEN "STOPPED"
                   ELSE IF machine[a] = "STOPPED" THEN "UNSET" ELSE "RUNNING"]

\* The process dies between two steps and is started again.
Restart ==
  /\ faults < MaxFaults
  /\ faults' = faults + 1
  /\ last' = Seeded
  /\ pollPc' = "idle" /\ batch' = {} /\ ev' = NoEvent /\ found' = NotFound /\ fresh' = {}
  /\ tickPc' = "idle" /\ settled' = {} /\ due' = {}
  /\ req' = [q \in Request |-> Idle]
  /\ UNCHANGED <<plant, assets, tables>>

Init ==
  /\ machine = [a \in Asset |-> "RUNNING"] /\ last = machine
  /\ stops = 0 /\ faults = 0
  /\ active = Asset /\ retired = {} /\ offplan = {}
  /\ inc = [i \in Incidents |-> NoIncident]
  /\ tkt = [t \in Tickets |-> NoTicket]
  /\ esc = [r \in Rows |-> NoRow]
  /\ outbox = {} /\ dead = {}
  /\ pollPc = "idle" /\ batch = {} /\ ev = NoEvent /\ found = NotFound /\ fresh = {}
  /\ tickPc = "idle" /\ settled = {} /\ due = {}
  /\ req = [q \in Request |-> Idle]

PollerStep ==
  \/ PollFetch
  \/ \E e \in batch : PollRead(e)
  \/ PollInsert \/ PollReopen \/ PollResolve
  \/ \E i \in fresh : PollClassify(i)

TickerStep ==
  \/ TickBegin
  \/ \E i \in settled : TickCommit(i)
  \/ TickQuery
  \/ \E r \in due : TickFire(r)

Answer(q) ==
  \/ \E i \in Incidents :
       ReplyToPrompt(q, i) \/ NamedReply(q, i) \/ PanelReason(q, i) \/ PanelRemind(q, i)
  \/ \E t \in Tickets : ReplyToEta(q, t)

Act(q) == RequestReason(q) \/ RequestEta(q) \/ RequestForward(q)

Panel(a) == SetOffplan(a) \/ OffplanEnds(a) \/ Decommission(a) \/ Recommission(a)

Trouble ==
  \/ PollFails \/ TickFails \/ Restart
  \/ \E r \in due : TickWedge(r)
  \/ \E m \in outbox : MessageDies(m)

Next ==
  \/ \E a \in Asset : MachineStops(a) \/ MachineRuns(a) \/ Panel(a)
  \/ Advance
  \/ PollerStep \/ TickerStep
  \/ \E q \in Request : Answer(q) \/ Act(q)
  \/ Trouble

Spec == Init /\ [][Next]_vars

\* The worker threads run for ever and never block, a request that has begun is
\* carried through, and time passes.  The looms, the floor and the panel owe
\* nothing.
FairSpec ==
  /\ Spec
  /\ WF_vars(PollerStep) /\ WF_vars(TickerStep) /\ WF_vars(Advance)
  /\ \A q \in Request : WF_vars(Act(q))

-----------------------------------------------------------------------------
(* Properties. *)

\* Every table and every thread holds what it may hold.  A reopened incident
\* carries nothing over from the resume it took back: while it is open its row
\* has no resolved_at, from which commit_resolve would time it, and no
\* resolve_due_at.
TypeOK ==
  /\ machine \in [Asset -> {"RUNNING", "STOPPED"}]
  /\ stops \in 0 .. MaxStops /\ faults \in 0 .. MaxFaults
  /\ last \in [Asset -> {"UNSET", "RUNNING", "STOPPED"}]
  /\ active \subseteq Asset /\ retired \subseteq Asset /\ offplan \subseteq Asset
  /\ inc \in [Incidents -> IncidentRow]
  /\ tkt \in [Tickets -> TicketRow]
  /\ esc \in [Rows -> Pending(Incidents, Tickets)]
  /\ outbox \subseteq Message /\ dead \subseteq outbox
  /\ pollPc \in {"idle", "apply", "act", "classify"}
  /\ batch \subseteq Event /\ ev \in Event
  /\ found \in [id : Incidents \cup {NULL}, status : Status]
  /\ fresh \subseteq Incidents
  /\ tickPc \in {"idle", "resolve", "fire"}
  /\ settled \subseteq Incidents /\ due \subseteq Rows
  /\ req \in [Request -> RequestState]

\* A ladder is one timer at a time: a ticket, and likewise an incident without
\* one, never has two pending rungs, whoever schedules them (set_reason,
\* set_eta, on_open and fire all insert rows), so nobody is chased twice over.
OneTimerPerLadder ==
  \A r, s \in Rows :
    /\ esc[r] # NoRow /\ esc[s] # NoRow
    /\ esc[r].inc = esc[s].inc /\ esc[r].tkt = esc[s].tkt
    => r = s

\* A stop is never recorded twice: open_incident looks for a live incident
\* outside the transaction that inserts one, and a loom still never has two.
OneLiveIncident ==
  \A i, j \in Incidents :
    Live(i) /\ Live(j) /\ inc[i].asset = inc[j].asset => i = j

\* Two answers that race each other, or an answer and the automatic reason,
\* never open two tickets for one fault.
OneOpenTicket ==
  \A t, u \in Tickets :
    tkt[t].status = "open" /\ tkt[u].status = "open" /\ tkt[t].inc = tkt[u].inc => t = u

\* Whatever closed a ticket (the loom resumed, or was retired), nothing about
\* it is still scheduled, and nothing can be scheduled again.
ClosedTicketIsSilent ==
  \A r \in Rows : esc[r].tkt # NULL => tkt[esc[r].tkt].status = "open"

\* Once a fault has its reason, the reason-prompt ladder of it is over, though
\* two replies may be on their way at once and a rung may be in the ticker's hands.
AnsweredStopsAsking ==
  \A i \in Incidents :
    inc[i].reasons # << >> => \A r \in Rows : esc[r].inc # i

\* set_eta's bargain: while a promise runs, the only thing scheduled about the
\* ticket is the check at its end, whatever rung was in the ticker's hands when
\* the fixer answered.
EtaSnoozes ==
  \A r \in Rows :
    esc[r].tkt # NULL /\ tkt[esc[r].tkt].eta > 0 => esc[r].act = "eta_check"

\* A stopped loom is not forgotten: an incident that has never entered its grace
\* window is about to be classified, or has a rung pending, or was answered with
\* a reason that needs nobody.  (Of faults of the database nothing is promised.)
StillChased ==
  faults = 0 /\ Repeats(UnknownLadder) /\ (\A c \in Ticketable : Repeats(LadderFor[c])) =>
    \A i \in Incidents : inc[i].status = "open" /\ ~inc[i].reopened =>
      \/ i \in fresh
      \/ \E r \in Rows : esc[r] # NoRow /\ IncidentOf(esc[r]) = i
      \/ inc[i].reasons # << >> /\ OpenTickets(i) = {}

\* A loom that was retired by a person is not put back in service because it
\* goes on reporting, not even by the batch that was fetched before.
RetiredStaysRetired == active \cap retired = {}

\* The ticker has dealt with row r in this step, and should have paged for it.
Fires(r) ==
  /\ r \in due /\ r \notin due' /\ faults' = faults
  /\ esc[r] # NoRow /\ ~Moot(esc[r])

\* A rung that fires reaches the outbox: its dedupe key is never one that an
\* earlier rung has used, so INSERT IGNORE never swallows a page.
EveryPageQueued ==
  [][\A r \in Rows : Fires(r) =>
       \/ outbox' # outbox
       \/ \E m \in outbox' \ dead' :
            m.rep /\ m.tkt = esc[r].tkt /\ m.inc = esc[r].inc /\ m.rung = esc[r].rung]_vars

\* A stop that commit_resolve codes as a short stop is one nobody was asked about.
ShortStopNotAsked ==
  [][\A i \in settled \ settled' :
       inc[i].reasons = << >> /\ inc'[i].reasons = << "short_stop" >>
         => ~\E m \in outbox : m.inc = i /\ m.ask]_vars

\* What is promised of a fault whoever handles it: see FaultContract.
Contract == INSTANCE FaultContract WITH
  Fault <- Incidents, Loom <- Asset,
  about <- [i \in Incidents |-> inc[i].asset],
  state <- [i \in Incidents |-> inc[i].status],
  said  <- [i \in Incidents |-> {m \in outbox : IF m.tkt = NULL THEN m.inc = i
                                                ELSE tkt[m.tkt].inc = i}]
ContractHolds == Contract!Spec

\* The loom that comes back for good has its incidents closed: no resume is lost
\* between the poller, which opens the grace window, and the ticker, which ends it.
RunningSettles ==
  \A a \in Asset :
    <>[](machine[a] = "RUNNING") => <>[](LiveOf(a) = {})

\* A rung that is due does not stay due: it fires, is dropped, or is replaced.
DueIsHandled ==
  \A r \in Rows :
    (esc[r] # NoRow /\ esc[r].due = 0) ~> (esc[r] = NoRow \/ esc[r].due > 0)

=============================================================================
