---------------------------- MODULE OpsCoreProofs ----------------------------
(***************************************************************************)
(* Proofs about OpsCore, for every value of its constants: any looms,      *)
(* ladders, request threads and endpoints, and any bounds.                 *)
(*                                                                         *)
(* The invariants of OpsCore are not inductive by themselves: that a loom  *)
(* has one live incident rests on what the poller has read and not yet     *)
(* used, that a ladder has one timer on what the timers refer to.  IInv    *)
(* adds those facts.  Most steps open nothing; they are `Closing`, and one *)
(* lemma does for all of them.                                             *)
(***************************************************************************)
EXTENDS OpsCore, TLAPS

\* The rows of the table escalations.
Row == Pending(Incidents, Tickets)

\* A pending row that is moved in time is a pending row.
LEMMA RowDue ==
  ASSUME NEW row \in Row, NEW d \in Nat
  PROVE  [row EXCEPT !.due = d] \in Row
BY DEF Row, Pending

\* The rows _schedule_next makes out of the row that fired are rows.
LEMMA RowShape ==
  ASSUME NEW row \in Row, NEW n \in Nat, NEW a \in Action, NEW d \in Nat,
         NEW g \in Trigger
  PROVE  /\ [row EXCEPT !.act = a, !.due = d, !.trig = g] \in Row
         /\ [row EXCEPT !.rung = n, !.act = a, !.due = d, !.trig = g] \in Row
BY DEF Row, Pending

\* The mark of a row nobody reads any more has the type of a row.
LEMMA NoRowType == NoRow \in Row
BY DEF Row, NoRow, Pending, Action, RungAction, Trigger, NULL

\* A place of the table incidents that was never used has its type.
LEMMA NoIncidentType == NoIncident \in IncidentRow
BY CoreAssumption, LadderAssumption DEF NoIncident, IncidentRow, Status

\* What a line of a ladder holds.
LEMMA RungType ==
  ASSUME NEW ladder \in Seq(Rung), NEW k \in 1 .. Len(ladder)
  PROVE  /\ ladder[k].after \in Nat
         /\ ladder[k].every \in Nat
         /\ ladder[k].act \in Action
<1>1. ladder[k] \in Rung
  OBVIOUS
<1> QED
  BY <1>1, LadderAssumption DEF Rung, Action

\* _schedule_next writes a row of the table, whatever ladder it reads.
LEMMA SuccessorType ==
  ASSUME NEW row \in Row, NEW ladder \in Seq(Rung), NEW age \in Nat
  PROVE  Successor(row, ladder, age) \in Row
<1> DEFINE nxt == row.rung + 1
           final == ladder[Len(ladder)]
<1>1. CASE nxt < Len(ladder)
  <2>1. ladder[nxt + 1].after \in Nat /\ ladder[nxt + 1].act \in Action
    BY <1>1, RungType DEF Row, Pending
  <2> QED
    <3>1. Remaining(ladder[nxt + 1].after, age) \in Nat
      BY <2>1 DEF Remaining
    <3>2. nxt \in Nat /\ "timer" \in Trigger
      BY DEF Row, Pending, Trigger
    <3> HIDE DEF nxt
    <3>3. [row EXCEPT !.rung = nxt, !.act = ladder[nxt + 1].act,
             !.due = Remaining(ladder[nxt + 1].after, age), !.trig = "timer"] \in Row
      BY <2>1, <3>1, <3>2, RowShape
    <3> QED
      BY <1>1, <3>3 DEF Successor, Step, nxt
<1>2. CASE ~(nxt < Len(ladder)) /\ ladder # << >> /\ final.every > 0
  <2>1. final.every \in Nat /\ final.act \in Action
    BY <1>2, RungType
  <2> QED
    <3>1. "repeat" \in Trigger
      BY DEF Trigger
    <3>2. [row EXCEPT !.act = final.act, !.due = final.every, !.trig = "repeat"] \in Row
      BY <2>1, <3>1, RowShape
    <3> QED
      BY <1>2, <3>2 DEF Successor
<1>3. CASE ~(nxt < Len(ladder)) /\ ~(ladder # << >> /\ final.every > 0)
  BY <1>3, NoRowType DEF Successor
<1> QED
  BY <1>1, <1>2, <1>3

\* schedule_unknown writes a row of the table.
LEMMA FirstPromptType ==
  ASSUME NEW i \in Incidents, NEW age \in Nat, UnknownLadder # << >>
  PROVE  FirstPrompt(i, age) \in Row
<1>1. UnknownLadder \in Seq(Rung) /\ 1 \in 1 .. Len(UnknownLadder)
  BY LadderAssumption
<1>2. UnknownLadder[1].after \in Nat /\ UnknownLadder[1].act \in Action
  BY <1>1, RungType
<1> QED
  BY <1>2 DEF FirstPrompt, Remaining, Row, Pending, Trigger, NULL

\* start_ladder writes a row of the table, also when the recurrence rung lies
\* beyond the end of a short ladder.
LEMMA FirstPageType ==
  ASSUME NEW t \in Tickets, NEW code \in Ticketable, NEW age \in Nat, NEW prior,
         LadderFor[code] # << >>
  PROVE  FirstPage(t, code, age, prior) \in Row
<1> DEFINE ladder == LadderFor[code]
           start  == IF SkipsAhead(prior) THEN Lower(RecurRung, Len(ladder) - 1) ELSE 0
<1>1. ladder \in Seq(Rung) /\ Len(ladder) \in Nat \ {0}
  BY LadderAssumption
<1>2. start \in Nat /\ start + 1 \in 1 .. Len(ladder)
  BY <1>1, LadderAssumption DEF Lower
<1>3. Step(ladder, start).after \in Nat /\ Step(ladder, start).act \in Action
  BY <1>1, <1>2, RungType DEF Step
<1> HIDE DEF start
<1>4. [inc |-> NULL, tkt |-> t, rung |-> start, act |-> Step(ladder, start).act,
       due  |-> IF SkipsAhead(prior) THEN 0 ELSE Remaining(Step(ladder, start).after, age),
       trig |-> IF SkipsAhead(prior) THEN "recurrence" ELSE "timer"] \in Row
  BY <1>2, <1>3 DEF Row, Pending, Remaining, Trigger
<1> QED
  BY <1>4 DEF FirstPage, start

\* set_eta writes a row of the table.
LEMMA EtaCheckType ==
  ASSUME NEW t \in Tickets, NEW h \in EtaHours
  PROVE  EtaCheck(t, h) \in Row
BY CoreAssumption DEF EtaCheck, Row, Pending, Action, Trigger, NULL

-----------------------------------------------------------------------------
(* The inductive invariant. *)

\* A ticket that was opened names its incident and a code that opens tickets.
TicketsRefer ==
  \A t \in Tickets : tkt[t].status # "none" =>
    tkt[t].inc \in Incidents /\ tkt[t].code \in Ticketable

\* A pending row is about an incident that was opened, or about a ticket that is
\* open; only the second kind checks an estimate.
RowsRefer ==
  \A r \in Rows : esc[r] # NoRow =>
    \/ /\ esc[r].tkt = NULL /\ esc[r].inc \in Incidents /\ esc[r].act # "eta_check"
       /\ inc[esc[r].inc].status # "none"
    \/ /\ esc[r].inc = NULL /\ esc[r].tkt \in Tickets
       /\ tkt[esc[r].tkt].status = "open"

\* An incident still to classify was opened, and nobody is to be asked about it yet.
FreshUnasked ==
  \A i \in fresh : inc[i].status # "none" /\ \A r \in Rows : esc[r].inc # i

\* What the poller has found is an incident that was opened; and if it found
\* none, there still is none when it inserts one.
PollerKnows ==
  /\ found # NotFound => found.id \in Incidents /\ inc[found.id].status # "none"
  /\ pollPc = "act" /\ ev.kind = "opened" /\ found = NotFound => LiveOf(ev.asset) = {}

\* A request is about a row that exists.
RequestKnows ==
  \A q \in Request :
    /\ req[q].doing = "reason" => req[q].inc \in Incidents
    /\ req[q].doing = "eta" => req[q].tkt \in Tickets

IInv ==
  /\ TypeOK
  /\ TicketsRefer /\ RowsRefer /\ FreshUnasked /\ PollerKnows /\ RequestKnows
  /\ OneTimerPerLadder /\ OneLiveIncident /\ OneOpenTicket

\* No row is about nothing.
LEMMA NoRowFields == NoRow.inc = NULL /\ NoRow.tkt = NULL
BY DEF NoRow

\* The inductive invariant holds when the program starts on empty tables.
THEOREM InitIInv == Init => IInv
<1> SUFFICES ASSUME Init PROVE IInv
  OBVIOUS
<1>1. TypeOK
  BY CoreAssumption, LadderAssumption, NoRowType
  DEF Init, TypeOK, NoIncident, NoTicket, NoEvent, NotFound, Idle, IncidentRow, TicketRow,
      Status, Event, RequestState, NULL, Row
<1>2. TicketsRefer /\ RowsRefer /\ FreshUnasked /\ RequestKnows
  BY DEF Init, TicketsRefer, RowsRefer, FreshUnasked, RequestKnows, NoTicket, Idle
<1>3. PollerKnows /\ OneTimerPerLadder /\ OneLiveIncident /\ OneOpenTicket
  BY DEF Init, PollerKnows, OneTimerPerLadder, OneLiveIncident, OneOpenTicket, Live,
         NoIncident, NoTicket
<1> QED
  BY <1>1, <1>2, <1>3 DEF IInv

-----------------------------------------------------------------------------
(* Steps that leave the incidents, the tickets and the timers alone. *)

\* What leaves the three tables alone keeps what is known of them.
LEMMA SameTables ==
  ASSUME IInv, UNCHANGED <<inc, tkt, esc>>
  PROVE  /\ TicketsRefer' /\ RowsRefer'
         /\ OneTimerPerLadder' /\ OneLiveIncident' /\ OneOpenTicket'
BY DEF IInv, TicketsRefer, RowsRefer, OneTimerPerLadder, OneLiveIncident, OneOpenTicket, Live

\* What leaves the poller and its tables alone keeps what the poller knows.
LEMMA SamePoller ==
  ASSUME IInv, UNCHANGED <<inc, esc, poller>>
  PROVE  FreshUnasked' /\ PollerKnows'
BY DEF IInv, FreshUnasked, PollerKnows, poller, LiveOf, Live

\* What leaves the request threads alone keeps what they know.
LEMMA SameRequests ==
  ASSUME IInv, UNCHANGED req
  PROVE  RequestKnows'
BY DEF IInv, RequestKnows

\* A loom that stops or runs changes no table.
LEMMA PlantSteps ==
  ASSUME IInv, NEW a \in Asset, MachineStops(a) \/ MachineRuns(a)
  PROVE  IInv'
<1>1. TypeOK'
  BY CoreAssumption
  DEF IInv, TypeOK, MachineStops, MachineRuns, assets, tables, poller, ticker
<1> QED
  BY <1>1, SameTables, SamePoller, SameRequests
  DEF IInv, MachineStops, MachineRuns, tables

\* source.poll keeps the invariant: the poller has found nothing yet.
LEMMA PollFetchStep ==
  ASSUME IInv, PollFetch
  PROVE  IInv'
<1>1. TypeOK'
  BY DEF IInv, TypeOK, PollFetch, NextPc, Event, plant, assets, tables, ticker
<1>2. FreshUnasked' /\ PollerKnows'
  BY DEF IInv, FreshUnasked, PollerKnows, PollFetch, NextPc, tables
<1> QED
  BY <1>1, <1>2, SameTables, SameRequests DEF IInv, PollFetch, tables

\* The read before open_incident and begin_resolve: what it finds is there, and if
\* it finds nothing there is no live incident of the loom.
LEMMA PollReadStep ==
  ASSUME IInv, NEW e \in batch, PollRead(e)
  PROVE  IInv'
<1>1. TypeOK'
  BY DEF IInv, TypeOK, PollRead, LiveOf, NotFound, NULL, Status, IncidentRow, plant, assets,
         tables, ticker
<1>2. PollerKnows'
  BY DEF IInv, TypeOK, PollRead, PollerKnows, LiveOf, Live, NotFound, NULL, Incidents, tables
<1>3. FreshUnasked'
  BY DEF IInv, FreshUnasked, PollRead, tables
<1> QED
  BY <1>1, <1>2, <1>3, SameTables, SameRequests DEF IInv, PollRead, tables

\* An exception in apply_events forgets the batch and keeps the invariant.
LEMMA PollFailsStep ==
  ASSUME IInv, PollFails
  PROVE  IInv'
<1>1. TypeOK'
  BY CoreAssumption
  DEF IInv, TypeOK, PollFails, NoEvent, Event, NotFound, Status, NULL, plant, assets, tables,
      ticker
<1>2. FreshUnasked' /\ PollerKnows'
  BY DEF FreshUnasked, PollerKnows, PollFails
<1> QED
  BY <1>1, <1>2, SameTables, SameRequests DEF IInv, PollFails, tables

\* The two queries of tick, and a pass that is given up, write nothing.
LEMMA TickReads ==
  ASSUME IInv, TickBegin \/ TickQuery \/ TickFails
  PROVE  IInv'
<1>1. TypeOK'
  BY CoreAssumption
  DEF IInv, TypeOK, TickBegin, TickQuery, TickFails, Settled, plant, assets, tables, poller
<1> QED
  BY <1>1, SameTables, SamePoller, SameRequests
  DEF IInv, TickBegin, TickQuery, TickFails, tables

\* A page that is not delivered changes no timer.
LEMMA MessageDiesStep ==
  ASSUME IInv, NEW m \in outbox, MessageDies(m)
  PROVE  IInv'
<1>1. TypeOK'
  BY CoreAssumption DEF IInv, TypeOK, MessageDies, plant, assets, poller, ticker
<1> QED
  BY <1>1, SameTables, SamePoller, SameRequests DEF IInv, MessageDies

\* A request that has looked up its question names a row that exists.
LEMMA QuestionSteps ==
  ASSUME IInv, NEW q \in Request, Answer(q)
  PROVE  IInv'
<1>1. PICK doing \in {"reason", "eta", "forward"},
           i \in Incidents \cup {NULL}, t \in Tickets \cup {NULL} :
        /\ Begin(q, doing, i, t)
        /\ doing = "reason" => i \in Incidents
        /\ doing = "eta" => t \in Tickets
  BY DEF Answer, ReplyToPrompt, NamedReply, PanelReason, PanelRemind, ReplyToEta, OpenTickets
<1>2. TypeOK'
  BY <1>1 DEF IInv, TypeOK, Begin, RequestState, plant, assets, tables, poller, ticker
<1>3. RequestKnows'
  BY <1>1 DEF IInv, TypeOK, RequestKnows, Begin
<1> QED
  BY <1>1, <1>2, <1>3, SameTables, SamePoller DEF IInv, Begin, tables

\* clear_offplan and recommission_asset touch no incident.
LEMMA ServiceSteps ==
  ASSUME IInv, NEW a \in Asset, OffplanEnds(a) \/ Recommission(a)
  PROVE  IInv'
<1>1. TypeOK'
  BY DEF IInv, TypeOK, OffplanEnds, Recommission, plant, tables, poller, ticker
<1> QED
  BY <1>1, SameTables, SamePoller, SameRequests DEF IInv, OffplanEnds, Recommission, tables

\* A restart forgets what the threads knew, and the tables stay.
LEMMA RestartStep ==
  ASSUME IInv, Restart
  PROVE  IInv'
<1>1. TypeOK'
  BY CoreAssumption
  DEF IInv, TypeOK, Restart, Seeded, NoEvent, Event, NotFound, Status, NULL, Idle,
      RequestState, plant, assets, tables
<1>2. FreshUnasked' /\ PollerKnows' /\ RequestKnows'
  BY DEF FreshUnasked, PollerKnows, RequestKnows, Restart, Idle
<1> QED
  BY <1>1, <1>2, SameTables DEF IInv, Restart, tables

-----------------------------------------------------------------------------
(* The clock, and the steps that write an incident, a ticket or a timer. *)

\* The three tables have their types.
TablesOK ==
  /\ inc \in [Incidents -> IncidentRow]
  /\ tkt \in [Tickets -> TicketRow]
  /\ esc \in [Rows -> Row]

\* The invariant gives the three tables their types.
LEMMA TablesTyped == IInv => TablesOK
BY DEF IInv, TypeOK, TablesOK, Row

\* The clock counts down to 0 and up to AgeCap.
LEMMA LessType ==
  ASSUME NEW n \in Nat
  PROVE  Less(n) \in Nat /\ (n \in 0 .. AgeCap => Older(n) \in 0 .. AgeCap)
BY LadderAssumption DEF Less, Older, Lower

\* Time passing keeps the invariant: no row changes what it is about.
LEMMA AdvanceStep ==
  ASSUME IInv, Advance
  PROVE  IInv'
<1>0. TablesOK
  BY TablesTyped
<1>1. inc' \in [Incidents -> IncidentRow]
  <2> SUFFICES ASSUME NEW i \in Incidents
               PROVE  [inc[i] EXCEPT !.age = Older(@), !.left = Less(@)] \in IncidentRow
    BY <1>0 DEF Advance, TablesOK
  <2>1. inc[i] \in IncidentRow
    BY <1>0 DEF TablesOK
  <2>2. inc[i].age \in 0 .. AgeCap /\ inc[i].age \in Nat /\ inc[i].left \in Nat
    BY <2>1 DEF IncidentRow
  <2>3. Older(inc[i].age) \in 0 .. AgeCap /\ Less(inc[i].left) \in Nat
    BY <2>2, LessType
  <2>4. Less(0) = 0
    BY DEF Less
  <2> QED
    BY <2>1, <2>3, <2>4 DEF IncidentRow
<1>2. tkt' \in [Tickets -> TicketRow]
  <2> SUFFICES ASSUME NEW t \in Tickets
               PROVE  [tkt[t] EXCEPT !.age = Older(@), !.eta = Less(@)] \in TicketRow
    BY <1>0 DEF Advance, TablesOK
  <2>1. tkt[t] \in TicketRow
    BY <1>0 DEF TablesOK
  <2>2. Older(tkt[t].age) \in 0 .. AgeCap /\ Less(tkt[t].eta) \in Nat
    BY <2>1, LessType DEF TicketRow
  <2> QED
    BY <2>1, <2>2 DEF TicketRow
<1>3. esc' \in [Rows -> Row]
  <2> SUFFICES ASSUME NEW r \in Rows
               PROVE  [esc[r] EXCEPT !.due = Less(@)] \in Row
    BY DEF Advance
  <2>1. esc[r] \in Row
    BY <1>0 DEF TablesOK
  <2>2. Less(esc[r].due) \in Nat
    BY <2>1, LessType DEF Row, Pending
  <2> QED
    BY <2>1, <2>2, RowDue
<1>4. TypeOK'
  BY <1>1, <1>2, <1>3 DEF IInv, TypeOK, Advance, Row, plant, assets, mail, poller, ticker
<1>5. /\ \A i \in Incidents : /\ inc'[i].status = inc[i].status
                              /\ inc'[i].asset = inc[i].asset
      /\ \A t \in Tickets : /\ tkt'[t].status = tkt[t].status /\ tkt'[t].inc = tkt[t].inc
                            /\ tkt'[t].code = tkt[t].code
  <2>1. ASSUME NEW i \in Incidents
        PROVE  inc'[i].status = inc[i].status /\ inc'[i].asset = inc[i].asset
    <3>1. inc[i] \in IncidentRow
      BY <1>0 DEF TablesOK
    <3> QED
      BY <3>1 DEF Advance, IncidentRow
  <2>2. ASSUME NEW t \in Tickets
        PROVE  /\ tkt'[t].status = tkt[t].status /\ tkt'[t].inc = tkt[t].inc
               /\ tkt'[t].code = tkt[t].code
    <3>1. tkt[t] \in TicketRow
      BY <1>0 DEF TablesOK
    <3> QED
      BY <3>1 DEF Advance, TicketRow
  <2> QED
    BY <2>1, <2>2
<1>6. \A r \in Rows : /\ esc'[r].inc = esc[r].inc /\ esc'[r].tkt = esc[r].tkt
                      /\ esc'[r].act = esc[r].act
                      /\ esc'[r] # NoRow => esc[r] # NoRow
  <2> SUFFICES ASSUME NEW r \in Rows
               PROVE  /\ esc'[r].inc = esc[r].inc /\ esc'[r].tkt = esc[r].tkt
                      /\ esc'[r].act = esc[r].act
                      /\ esc[r] = NoRow => esc'[r] = NoRow
    OBVIOUS
  <2>1. esc[r] \in Row
    BY <1>0 DEF TablesOK
  <2>2. esc'[r] = [esc[r] EXCEPT !.due = Less(@)]
    BY DEF Advance
  <2>3. esc[r] = NoRow => esc'[r] = NoRow
    BY <2>2 DEF NoRow, Less
  <2> QED
    BY <2>1, <2>2, <2>3 DEF Row, Pending
<1>7. TicketsRefer' /\ RowsRefer' /\ OneTimerPerLadder'
  BY <1>5, <1>6 DEF IInv, TicketsRefer, RowsRefer, OneTimerPerLadder
<1>8. OneLiveIncident' /\ OneOpenTicket'
  BY <1>5 DEF IInv, OneLiveIncident, OneOpenTicket, Live
<1>u. /\ UNCHANGED <<pollPc, ev, found, fresh, req>>
      /\ fresh \subseteq Incidents /\ ev.asset \in Asset
  BY DEF Advance, poller, IInv, TypeOK, Event
<1>9. FreshUnasked' /\ RequestKnows'
  BY <1>5, <1>6, <1>u DEF IInv, FreshUnasked, RequestKnows
<1>10. PollerKnows'
  <2>1. \A a \in Asset : LiveOf(a)' = LiveOf(a)
    BY <1>5 DEF LiveOf, Live
  <2> QED
    BY <1>5, <1>u, <2>1 DEF IInv, PollerKnows
<1> QED
  BY <1>4, <1>7, <1>8, <1>9, <1>10 DEF IInv

\* open_incident inserts: only the poller opens incidents, so nothing has come to
\* life since it looked.
LEMMA PollInsertStep ==
  ASSUME IInv, PollInsert
  PROVE  IInv'
<1>0. TablesOK
  BY TablesTyped
<1>1. PICK i \in Incidents :
        /\ NextIncident(i)
        /\ inc' = [inc EXCEPT ![i] = [NoIncident EXCEPT !.asset = ev.asset, !.status = "open"]]
        /\ fresh' = fresh \cup {i}
  BY DEF PollInsert
<1> DEFINE new == [NoIncident EXCEPT !.asset = ev.asset, !.status = "open"]
<1>2. ev.asset \in Asset
  BY DEF IInv, TypeOK, Event
<1>3. new \in IncidentRow /\ new.asset = ev.asset /\ new.status = "open"
  <2>1. NoIncident.left = 0 /\ NoIncident.ran = 0
    BY DEF NoIncident
  <2> QED
    BY <1>2, <2>1, NoIncidentType DEF IncidentRow, Status
<1> HIDE DEF new
<1>4. /\ inc'[i] = new
      /\ \A j \in Incidents \ {i} : inc'[j] = inc[j]
      /\ inc' \in [Incidents -> IncidentRow]
  BY <1>0, <1>1, <1>3 DEF TablesOK, new
<1>5. pollPc' \in {"apply", "classify", "idle"} /\ ev' = NoEvent /\ found' = NotFound
  BY DEF PollInsert, EventDone, NextPc
<1>6. TypeOK'
  BY <1>1, <1>4, <1>5, <1>2, CoreAssumption
  DEF IInv, TypeOK, PollInsert, EventDone, NoEvent, Event, NotFound, Status, NULL,
      EnsureAsset, plant, mail, ticker
<1>7. inc[i].status = "none"
  BY <1>1 DEF NextIncident
<1>8. \A r \in Rows : esc[r].inc # i
  BY <1>7, NoRowFields DEF IInv, RowsRefer, NULL, Incidents
<1>9. TicketsRefer' /\ OneTimerPerLadder' /\ OneOpenTicket'
  BY DEF IInv, TicketsRefer, OneTimerPerLadder, OneOpenTicket, PollInsert
<1>10. RowsRefer'
  BY <1>4, <1>8 DEF IInv, RowsRefer, PollInsert
<1>11. OneLiveIncident'
  <2>1. LiveOf(ev.asset) = {}
    BY DEF IInv, PollerKnows, PollInsert
  <2> QED
    BY <2>1, <1>3, <1>4 DEF IInv, OneLiveIncident, LiveOf, Live
<1>12. FreshUnasked'
  BY <1>1, <1>3, <1>4, <1>8 DEF IInv, TypeOK, FreshUnasked, PollInsert
<1>13. PollerKnows' /\ RequestKnows'
  BY <1>5 DEF IInv, PollerKnows, RequestKnows, PollInsert
<1> QED
  BY <1>6, <1>9, <1>10, <1>11, <1>12, <1>13 DEF IInv

\* Steps that open nothing: no incident or ticket comes to life, and a timer goes
\* on being about what it was, or is dropped.
Closing ==
  /\ \A i \in Incidents : /\ inc'[i].asset = inc[i].asset
                          /\ (inc[i].status # "none" => inc'[i].status # "none")
                          /\ (Live(i)' => Live(i))
  /\ \A t \in Tickets : /\ tkt'[t].inc = tkt[t].inc /\ tkt'[t].code = tkt[t].code
                        /\ (tkt'[t].status # "none" => tkt[t].status # "none")
                        /\ (tkt'[t].status = "open" => tkt[t].status = "open")
  /\ \A r \in Rows : esc'[r] # NoRow =>
       /\ esc[r] # NoRow /\ esc'[r].inc = esc[r].inc /\ esc'[r].tkt = esc[r].tkt
       /\ (esc'[r].act = esc[r].act \/ esc'[r].act # "eta_check")
       /\ (esc[r].tkt # NULL => tkt'[esc[r].tkt].status = tkt[esc[r].tkt].status)

\* A step that opens nothing keeps what is known of the tables.
LEMMA ClosingKeeps ==
  ASSUME IInv, Closing, fresh' \subseteq fresh, fresh \subseteq Incidents
  PROVE  /\ TicketsRefer' /\ RowsRefer' /\ FreshUnasked'
         /\ OneTimerPerLadder' /\ OneLiveIncident' /\ OneOpenTicket'
         /\ \A a \in Asset : LiveOf(a) = {} => LiveOf(a)' = {}
<1>1. TicketsRefer'
  BY DEF IInv, TicketsRefer, Closing
<1>2. RowsRefer'
  <2> SUFFICES ASSUME NEW r \in Rows, esc'[r] # NoRow
               PROVE  \/ /\ esc'[r].tkt = NULL /\ esc'[r].inc \in Incidents
                         /\ esc'[r].act # "eta_check"
                         /\ inc'[esc'[r].inc].status # "none"
                      \/ /\ esc'[r].inc = NULL /\ esc'[r].tkt \in Tickets
                         /\ tkt'[esc'[r].tkt].status = "open"
    BY DEF RowsRefer
  <2>1. /\ esc[r] # NoRow /\ esc'[r].inc = esc[r].inc /\ esc'[r].tkt = esc[r].tkt
        /\ (esc'[r].act = esc[r].act \/ esc'[r].act # "eta_check")
        /\ (esc[r].tkt # NULL => tkt'[esc[r].tkt].status = tkt[esc[r].tkt].status)
        /\ \A i \in Incidents : inc[i].status # "none" => inc'[i].status # "none"
    BY DEF Closing
  <2>2. \A t \in Tickets : t # NULL
    BY DEF Tickets, NULL
  <2> QED
    BY <2>1, <2>2 DEF IInv, RowsRefer
<1>3. FreshUnasked'
  BY NoRowFields DEF IInv, FreshUnasked, Closing, NULL, Incidents
<1>4. OneTimerPerLadder'
  BY DEF IInv, OneTimerPerLadder, Closing
<1>5. OneLiveIncident'
  BY DEF IInv, OneLiveIncident, Closing
<1>6. OneOpenTicket'
  BY DEF IInv, OneOpenTicket, Closing
<1>7. \A a \in Asset : LiveOf(a) = {} => LiveOf(a)' = {}
  BY DEF LiveOf, Closing
<1> QED
  BY <1>1, <1>2, <1>3, <1>4, <1>5, <1>6, <1>7

\* A step of another thread that opens nothing keeps what the poller knows.
LEMMA PollerIdleKeeps ==
  ASSUME IInv, Closing, UNCHANGED poller
  PROVE  PollerKnows'
<1>1. UNCHANGED <<pollPc, ev, found, fresh>> /\ ev.asset \in Asset /\ fresh \subseteq Incidents
  BY DEF IInv, TypeOK, poller, Event
<1>2. \A a \in Asset : LiveOf(a) = {} => LiveOf(a)' = {}
  BY <1>1, ClosingKeeps
<1> QED
  BY <1>1, <1>2 DEF IInv, PollerKnows, Closing

\* The row reopen writes.
LEMMA ReopenShape ==
  ASSUME NEW row \in IncidentRow
  PROVE  Reopened(row) \in IncidentRow
<1>1. 0 \in Nat /\ 0 \in 0 .. AgeCap /\ "open" \in Status
  BY LadderAssumption DEF Status
<1> QED
  BY <1>1 DEF IncidentRow, Reopened

\* The ticket reopen counts in.
LEMMA ReopensShape ==
  ASSUME NEW row \in TicketRow, NEW n \in Nat
  PROVE  [row EXCEPT !.reopens = n] \in TicketRow
BY DEF TicketRow

\* When the poller is done with an event it knows nothing that could grow stale.
LEMMA EventDoneType ==
  ASSUME EventDone
  PROVE  /\ pollPc' \in {"idle", "apply", "classify"}
         /\ ev' = NoEvent /\ found' = NotFound /\ batch' = batch
         /\ NoEvent \in Event /\ NotFound \in [id : Incidents \cup {NULL}, status : Status]
         /\ PollerKnows'
BY CoreAssumption DEF EventDone, NextPc, NoEvent, Event, NotFound, Status, PollerKnows

\* reopen keeps the invariant: the incident it opens was live.
LEMMA PollReopenStep ==
  ASSUME IInv, PollReopen
  PROVE  IInv'
<1>0. TablesOK
  BY TablesTyped
<1> DEFINE i == found.id
<1>1. i \in Incidents /\ UNCHANGED <<esc, fresh>> /\ fresh \subseteq Incidents
  BY DEF IInv, TypeOK, PollerKnows, PollReopen
<1>2. CASE UNCHANGED <<inc, tkt>>
  <2>1. TypeOK'
    BY <1>2, EventDoneType DEF IInv, TypeOK, PollReopen, plant, assets, mail, ticker
  <2>2. Closing
    BY <1>1, <1>2 DEF Closing, Live
  <2> QED
    BY <1>1, <2>1, <2>2, ClosingKeeps, SameRequests, EventDoneType DEF IInv, PollReopen
<1>3. CASE /\ inc[i].status = "resolving"
           /\ inc' = [inc EXCEPT ![i] = Reopened(@)]
           /\ \E again \in LimitOne(OpenTickets(i)) :
                tkt' = [t \in Tickets |-> IF t \in again
                          THEN [tkt[t] EXCEPT !.reopens = @ + 1] ELSE tkt[t]]
  <2>1. inc' \in [Incidents -> IncidentRow]
    <3>1. Reopened(inc[i]) \in IncidentRow
      BY <1>0, <1>1, ReopenShape DEF TablesOK
    <3> QED
      BY <1>0, <1>1, <1>3, <3>1 DEF TablesOK
  <2>2. tkt' \in [Tickets -> TicketRow]
    <3> SUFFICES ASSUME NEW t \in Tickets
                 PROVE  [tkt[t] EXCEPT !.reopens = @ + 1] \in TicketRow
      BY <1>0, <1>3 DEF TablesOK
    <3>1. tkt[t] \in TicketRow /\ tkt[t].reopens + 1 \in Nat
      BY <1>0 DEF TablesOK, TicketRow
    <3> QED
      BY <3>1, ReopensShape
  <2>3. TypeOK'
    BY <2>1, <2>2, EventDoneType DEF IInv, TypeOK, PollReopen, plant, assets, mail, ticker
  <2>4. \A j \in Incidents : /\ inc'[j].asset = inc[j].asset
                             /\ j # i => inc'[j].status = inc[j].status
                             /\ j = i => inc'[j].status = "open"
    <3>1. inc[i] \in IncidentRow
      BY <1>0, <1>1 DEF TablesOK
    <3> QED
      BY <1>0, <1>1, <1>3, <3>1 DEF TablesOK, IncidentRow, Reopened
  <2>5. \A t \in Tickets : /\ tkt'[t].inc = tkt[t].inc /\ tkt'[t].code = tkt[t].code
                           /\ tkt'[t].status = tkt[t].status
    <3> SUFFICES ASSUME NEW t \in Tickets
                 PROVE  /\ tkt'[t].inc = tkt[t].inc /\ tkt'[t].code = tkt[t].code
                        /\ tkt'[t].status = tkt[t].status
      OBVIOUS
    <3>1. tkt[t] \in TicketRow
      BY <1>0 DEF TablesOK
    <3> QED
      BY <1>3, <3>1 DEF TicketRow
  <2>6. Closing
    <3>1. \A r \in Rows : esc[r] # NoRow /\ esc[r].tkt # NULL => esc[r].tkt \in Tickets
      BY DEF IInv, RowsRefer
    <3> QED
      <4>1. \A j \in Incidents : (inc[j].status # "none" => inc'[j].status # "none")
                               /\ (Live(j)' => Live(j))
        BY <1>1, <1>3, <2>4 DEF Live
      <4>2. \A r \in Rows : esc'[r] # NoRow =>
              /\ esc[r] # NoRow /\ esc'[r].inc = esc[r].inc /\ esc'[r].tkt = esc[r].tkt
              /\ (esc'[r].act = esc[r].act \/ esc'[r].act # "eta_check")
              /\ (esc[r].tkt # NULL => tkt'[esc[r].tkt].status = tkt[esc[r].tkt].status)
        BY <1>1, <2>5, <3>1
      <4> QED
        BY <2>4, <2>5, <4>1, <4>2 DEF Closing
  <2> QED
    BY <1>1, <2>3, <2>6, ClosingKeeps, SameRequests, EventDoneType DEF IInv, PollReopen
<1> QED
  BY <1>2, <1>3 DEF PollReopen
\* The row begin_resolve writes.
LEMMA ResolvingShape ==
  ASSUME NEW row \in IncidentRow, NEW n \in Nat
  PROVE  [row EXCEPT !.status = "resolving", !.left = n, !.ran = row.age] \in IncidentRow
<1>1. "resolving" \in Status /\ row.age \in 0 .. AgeCap
  BY DEF Status, IncidentRow
<1> QED
  BY <1>1 DEF IncidentRow

\* begin_resolve keeps the invariant.
LEMMA PollResolveStep ==
  ASSUME IInv, PollResolve
  PROVE  IInv'
<1>0. TablesOK
  BY TablesTyped
<1> DEFINE i == found.id
<1>1. UNCHANGED <<tkt, esc, fresh>> /\ fresh \subseteq Incidents
  BY DEF IInv, TypeOK, PollResolve
<1>2. CASE inc' = inc
  <2>1. TypeOK'
    BY <1>2, EventDoneType DEF IInv, TypeOK, PollResolve, plant, assets, mail, ticker
  <2>2. Closing
    BY <1>1, <1>2 DEF Closing, Live
  <2> QED
    BY <1>1, <2>1, <2>2, ClosingKeeps, SameRequests, EventDoneType DEF IInv, PollResolve
<1>3. CASE /\ found # NotFound /\ inc[i].status = "open"
           /\ inc' = [inc EXCEPT ![i].status = "resolving", ![i].left = Grace,
                                 ![i].ran = inc[i].age]
  <2>1. i \in Incidents
    BY <1>3 DEF IInv, PollerKnows
  <2>2. inc[i] \in IncidentRow
    BY <1>0, <2>1 DEF TablesOK
  <2>3. [inc[i] EXCEPT !.status = "resolving", !.left = Grace, !.ran = inc[i].age]
           \in IncidentRow
    BY <2>2, ResolvingShape, CoreAssumption
  <2>4. inc' \in [Incidents -> IncidentRow]
    BY <1>0, <1>3, <2>1, <2>3 DEF TablesOK
  <2>5. TypeOK'
    BY <2>4, EventDoneType DEF IInv, TypeOK, PollResolve, plant, assets, mail, ticker
  <2>6. \A j \in Incidents : /\ inc'[j].asset = inc[j].asset
                             /\ (j # i => inc'[j].status = inc[j].status)
                             /\ (j = i => inc'[j].status = "resolving")
    BY <1>0, <1>3, <2>1, <2>2 DEF TablesOK, IncidentRow
  <2>7. \A j \in Incidents : /\ (inc[j].status # "none" => inc'[j].status # "none")
                             /\ (Live(j)' => Live(j))
    BY <1>3, <2>1, <2>6 DEF Live
  <2>8. Closing
    BY <1>1, <2>6, <2>7 DEF Closing
  <2> QED
    BY <1>1, <2>5, <2>8, ClosingKeeps, SameRequests, EventDoneType DEF IInv, PollResolve
<1> QED
  BY <1>2, <1>3 DEF PollResolve

\* The rows commit_resolve and the panel write.
LEMMA ResolvedShape ==
  ASSUME NEW row \in IncidentRow, NEW why \in Seq(Codes)
  PROVE  /\ [row EXCEPT !.status = "resolved", !.left = 0, !.reasons = why] \in IncidentRow
         /\ [row EXCEPT !.status = "resolved", !.ran = row.age] \in IncidentRow
<1>1. "resolved" \in Status /\ row.age \in 0 .. AgeCap
  BY DEF Status, IncidentRow
<1> QED
  BY <1>1 DEF IncidentRow

\* Tickets that are closed keep their type, and what they are about.
LEMMA ShutKeeps ==
  ASSUME TablesOK, NEW shut,
         tkt' = [t \in Tickets |-> IF t \in shut
                   THEN [tkt[t] EXCEPT !.status = "closed"] ELSE tkt[t]],
         \A t \in shut : t \in Tickets /\ tkt[t].status # "none"
  PROVE  /\ tkt' \in [Tickets -> TicketRow]
         /\ \A t \in Tickets : /\ tkt'[t].inc = tkt[t].inc /\ tkt'[t].code = tkt[t].code
                               /\ (tkt'[t].status # "none" => tkt[t].status # "none")
                               /\ (tkt'[t].status = "open" => tkt[t].status = "open")
                               /\ (t \notin shut => tkt'[t].status = tkt[t].status)
<1> SUFFICES ASSUME NEW t \in Tickets
             PROVE  /\ tkt'[t] \in TicketRow
                    /\ tkt'[t].inc = tkt[t].inc /\ tkt'[t].code = tkt[t].code
                    /\ (tkt'[t].status # "none" => tkt[t].status # "none")
                    /\ (tkt'[t].status = "open" => tkt[t].status = "open")
                    /\ (t \notin shut => tkt'[t].status = tkt[t].status)
  OBVIOUS
<1>1. tkt[t] \in TicketRow
  BY DEF TablesOK
<1> QED
  BY <1>1 DEF TicketRow

\* Rows that are cancelled are gone, and the rest are as they were.
LEMMA CancelKeeps ==
  ASSUME TablesOK, NEW I, NEW T, esc' = CancelAll(I, T)
  PROVE  /\ esc' \in [Rows -> Row]
         /\ \A r \in Rows : esc'[r] # NoRow => esc'[r] = esc[r] /\ esc[r].tkt \notin T
BY NoRowType DEF CancelAll, TablesOK

\* commit_resolve keeps the invariant: with the ticket it closes goes its timer.
LEMMA TickCommitStep ==
  ASSUME IInv, NEW i \in settled, TickCommit(i)
  PROVE  IInv'
<1>0. TablesOK
  BY TablesTyped
<1>1. i \in Incidents /\ fresh \subseteq Incidents
  BY DEF IInv, TypeOK
<1>2. UNCHANGED <<machine, stops, faults, last, active, retired, offplan, outbox, dead,
                  pollPc, batch, ev, found, fresh, tickPc, due, req>>
      /\ settled' \subseteq settled
  BY DEF TickCommit, plant, assets, mail, poller
<1>3. CASE UNCHANGED <<inc, tkt, esc>>
  <2>1. TypeOK'
    BY <1>2, <1>3 DEF IInv, TypeOK
  <2> QED
    BY <1>2, <1>3, <2>1, SameTables, SamePoller, SameRequests DEF IInv, poller
<1>4. CASE inc[i].status = "resolving"
  <2>0. CASE UNCHANGED <<inc, tkt, esc>>
    BY <1>3, <2>0
  <2> DEFINE why == IF inc[i].reasons = << >> /\ inc[i].ran < MinDuration
                      THEN << "short_stop" >> ELSE inc[i].reasons
  <2>1. PICK shut \in LimitOne(OpenTickets(i)) :
          /\ inc' = [inc EXCEPT ![i].status = "resolved", ![i].left = 0, ![i].reasons = why]
          /\ tkt' = [t \in Tickets |-> IF t \in shut
                       THEN [tkt[t] EXCEPT !.status = "closed"] ELSE tkt[t]]
          /\ esc' = CancelAll({i}, shut)
    BY <1>4 DEF TickCommit
  <2>2. inc[i] \in IncidentRow
    BY <1>0, <1>1 DEF TablesOK
  <2>3. why \in Seq(Codes)
    BY <2>2, CoreAssumption DEF IncidentRow
  <2> HIDE DEF why
  <2>4. [inc[i] EXCEPT !.status = "resolved", !.left = 0, !.reasons = why] \in IncidentRow
    BY <2>2, <2>3, ResolvedShape
  <2>5. inc' \in [Incidents -> IncidentRow]
    BY <1>0, <1>1, <2>1, <2>4 DEF TablesOK
  <2>6. \A j \in Incidents : /\ inc'[j].asset = inc[j].asset
                             /\ (j # i => inc'[j].status = inc[j].status)
                             /\ (j = i => inc'[j].status = "resolved")
    BY <1>0, <1>1, <2>1, <2>2 DEF TablesOK, IncidentRow
  <2>7. \A j \in Incidents : /\ (inc[j].status # "none" => inc'[j].status # "none")
                             /\ (Live(j)' => Live(j))
    BY <1>1, <2>6 DEF Live
  <2>8. \A t \in shut : t \in Tickets /\ tkt[t].status # "none"
    BY DEF LimitOne, OpenTickets
  <2>9. /\ tkt' \in [Tickets -> TicketRow]
        /\ \A t \in Tickets : /\ tkt'[t].inc = tkt[t].inc /\ tkt'[t].code = tkt[t].code
                              /\ (tkt'[t].status # "none" => tkt[t].status # "none")
                              /\ (tkt'[t].status = "open" => tkt[t].status = "open")
                              /\ (t \notin shut => tkt'[t].status = tkt[t].status)
    BY <1>0, <2>1, <2>8, ShutKeeps
  <2>10. /\ esc' \in [Rows -> Row]
         /\ \A r \in Rows : esc'[r] # NoRow => esc'[r] = esc[r] /\ esc[r].tkt \notin shut
    BY <1>0, <2>1, CancelKeeps
  <2>11. Closing
    <3>1. \A r \in Rows : esc[r] # NoRow /\ esc[r].tkt # NULL => esc[r].tkt \in Tickets
      BY DEF IInv, RowsRefer
    <3> QED
      BY <2>6, <2>7, <2>9, <2>10, <3>1 DEF Closing
  <2>12. TypeOK'
    BY <1>2, <2>5, <2>9, <2>10 DEF IInv, TypeOK, Row
  <2> QED
    BY <1>1, <1>2, <2>11, <2>12, ClosingKeeps, PollerIdleKeeps, SameRequests DEF IInv, poller
<1> QED
  BY <1>3, <1>4 DEF TickCommit
\* A row parked as wedged is never read again.
LEMMA TickWedgeStep ==
  ASSUME IInv, NEW r \in due, TickWedge(r)
  PROVE  IInv'
<1>0. TablesOK
  BY TablesTyped
<1>1. UNCHANGED <<machine, stops, last, active, retired, offplan, inc, tkt, outbox, dead,
                  pollPc, batch, ev, found, fresh, settled, req>>
      /\ fresh \subseteq Incidents
  BY DEF TickWedge, RowDone, plant, assets, mail, poller, IInv, TypeOK
<1>2. /\ esc' \in [Rows -> Row]
      /\ \A s \in Rows : esc'[s] # NoRow => esc'[s] = esc[s]
  BY <1>0, NoRowType DEF TickWedge, TablesOK
<1>3. TypeOK'
  BY <1>1, <1>2, CoreAssumption DEF IInv, TypeOK, Row, TickWedge, RowDone
<1>4. Closing
  BY <1>1, <1>2 DEF Closing, Live
<1> QED
  BY <1>1, <1>3, <1>4, ClosingKeeps, PollerIdleKeeps, SameRequests DEF IInv, poller

\* Incidents that an operator ends keep their type, their loom and their place.
LEMMA EndedKeeps ==
  ASSUME TablesOK, NEW gone,
         inc' = [i \in Incidents |-> IF i \in gone
                   THEN [inc[i] EXCEPT !.status = "resolved", !.ran = inc[i].age] ELSE inc[i]]
  PROVE  /\ inc' \in [Incidents -> IncidentRow]
         /\ \A i \in Incidents : /\ inc'[i].asset = inc[i].asset
                                 /\ (inc[i].status # "none" => inc'[i].status # "none")
                                 /\ (Live(i)' => Live(i))
<1> SUFFICES ASSUME NEW i \in Incidents
             PROVE  /\ inc'[i] \in IncidentRow
                    /\ inc'[i].asset = inc[i].asset
                    /\ (inc[i].status # "none" => inc'[i].status # "none")
                    /\ (Live(i)' => Live(i))
  OBVIOUS
<1>1. inc[i] \in IncidentRow
  BY DEF TablesOK
<1>2. [inc[i] EXCEPT !.status = "resolved", !.ran = inc[i].age] \in IncidentRow
  <2>1. "resolved" \in Status /\ inc[i].age \in 0 .. AgeCap
    BY <1>1 DEF Status, IncidentRow
  <2> QED
    BY <1>1, <2>1 DEF IncidentRow
<1>3. CASE i \in gone
  <2>1. inc'[i] = [inc[i] EXCEPT !.status = "resolved", !.ran = inc[i].age]
    BY <1>3
  <2> HIDE DEF Live
  <2>2. inc'[i].asset = inc[i].asset /\ inc'[i].status = "resolved"
    BY <1>1, <2>1 DEF IncidentRow
  <2>3. ~Live(i)'
    BY <2>2 DEF Live
  <2> QED
    BY <1>2, <2>1, <2>2, <2>3
<1>4. CASE i \notin gone
  BY <1>1, <1>4 DEF Live
<1> QED
  BY <1>3, <1>4

\* set_offplan keeps the invariant, the ticket it leaves open with its timer.
LEMMA SetOffplanStep ==
  ASSUME IInv, NEW a \in Asset, SetOffplan(a)
  PROVE  IInv'
<1>0. TablesOK
  BY TablesTyped
<1>1. UNCHANGED <<machine, stops, faults, last, active, retired, tkt, outbox, dead, poller,
                  pollPc, batch, ev, found, fresh, tickPc, settled, due, req>>
      /\ fresh \subseteq Incidents
  BY DEF SetOffplan, plant, mail, poller, ticker, IInv, TypeOK
<1>2. /\ inc' \in [Incidents -> IncidentRow]
      /\ \A i \in Incidents : /\ inc'[i].asset = inc[i].asset
                              /\ (inc[i].status # "none" => inc'[i].status # "none")
                              /\ (Live(i)' => Live(i))
  <2>1. inc' = [i \in Incidents |-> IF i \in LiveOf(a)
                  THEN [inc[i] EXCEPT !.status = "resolved", !.ran = inc[i].age] ELSE inc[i]]
    BY DEF SetOffplan
  <2> QED
    BY <1>0, <2>1, EndedKeeps
<1>3. /\ esc' \in [Rows -> Row]
      /\ \A r \in Rows : esc'[r] # NoRow => esc'[r] = esc[r]
  <2>1. esc' = CancelAll(LiveOf(a), {})
    BY DEF SetOffplan
  <2> QED
    BY <1>0, <2>1, CancelKeeps
<1>4. TypeOK'
  BY <1>1, <1>2, <1>3 DEF IInv, TypeOK, Row, SetOffplan
<1>5. Closing
  BY <1>1, <1>2, <1>3 DEF Closing
<1> QED
  BY <1>1, <1>4, <1>5, ClosingKeeps, PollerIdleKeeps, SameRequests DEF IInv

\* decommission_asset keeps the invariant: it closes tickets and timers together.
LEMMA DecommissionStep ==
  ASSUME IInv, NEW a \in Asset, Decommission(a)
  PROVE  IInv'
<1>0. TablesOK
  BY TablesTyped
<1> DEFINE gone == LiveOf(a)
           shut == UNION {OpenTickets(i) : i \in gone}
<1>1. UNCHANGED <<machine, stops, faults, last, offplan, outbox, dead, poller,
                  pollPc, batch, ev, found, fresh, tickPc, settled, due, req>>
      /\ fresh \subseteq Incidents
  BY DEF Decommission, plant, mail, poller, ticker, IInv, TypeOK
<1>2. /\ inc' \in [Incidents -> IncidentRow]
      /\ \A i \in Incidents : /\ inc'[i].asset = inc[i].asset
                              /\ (inc[i].status # "none" => inc'[i].status # "none")
                              /\ (Live(i)' => Live(i))
  <2>1. inc' = [i \in Incidents |-> IF i \in gone
                  THEN [inc[i] EXCEPT !.status = "resolved", !.ran = inc[i].age] ELSE inc[i]]
    BY DEF Decommission
  <2> QED
    BY <1>0, <2>1, EndedKeeps
<1>3. /\ tkt' \in [Tickets -> TicketRow]
      /\ \A t \in Tickets : /\ tkt'[t].inc = tkt[t].inc /\ tkt'[t].code = tkt[t].code
                            /\ (tkt'[t].status # "none" => tkt[t].status # "none")
                            /\ (tkt'[t].status = "open" => tkt[t].status = "open")
                            /\ (t \notin shut => tkt'[t].status = tkt[t].status)
  <2>1. tkt' = [t \in Tickets |-> IF t \in shut
                  THEN [tkt[t] EXCEPT !.status = "closed"] ELSE tkt[t]]
    BY DEF Decommission
  <2>2. \A t \in shut : t \in Tickets /\ tkt[t].status # "none"
    BY DEF OpenTickets
  <2> QED
    BY <1>0, <2>1, <2>2, ShutKeeps
<1>4. /\ esc' \in [Rows -> Row]
      /\ \A r \in Rows : esc'[r] # NoRow => esc'[r] = esc[r] /\ esc[r].tkt \notin shut
  <2>1. esc' = CancelAll(gone, shut)
    BY DEF Decommission
  <2> HIDE DEF gone, shut
  <2> QED
    BY <1>0, <2>1, CancelKeeps
<1> HIDE DEF gone, shut
<1>5. TypeOK'
  BY <1>1, <1>2, <1>3, <1>4 DEF IInv, TypeOK, Row, Decommission
<1>6. Closing
  <2>1. \A r \in Rows : esc[r] # NoRow /\ esc[r].tkt # NULL => esc[r].tkt \in Tickets
    BY DEF IInv, RowsRefer
  <2> QED
    BY <1>2, <1>3, <1>4, <2>1 DEF Closing
<1> QED
  BY <1>1, <1>5, <1>6, ClosingKeeps, PollerIdleKeeps, SameRequests DEF IInv
\* _handle_pass and remind_now move timers in time only.
LEMMA RequestForwardStep ==
  ASSUME IInv, NEW q \in Request, RequestForward(q)
  PROVE  IInv'
<1>0. TablesOK
  BY TablesTyped
<1>1. /\ UNCHANGED <<machine, stops, faults, last, active, retired, offplan, inc, tkt,
                     outbox, dead, poller, pollPc, batch, ev, found, fresh, tickPc, settled, due>>
      /\ fresh \subseteq Incidents
      /\ req' = [req EXCEPT ![q] = Idle]
  BY DEF RequestForward, Finish, plant, assets, mail, poller, ticker, IInv, TypeOK
<1>2. \A r \in Rows : \/ esc'[r] = esc[r]
                      \/ esc[r] # NoRow /\ esc'[r] = [esc[r] EXCEPT !.due = 0]
  BY NoRowFields DEF RequestForward
<1>3. \A r \in Rows : /\ esc'[r] \in Row
                      /\ (esc'[r] # NoRow => esc[r] # NoRow)
                      /\ esc'[r].inc = esc[r].inc /\ esc'[r].tkt = esc[r].tkt
                      /\ esc'[r].act = esc[r].act
  <2> SUFFICES ASSUME NEW r \in Rows
               PROVE  /\ esc'[r] \in Row
                      /\ (esc'[r] # NoRow => esc[r] # NoRow)
                      /\ esc'[r].inc = esc[r].inc /\ esc'[r].tkt = esc[r].tkt
                      /\ esc'[r].act = esc[r].act
    OBVIOUS
  <2>1. esc[r] \in Row
    BY <1>0 DEF TablesOK
  <2>2. CASE esc'[r] = esc[r]
    BY <2>1, <2>2
  <2>3. CASE esc[r] # NoRow /\ esc'[r] = [esc[r] EXCEPT !.due = 0]
    BY <2>1, <2>3, RowDue DEF Row, Pending
  <2> QED
    BY <1>2, <2>2, <2>3
<1>4. esc' \in [Rows -> Row]
  BY <1>3 DEF RequestForward
<1>5. TypeOK' /\ RequestKnows'
  BY <1>1, <1>4 DEF IInv, TypeOK, RequestKnows, Row, Idle, RequestState, NULL
<1>6. Closing
  BY <1>1, <1>3 DEF Closing, Live
<1> QED
  BY <1>1, <1>5, <1>6, ClosingKeeps, PollerIdleKeeps DEF IInv

\* What follows a rung is about the same fault, and is a rung of the ladder.
LEMMA SuccessorKeeps ==
  ASSUME NEW row \in Row, NEW ladder \in Seq(Rung), NEW age \in Nat,
         Successor(row, ladder, age) # NoRow
  PROVE  /\ Successor(row, ladder, age).inc = row.inc
         /\ Successor(row, ladder, age).tkt = row.tkt
         /\ Successor(row, ladder, age).act # "eta_check"
<1> DEFINE nxt == row.rung + 1
           final == ladder[Len(ladder)]
<1>0. \A k \in 1 .. Len(ladder) : ladder[k].act # "eta_check"
  <2>1. \A k \in 1 .. Len(ladder) : ladder[k] \in Rung
    OBVIOUS
  <2> QED
    BY <2>1 DEF Rung, RungAction
<1>1. CASE nxt < Len(ladder)
  <2>1. nxt + 1 \in 1 .. Len(ladder)
    BY <1>1 DEF Row, Pending
  <2>2. ladder[nxt + 1].act # "eta_check"
    BY <1>0, <2>1
  <2>3. Successor(row, ladder, age) =
          [row EXCEPT !.rung = nxt, !.act = ladder[nxt + 1].act,
             !.due = Remaining(ladder[nxt + 1].after, age), !.trig = "timer"]
    BY <1>1 DEF Successor, Step
  <2> QED
    BY <2>2, <2>3 DEF Row, Pending
<1>2. CASE ~(nxt < Len(ladder))
  <2>1. ladder # << >>
        /\ Successor(row, ladder, age) =
             [row EXCEPT !.act = final.act, !.due = final.every, !.trig = "repeat"]
    BY <1>2 DEF Successor
  <2>2. Len(ladder) \in 1 .. Len(ladder)
    BY <2>1
  <2>3. final.act # "eta_check"
    BY <1>0, <2>2
  <2> QED
    BY <2>1, <2>3 DEF Row, Pending
<1> QED
  BY <1>1, <1>2

\* The message fire queues is one the outbox may hold.
LEMMA PageType ==
  ASSUME NEW row \in Row, NEW p \in (UNION Rosters) \cup {"unrouted"},
         tkt \in [Tickets -> TicketRow],
         row.act = "eta_check" => row.tkt \in Tickets
  PROVE  Page(row, p) \in Message
<1> DEFINE miss == IF Misses(row) THEN tkt[row.tkt].misses + 1 ELSE 0
<1>1. miss \in Nat
  BY DEF Misses, TicketRow
<1>2. ReAsks(row) \in BOOLEAN /\ Asks(row) \in BOOLEAN /\ (row.trig = "repeat") \in BOOLEAN
  BY DEF ReAsks, Asks, AskReached, Misses
<1>3. row.inc \in Incidents \cup {NULL} /\ row.tkt \in Tickets \cup {NULL} /\ row.rung \in Nat
  BY DEF Row, Pending
<1> HIDE DEF miss
<1>4. [inc |-> row.inc, tkt |-> row.tkt, rung |-> row.rung, miss |-> miss,
       rep |-> row.trig = "repeat", reask |-> ReAsks(row), to |-> p, ask |-> Asks(row)] \in Message
  BY <1>1, <1>2, <1>3 DEF Message
<1> QED
  BY <1>4 DEF Page, miss

\* The ticket fire counts a miss in.
LEMMA CountShape ==
  ASSUME NEW row \in TicketRow, NEW b \in BOOLEAN, NEW n \in Nat
  PROVE  [row EXCEPT !.notified = b, !.misses = n] \in TicketRow
BY DEF TicketRow

\* fire keeps the invariant: the row it writes replaces the row it read.
LEMMA TickFireStep ==
  ASSUME IInv, NEW r \in due, TickFire(r)
  PROVE  IInv'
<1>0. TablesOK
  BY TablesTyped
<1>1. /\ UNCHANGED <<machine, stops, faults, last, active, retired, offplan, inc,
                     poller, pollPc, batch, ev, found, fresh, settled, req>>
      /\ fresh \subseteq Incidents /\ r \in Rows
      /\ due' \subseteq due /\ tickPc' \in {"idle", "fire"}
  BY DEF TickFire, RowDone, plant, assets, poller, IInv, TypeOK
<1>2. CASE UNCHANGED <<tkt, esc, mail>>
  <2>1. TypeOK'
    BY <1>1, <1>2 DEF IInv, TypeOK, mail
  <2> QED
    BY <1>1, <1>2, <2>1, SameTables, SamePoller, SameRequests DEF IInv
<1>3. CASE esc' = [esc EXCEPT ![r] = NoRow] /\ UNCHANGED <<tkt, mail>>
  <2>1. /\ esc' \in [Rows -> Row]
        /\ \A s \in Rows : esc'[s] # NoRow => esc'[s] = esc[s]
    BY <1>0, <1>1, <1>3, NoRowType DEF TablesOK
  <2>2. TypeOK'
    BY <1>1, <1>3, <2>1 DEF IInv, TypeOK, Row, mail
  <2>3. Closing
    BY <1>1, <1>3, <2>1 DEF Closing, Live
  <2> QED
    BY <1>1, <2>2, <2>3, ClosingKeeps, PollerIdleKeeps, SameRequests DEF IInv
<1>4. CASE esc[r] # NoRow /\ FireRow(r)
  <2> DEFINE row  == esc[r]
             base == IF Misses(row) THEN 0
                     ELSE IF row.tkt # NULL THEN tkt[row.tkt].age ELSE inc[row.inc].age
             s    == Successor(row, LadderOf(row), base)
  <2>1. row \in Row
    BY <1>0, <1>1 DEF TablesOK
  <2>2. \/ /\ row.tkt = NULL /\ row.inc \in Incidents /\ row.act # "eta_check"
        \/ /\ row.inc = NULL /\ row.tkt \in Tickets
           /\ tkt[row.tkt].status = "open" /\ tkt[row.tkt].code \in Ticketable
    BY <1>1, <1>4 DEF IInv, RowsRefer, TicketsRefer
  <2>3. LadderOf(row) \in Seq(Rung)
    BY <2>2, LadderAssumption DEF LadderOf
  <2>4. base \in Nat
    <3>1. \A t \in Tickets : tkt[t].age \in Nat
      BY <1>0 DEF TablesOK, TicketRow
    <3>2. \A i \in Incidents : inc[i].age \in Nat
      BY <1>0 DEF TablesOK, IncidentRow
    <3>3. CASE row.tkt # NULL
      <4>1. tkt[row.tkt].age \in Nat
        BY <2>2, <3>1, <3>3
      <4> QED
        BY <3>3, <4>1
    <3>4. CASE row.tkt = NULL
      <4>1. inc[row.inc].age \in Nat
        BY <2>2, <3>2, <3>4 DEF Tickets, NULL
      <4> QED
        BY <3>4, <4>1
    <3> QED
      BY <3>3, <3>4
  <2> HIDE DEF base
  <2>5. s \in Row /\ (s # NoRow => s.inc = row.inc /\ s.tkt = row.tkt /\ s.act # "eta_check")
    BY <2>1, <2>3, <2>4, SuccessorType, SuccessorKeeps
  <2>6. esc' = [esc EXCEPT ![r] = s]
    BY <1>4 DEF FireRow, base
  <2> HIDE DEF s
  <2>7. /\ esc' \in [Rows -> Row]
        /\ \A x \in Rows : esc'[x] # NoRow =>
             /\ esc[x] # NoRow /\ esc'[x].inc = esc[x].inc /\ esc'[x].tkt = esc[x].tkt
             /\ (esc'[x].act = esc[x].act \/ esc'[x].act # "eta_check")
    BY <1>0, <1>1, <1>4, <2>5, <2>6 DEF TablesOK
  <2>8. /\ tkt' \in [Tickets -> TicketRow]
        /\ \A t \in Tickets : /\ tkt'[t].inc = tkt[t].inc /\ tkt'[t].code = tkt[t].code
                              /\ tkt'[t].status = tkt[t].status
    <3>1. CASE row.tkt = NULL
      BY <1>0, <1>4, <3>1 DEF FireRow, TablesOK
    <3>2. CASE row.tkt # NULL
      <4> DEFINE t == row.tkt
                 b == tkt[t].notified \/ row.act # "ask_reason"
                 n == IF Misses(row) THEN tkt[t].misses + 1 ELSE tkt[t].misses
      <4>1. tkt' = [tkt EXCEPT ![t].notified = b, ![t].misses = n]
        BY <1>4, <3>2 DEF FireRow
      <4>2. t \in Tickets /\ tkt[t] \in TicketRow
        BY <1>0, <2>2, <3>2 DEF TablesOK
      <4>3. b \in BOOLEAN /\ n \in Nat
        BY <4>2 DEF TicketRow
      <4> HIDE DEF b, n
      <4>4. [tkt[t] EXCEPT !.notified = b, !.misses = n] \in TicketRow
        BY <4>2, <4>3, CountShape
      <4>5. tkt' \in [Tickets -> TicketRow]
        BY <1>0, <4>1, <4>2, <4>4 DEF TablesOK
      <4>6. \A u \in Tickets : /\ tkt'[u].inc = tkt[u].inc /\ tkt'[u].code = tkt[u].code
                               /\ tkt'[u].status = tkt[u].status
        BY <1>0, <4>1, <4>2 DEF TablesOK, TicketRow
      <4> QED
        BY <4>5, <4>6
    <3> QED
      BY <3>1, <3>2
  <2>9. outbox' \subseteq Message /\ dead' \subseteq outbox'
    <3>1. PICK who \in Rosters :
            LET sent == {Page(row, p) : p \in IF who = {} THEN {"unrouted"} ELSE who}
            IN  /\ outbox' = outbox \cup sent
                /\ dead' = IF row.trig = "repeat" THEN dead \ sent ELSE dead
      BY <1>4 DEF FireRow
    <3>2. \A p \in (UNION Rosters) \cup {"unrouted"} : Page(row, p) \in Message
      BY <1>0, <2>1, <2>2, PageType DEF TablesOK
    <3>3. outbox \subseteq Message /\ dead \subseteq outbox
      BY DEF IInv, TypeOK
    <3> DEFINE sent == {Page(row, p) : p \in IF who = {} THEN {"unrouted"} ELSE who}
    <3>4. sent \subseteq Message
      <4>1. (IF who = {} THEN {"unrouted"} ELSE who) \subseteq (UNION Rosters) \cup {"unrouted"}
        OBVIOUS
      <4> QED
        BY <3>2, <4>1
    <3>5. /\ outbox' = outbox \cup sent
          /\ dead' = IF row.trig = "repeat" THEN dead \ sent ELSE dead
      BY <3>1
    <3> HIDE DEF sent
    <3> QED
      BY <3>3, <3>4, <3>5
  <2>10. TypeOK'
    BY <1>1, <2>7, <2>8, <2>9 DEF IInv, TypeOK, Row
  <2>11. Closing
    <3>1. \A x \in Rows : esc[x] # NoRow /\ esc[x].tkt # NULL => esc[x].tkt \in Tickets
      BY DEF IInv, RowsRefer
    <3> QED
      BY <1>1, <2>7, <2>8, <3>1 DEF Closing, Live
  <2> QED
    BY <1>1, <2>10, <2>11, ClosingKeeps, PollerIdleKeeps, SameRequests DEF IInv
<1> QED
  BY <1>2, <1>3, <1>4 DEF TickFire
\* The answer to an incident cancels its rungs, and opens at most one ticket, with
\* at most one rung, about a ticket that did not exist.
LEMMA SetReasonKeeps ==
  ASSUME IInv, NEW i \in Incidents, NEW code \in Codes, NEW age \in 0 .. AgeCap,
         SetReason(i, code, age)
  PROVE  /\ TablesOK'
         /\ \A j \in Incidents : inc'[j].status = inc[j].status /\ inc'[j].asset = inc[j].asset
         /\ \A r \in Rows : esc'[r].inc # NULL => esc'[r] = esc[r]
         /\ TicketsRefer' /\ RowsRefer' /\ OneTimerPerLadder' /\ OneLiveIncident' /\ OneOpenTicket'
<1>0. TablesOK
  BY TablesTyped
<1>1. inc[i] \in IncidentRow
  BY <1>0 DEF TablesOK
<1>2. inc' = [inc EXCEPT ![i].reasons = Append(@, code)]
  BY DEF SetReason
<1>3. [inc[i] EXCEPT !.reasons = Append(@, code)] \in IncidentRow
  <2>1. Append(inc[i].reasons, code) \in Seq(Codes)
    BY <1>1 DEF IncidentRow
  <2> QED
    BY <1>1, <2>1 DEF IncidentRow
<1>4. inc' \in [Incidents -> IncidentRow]
  BY <1>0, <1>2, <1>3 DEF TablesOK
<1>5. \A j \in Incidents : inc'[j].status = inc[j].status /\ inc'[j].asset = inc[j].asset
  BY <1>0, <1>1, <1>2 DEF TablesOK, IncidentRow
<1>6. OneLiveIncident' /\ (\A j \in Incidents : Live(j)' => Live(j))
  BY <1>5 DEF IInv, OneLiveIncident, Live
<1> DEFINE kept == CancelForIncident(i)
<1>7. /\ kept \in [Rows -> Row]
      /\ \A r \in Rows : kept[r] # NoRow => kept[r] = esc[r]
      /\ \A r \in Rows : kept[r].inc # NULL => kept[r] = esc[r]
  BY <1>0, NoRowType, NoRowFields DEF CancelForIncident, TablesOK
<1> HIDE DEF kept
<1>8. CASE esc' = kept /\ UNCHANGED tkt
  <2>1. Closing
    BY <1>5, <1>6, <1>7, <1>8 DEF Closing
  <2>2. TicketsRefer' /\ RowsRefer' /\ OneTimerPerLadder' /\ OneOpenTicket'
    BY <1>5, <1>7, <1>8 DEF IInv, TicketsRefer, RowsRefer, OneTimerPerLadder, OneOpenTicket
  <2> QED
    BY <1>0, <1>4, <1>5, <1>6, <1>7, <1>8, <2>2 DEF TablesOK
<1>9. CASE code \in Ticketable /\ OpenTickets(i) = {} /\ OpenTicket(i, code, age)
  <2> DEFINE new == [NoTicket EXCEPT !.inc = i, !.code = code, !.status = "open", !.age = age]
             prior == Prior(i, code) + (IF age <= RecurWindow THEN 1 ELSE 0)
  <2>1. PICK t \in Tickets :
          /\ NextTicket(t)
          /\ tkt' = [tkt EXCEPT ![t] = new]
          /\ \/ esc' = kept
             \/ \E r \in Rows :
                  /\ NextRow(r) /\ LadderFor[code] # << >>
                  /\ esc' = [kept EXCEPT ![r] = FirstPage(t, code, age, prior)]
    BY <1>9 DEF OpenTicket, kept
  <2>2. /\ new \in TicketRow /\ new.inc = i /\ new.code = code /\ new.status = "open"
        /\ tkt[t].status = "none"
    BY <1>9, <2>1 DEF NoTicket, TicketRow, NextTicket, NULL
  <2> HIDE DEF new
  <2>3. /\ tkt' \in [Tickets -> TicketRow] /\ tkt'[t] = new
        /\ \A u \in Tickets \ {t} : tkt'[u] = tkt[u]
    BY <1>0, <2>1, <2>2 DEF TablesOK
  <2>4. TicketsRefer'
    BY <1>9, <2>2, <2>3 DEF IInv, TicketsRefer
  <2>5. OneOpenTicket'
    <3>1. \A u \in Tickets : ~(tkt[u].status = "open" /\ tkt[u].inc = i)
      BY <1>9 DEF OpenTickets
    <3> QED
      BY <2>2, <2>3, <3>1 DEF IInv, OneOpenTicket
  <2>6. \A r \in Rows : kept[r] # NoRow =>
          \/ /\ kept[r].tkt = NULL /\ kept[r].inc \in Incidents /\ kept[r].act # "eta_check"
             /\ inc'[kept[r].inc].status # "none"
          \/ /\ kept[r].inc = NULL /\ kept[r].tkt \in Tickets \ {t}
             /\ tkt'[kept[r].tkt].status = "open"
    BY <1>5, <1>7, <2>2, <2>3 DEF IInv, RowsRefer
  <2>7. \A r, s \in Rows : /\ kept[r] # NoRow /\ kept[s] # NoRow
                           /\ kept[r].inc = kept[s].inc /\ kept[r].tkt = kept[s].tkt
                           => r = s
    BY <1>7 DEF IInv, OneTimerPerLadder
  <2>8. CASE esc' = kept
    BY <1>4, <1>5, <1>6, <1>7, <2>3, <2>4, <2>5, <2>6, <2>7, <2>8
    DEF TablesOK, RowsRefer, OneTimerPerLadder
  <2>9. CASE \E r \in Rows :
               /\ NextRow(r) /\ LadderFor[code] # << >>
               /\ esc' = [kept EXCEPT ![r] = FirstPage(t, code, age, prior)]
    <3>1. PICK r \in Rows :
            /\ NextRow(r) /\ LadderFor[code] # << >>
            /\ esc' = [kept EXCEPT ![r] = FirstPage(t, code, age, prior)]
      BY <2>9
    <3> DEFINE first == FirstPage(t, code, age, prior)
    <3>2. first \in Row
      <4>1. age \in Nat
        BY LadderAssumption
      <4> QED
        BY <1>9, <3>1, <4>1, FirstPageType
    <3>3. first.inc = NULL /\ first.tkt = t /\ t # NULL
      BY DEF FirstPage, Tickets, NULL
    <3> HIDE DEF first
    <3>4. /\ esc' \in [Rows -> Row] /\ esc'[r] = first
          /\ \A s \in Rows \ {r} : esc'[s] = kept[s]
      BY <1>7, <3>1, <3>2 DEF first
    <3>5. RowsRefer'
      BY <2>2, <2>3, <2>6, <3>3, <3>4 DEF RowsRefer
    <3>6. OneTimerPerLadder'
      BY <2>6, <2>7, <3>3, <3>4 DEF OneTimerPerLadder
    <3>7. \A s \in Rows : esc'[s].inc # NULL => esc'[s] = esc[s]
      BY <1>7, <3>3, <3>4
    <3> QED
      BY <1>4, <1>5, <1>6, <2>3, <2>4, <2>5, <3>4, <3>5, <3>6, <3>7 DEF TablesOK
  <2> QED
    BY <2>1, <2>8, <2>9
<1> QED
  BY <1>8, <1>9 DEF SetReason, kept

\* set_reason, called by a request, keeps the invariant, however long ago the
\* question was looked up.
LEMMA RequestReasonStep ==
  ASSUME IInv, NEW q \in Request, RequestReason(q)
  PROVE  IInv'
<1>1. /\ UNCHANGED <<machine, stops, faults, last, active, retired, offplan,
                     outbox, dead, pollPc, batch, ev, found, fresh, tickPc, settled, due>>
      /\ fresh \subseteq Incidents
      /\ req' = [req EXCEPT ![q] = Idle]
  BY DEF RequestReason, Finish, plant, assets, mail, poller, ticker, IInv, TypeOK
<1>2. PICK code \in Codes : SetReason(req[q].inc, code, 0)
  BY DEF RequestReason
<1>3. req[q].inc \in Incidents /\ 0 \in 0 .. AgeCap
  BY LadderAssumption DEF IInv, RequestKnows, RequestReason
<1> DEFINE i == req[q].inc
<1>4. /\ TablesOK'
      /\ \A j \in Incidents : inc'[j].status = inc[j].status /\ inc'[j].asset = inc[j].asset
      /\ \A r \in Rows : esc'[r].inc # NULL => esc'[r] = esc[r]
      /\ TicketsRefer' /\ RowsRefer' /\ OneTimerPerLadder' /\ OneLiveIncident' /\ OneOpenTicket'
  BY <1>2, <1>3, SetReasonKeeps
<1>5. TypeOK' /\ RequestKnows'
  BY <1>1, <1>4 DEF IInv, TypeOK, TablesOK, RequestKnows, Row, Idle, RequestState, NULL
<1>6. FreshUnasked'
  <2>1. \A j \in Incidents : j # NULL
    BY DEF Incidents, NULL
  <2> QED
    BY <1>1, <1>4, <2>1 DEF IInv, FreshUnasked
<1>7. PollerKnows'
  <2>1. \A a : LiveOf(a)' = LiveOf(a)
    BY <1>4 DEF LiveOf, Live
  <2> QED
    BY <1>1, <1>4, <2>1 DEF IInv, PollerKnows
<1> QED
  BY <1>4, <1>5, <1>6, <1>7 DEF IInv
\* The ticket set_eta writes.
LEMMA EtaShape ==
  ASSUME NEW row \in TicketRow, NEW n \in Nat
  PROVE  [row EXCEPT !.eta = n] \in TicketRow
BY DEF TicketRow

\* set_eta keeps the invariant: the check replaces every rung of the ticket.
LEMMA RequestEtaStep ==
  ASSUME IInv, NEW q \in Request, RequestEta(q)
  PROVE  IInv'
<1>0. TablesOK
  BY TablesTyped
<1>1. /\ UNCHANGED <<machine, stops, faults, last, active, retired, offplan, inc,
                     outbox, dead, poller, pollPc, batch, ev, found, fresh, tickPc, settled, due>>
      /\ fresh \subseteq Incidents
      /\ req' = [req EXCEPT ![q] = Idle]
  BY DEF RequestEta, Finish, plant, assets, mail, poller, ticker, IInv, TypeOK
<1> DEFINE t == req[q].tkt
<1>2. t \in Tickets
  BY DEF IInv, RequestKnows, RequestEta
<1>3. CASE UNCHANGED <<tkt, esc>>
  <2>1. TypeOK' /\ RequestKnows'
    BY <1>1, <1>3 DEF IInv, TypeOK, RequestKnows, Idle, RequestState, NULL
  <2> QED
    BY <1>1, <1>3, <2>1, SameTables, SamePoller DEF IInv
<1>4. CASE /\ tkt[t].status = "open"
           /\ \E h \in EtaHours, r \in Rows :
                /\ NextRow(r)
                /\ tkt' = [tkt EXCEPT ![t].eta = h]
                /\ esc' = [CancelAll({}, {t}) EXCEPT ![r] = EtaCheck(t, h)]
  <2> DEFINE kept == CancelAll({}, {t})
  <2>1. PICK h \in EtaHours, r \in Rows :
          /\ tkt' = [tkt EXCEPT ![t].eta = h]
          /\ esc' = [kept EXCEPT ![r] = EtaCheck(t, h)]
    BY <1>4
  <2>2. tkt[t] \in TicketRow /\ h \in Nat
    BY <1>0, <1>2, CoreAssumption DEF TablesOK
  <2>3. [tkt[t] EXCEPT !.eta = h] \in TicketRow
    BY <2>2, EtaShape
  <2>4. /\ tkt' \in [Tickets -> TicketRow]
        /\ \A u \in Tickets : /\ tkt'[u].inc = tkt[u].inc /\ tkt'[u].code = tkt[u].code
                              /\ tkt'[u].status = tkt[u].status
    <3>1. tkt' \in [Tickets -> TicketRow]
      BY <1>0, <1>2, <2>1, <2>3 DEF TablesOK
    <3>2. \A u \in Tickets : /\ tkt'[u].inc = tkt[u].inc /\ tkt'[u].code = tkt[u].code
                             /\ tkt'[u].status = tkt[u].status
      BY <1>0, <1>2, <2>1, <2>2 DEF TablesOK, TicketRow
    <3> QED
      BY <3>1, <3>2
  <2>5. /\ kept \in [Rows -> Row]
        /\ \A s \in Rows : kept[s] # NoRow => kept[s] = esc[s] /\ kept[s].tkt # t
    BY <1>0, NoRowType DEF CancelAll, TablesOK
  <2> HIDE DEF kept
  <2> DEFINE check == EtaCheck(t, h)
  <2>6. check \in Row /\ check.inc = NULL /\ check.tkt = t /\ t # NULL
    BY <1>2, EtaCheckType DEF EtaCheck, Tickets, NULL
  <2> HIDE DEF check
  <2>7. /\ esc' \in [Rows -> Row] /\ esc'[r] = check
        /\ \A s \in Rows \ {r} : esc'[s] = kept[s]
    BY <2>1, <2>5, <2>6 DEF check
  <2>8. \A i \in Incidents : inc'[i] = inc[i] /\ i # NULL
    BY <1>1 DEF Incidents, NULL
  <2>9. RowsRefer'
    <3>1. tkt'[t].status = "open"
      BY <1>2, <1>4, <2>4
    <3>2. \A s \in Rows : kept[s] # NoRow =>
            \/ /\ kept[s].tkt = NULL /\ kept[s].inc \in Incidents /\ kept[s].act # "eta_check"
               /\ inc'[kept[s].inc].status # "none"
            \/ /\ kept[s].inc = NULL /\ kept[s].tkt \in Tickets
               /\ tkt'[kept[s].tkt].status = "open"
      BY <2>4, <2>5, <2>8 DEF IInv, RowsRefer
    <3> QED
      BY <1>2, <2>6, <2>7, <3>1, <3>2 DEF RowsRefer
  <2>10. OneTimerPerLadder'
    BY <2>5, <2>6, <2>7 DEF IInv, OneTimerPerLadder
  <2>11. TicketsRefer' /\ OneOpenTicket' /\ OneLiveIncident'
    BY <1>1, <2>4 DEF IInv, TicketsRefer, OneOpenTicket, OneLiveIncident, Live
  <2>12. FreshUnasked'
    BY <1>1, <2>5, <2>6, <2>7, <2>8, NoRowFields DEF IInv, FreshUnasked
  <2>13. PollerKnows'
    BY <1>1 DEF IInv, PollerKnows, LiveOf, Live
  <2>14. TypeOK' /\ RequestKnows'
    BY <1>1, <2>4, <2>7 DEF IInv, TypeOK, RequestKnows, Row, Idle, RequestState, NULL
  <2> QED
    BY <2>9, <2>10, <2>11, <2>12, <2>13, <2>14 DEF IInv
<1> QED
  BY <1>3, <1>4 DEF RequestEta

\* on_open keeps the invariant: an incident it asks about has no rung yet.
LEMMA PollClassifyStep ==
  ASSUME IInv, NEW i \in fresh, PollClassify(i)
  PROVE  IInv'
<1>0. TablesOK
  BY TablesTyped
<1>1. /\ UNCHANGED <<machine, stops, faults, last, active, retired, offplan,
                     outbox, dead, batch, ev, found, tickPc, settled, due, req>>
      /\ fresh \subseteq Incidents /\ fresh' = fresh \ {i} /\ i \in Incidents
      /\ pollPc' \in {"classify", "idle"}
  BY DEF PollClassify, NextPc, plant, assets, mail, ticker, IInv, TypeOK
<1>2. inc[i] \in IncidentRow /\ inc[i].age \in 0 .. AgeCap /\ inc[i].age \in Nat
  <2>1. inc[i] \in IncidentRow
    BY <1>0, <1>1 DEF TablesOK
  <2> QED
    BY <2>1, LadderAssumption DEF IncidentRow
<1>3. CASE \E code \in AutoCodes : SetReason(i, code, inc[i].age)
  <2>1. PICK code \in Codes : SetReason(i, code, inc[i].age)
    BY <1>3, CoreAssumption
  <2>2. /\ TablesOK'
        /\ \A j \in Incidents : inc'[j].status = inc[j].status /\ inc'[j].asset = inc[j].asset
        /\ \A r \in Rows : esc'[r].inc # NULL => esc'[r] = esc[r]
        /\ TicketsRefer' /\ RowsRefer' /\ OneTimerPerLadder' /\ OneLiveIncident' /\ OneOpenTicket'
    BY <1>1, <1>2, <2>1, SetReasonKeeps
  <2>3. TypeOK'
    BY <1>1, <2>2 DEF IInv, TypeOK, TablesOK, Row
  <2>4. FreshUnasked'
    <3>1. \A j \in Incidents : j # NULL
      BY DEF Incidents, NULL
    <3> QED
      BY <1>1, <2>2, <3>1 DEF IInv, FreshUnasked
  <2>5. PollerKnows' /\ RequestKnows'
    BY <1>1, <2>2 DEF IInv, PollerKnows, RequestKnows
  <2> QED
    BY <2>2, <2>3, <2>4, <2>5 DEF IInv
<1>4. CASE UNCHANGED <<inc, tkt, esc>>
  <2>1. TypeOK'
    BY <1>1, <1>4 DEF IInv, TypeOK
  <2>2. FreshUnasked' /\ PollerKnows' /\ RequestKnows'
    BY <1>1, <1>4 DEF IInv, FreshUnasked, PollerKnows, RequestKnows
  <2> QED
    BY <1>4, <2>1, <2>2, SameTables DEF IInv
<1>5. CASE /\ UNCHANGED <<inc, tkt>> /\ UnknownLadder # << >>
           /\ \E r \in Rows : /\ NextRow(r)
                              /\ esc' = [esc EXCEPT ![r] = FirstPrompt(i, inc[i].age)]
  <2>1. PICK r \in Rows : esc' = [esc EXCEPT ![r] = FirstPrompt(i, inc[i].age)]
    BY <1>5
  <2> DEFINE prompt == FirstPrompt(i, inc[i].age)
  <2>2. prompt \in Row
    BY <1>1, <1>2, <1>5, FirstPromptType
  <2>3. /\ prompt.inc = i /\ prompt.tkt = NULL /\ prompt.act # "eta_check"
        /\ i # NULL
    <3>1. UnknownLadder \in Seq(Rung) /\ 1 \in 1 .. Len(UnknownLadder)
      BY <1>5, LadderAssumption
    <3>2. UnknownLadder[1] \in Rung
      BY <3>1
    <3> QED
      BY <1>1, <3>2 DEF FirstPrompt, Rung, RungAction, Incidents, NULL
  <2> HIDE DEF prompt
  <2>4. /\ esc' \in [Rows -> Row] /\ esc'[r] = prompt
        /\ \A s \in Rows \ {r} : esc'[s] = esc[s]
    BY <1>0, <2>1, <2>2 DEF TablesOK, prompt
  <2>5. inc[i].status # "none" /\ \A s \in Rows : esc[s].inc # i
    BY DEF IInv, FreshUnasked
  <2>6. RowsRefer'
    BY <1>1, <1>5, <2>3, <2>4, <2>5 DEF IInv, RowsRefer
  <2>7. OneTimerPerLadder'
    BY <2>3, <2>4, <2>5 DEF IInv, OneTimerPerLadder
  <2>8. TicketsRefer' /\ OneOpenTicket' /\ OneLiveIncident'
    BY <1>5 DEF IInv, TicketsRefer, OneOpenTicket, OneLiveIncident, Live
  <2>9. FreshUnasked'
    BY <1>1, <1>5, <2>3, <2>4 DEF IInv, FreshUnasked
  <2>10. PollerKnows' /\ RequestKnows'
    BY <1>1, <1>5 DEF IInv, PollerKnows, RequestKnows
  <2>11. TypeOK'
    BY <1>1, <1>5, <2>4 DEF IInv, TypeOK, Row
  <2> QED
    BY <2>6, <2>7, <2>8, <2>9, <2>10, <2>11 DEF IInv
<1> QED
  BY <1>3, <1>4, <1>5 DEF PollClassify

-----------------------------------------------------------------------------
(* The theorems. *)

\* Every step of every thread, of the panel, the plant and the faults keeps the
\* inductive invariant.
THEOREM NextKeepsIInv == IInv /\ [Next]_vars => IInv'
<1> SUFFICES ASSUME IInv, [Next]_vars
             PROVE  IInv'
  OBVIOUS
<1>1. CASE UNCHANGED vars
  <2>1. UNCHANGED <<machine, stops, faults, last, active, retired, offplan, inc, tkt, esc, outbox,
                    dead, poller, pollPc, batch, ev, found, fresh, tickPc, settled, due, req>>
    BY <1>1 DEF vars, plant, assets, tables, poller, ticker
  <2>2. TypeOK'
    BY <2>1 DEF IInv, TypeOK
  <2> QED
    BY <2>1, <2>2, SameTables, SamePoller, SameRequests DEF IInv
<1>2. ASSUME NEW a \in Asset, MachineStops(a) \/ MachineRuns(a) \/ Panel(a)
      PROVE  IInv'
  BY <1>2, PlantSteps, SetOffplanStep, ServiceSteps, DecommissionStep DEF Panel
<1>3. CASE Advance
  BY <1>3, AdvanceStep
<1>4. CASE PollerStep
  BY <1>4, PollFetchStep, PollReadStep, PollInsertStep, PollReopenStep, PollResolveStep,
     PollClassifyStep DEF PollerStep
<1>5. CASE TickerStep
  BY <1>5, TickReads, TickCommitStep, TickFireStep DEF TickerStep
<1>6. ASSUME NEW q \in Request, Answer(q) \/ Act(q)
      PROVE  IInv'
  BY <1>6, QuestionSteps, RequestReasonStep, RequestEtaStep, RequestForwardStep DEF Act
<1>7. CASE Trouble
  BY <1>7, PollFailsStep, TickReads, RestartStep, TickWedgeStep, MessageDiesStep DEF Trouble
<1> QED
  BY <1>1, <1>2, <1>3, <1>4, <1>5, <1>6, <1>7 DEF Next

\* The inductive invariant holds in every state the program reaches.
THEOREM SpecIInv == Spec => []IInv
BY InitIInv, NextKeepsIInv, PTL DEF Spec

\* Every table and every thread holds what it may hold, for any number of looms,
\* requests, incidents, tickets and timers, and any ladders.
THEOREM TypeCorrect == Spec => []TypeOK
<1>1. IInv => TypeOK
  BY DEF IInv
<1> QED
  BY <1>1, SpecIInv, PTL

\* No ticket and no incident is ever chased by two timers at once, whichever of
\* set_reason, set_eta, on_open and fire insert their rows, in any interleaving.
THEOREM LaddersDoNotFork == Spec => []OneTimerPerLadder
<1>1. IInv => OneTimerPerLadder
  BY DEF IInv
<1> QED
  BY <1>1, SpecIInv, PTL

\* No loom ever has two live incidents, though open_incident looks for one outside
\* the transaction that inserts one.
THEOREM StopsAreNotDoubled == Spec => []OneLiveIncident
<1>1. IInv => OneLiveIncident
  BY DEF IInv
<1> QED
  BY <1>1, SpecIInv, PTL

\* No incident ever has two open tickets, whatever answers race to open them.
THEOREM TicketsAreNotDoubled == Spec => []OneOpenTicket
<1>1. IInv => OneOpenTicket
  BY DEF IInv
<1> QED
  BY <1>1, SpecIInv, PTL

\* A closed ticket has nothing scheduled: whatever closes it cancels its timer, and
\* nothing that is written afterwards is about it.
THEOREM ClosedTicketsAreSilent == Spec => []ClosedTicketIsSilent
<1>1. IInv => ClosedTicketIsSilent
  <2> SUFFICES ASSUME IInv, NEW r \in Rows, esc[r].tkt # NULL
               PROVE  tkt[esc[r].tkt].status = "open"
    BY DEF ClosedTicketIsSilent
  <2>1. esc[r] # NoRow
    BY NoRowFields
  <2> QED
    BY <2>1 DEF IInv, RowsRefer
<1> QED
  BY <1>1, SpecIInv, PTL
\* A loom a person retired stays out of service whatever it reports and whatever
\* batch of reports was already fetched, until a person puts it back.
THEOREM RetiredStayRetired == Spec => []RetiredStaysRetired
<1>1. Init => RetiredStaysRetired
  BY DEF Init, RetiredStaysRetired
<1>2. RetiredStaysRetired /\ [Next]_vars => RetiredStaysRetired'
  <2> SUFFICES ASSUME RetiredStaysRetired, [Next]_vars
               PROVE  RetiredStaysRetired'
    OBVIOUS
  <2>1. CASE UNCHANGED <<active, retired>>
    BY <2>1 DEF RetiredStaysRetired
  <2>2. CASE PollInsert
    BY <2>2 DEF RetiredStaysRetired, PollInsert, EnsureAsset
  <2>3. ASSUME NEW a \in Asset, Decommission(a) \/ Recommission(a)
        PROVE  RetiredStaysRetired'
    BY <2>3 DEF RetiredStaysRetired, Decommission, Recommission
  <2>4. ASSUME NEW a \in Asset,
               MachineStops(a) \/ MachineRuns(a) \/ SetOffplan(a) \/ OffplanEnds(a)
        PROVE  UNCHANGED <<active, retired>>
    BY <2>4 DEF MachineStops, MachineRuns, SetOffplan, OffplanEnds, assets
  <2>5. PollerStep => PollInsert \/ UNCHANGED <<active, retired>>
    BY DEF PollerStep, PollFetch, PollRead, PollReopen, PollResolve, PollClassify, assets
  <2>6. TickerStep => UNCHANGED <<active, retired>>
    BY DEF TickerStep, TickBegin, TickCommit, TickQuery, TickFire, assets
  <2>7. ASSUME NEW q \in Request, Answer(q) \/ Act(q)
        PROVE  UNCHANGED <<active, retired>>
    BY <2>7 DEF Answer, ReplyToPrompt, NamedReply, PanelReason, PanelRemind, ReplyToEta, Begin,
       Act, RequestReason, RequestEta, RequestForward, Finish, assets
  <2>8. Trouble => UNCHANGED <<active, retired>>
    BY DEF Trouble, PollFails, TickFails, Restart, TickWedge, MessageDies, assets
  <2>9. Advance => UNCHANGED <<active, retired>>
    BY DEF Advance, assets
  <2>10. UNCHANGED vars => UNCHANGED <<active, retired>>
    BY DEF vars, assets
  <2> QED
    BY <2>1, <2>2, <2>3, <2>4, <2>5, <2>6, <2>7, <2>8, <2>9, <2>10 DEF Next, Panel
<1> QED
  BY <1>1, <1>2, PTL DEF Spec

=============================================================================
