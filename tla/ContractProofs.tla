---------------------------- MODULE ContractProofs ----------------------------
(***************************************************************************)
(* OpsCore implements FaultContract, for every value of its constants.     *)
(*                                                                         *)
(* Each step of OpsCore is a step of the contract or none.  What has to be *)
(* shown is that a page belongs to the same fault for ever (its ticket, if *)
(* it has one, was opened before it was queued), and that whatever queues  *)
(* a page does so about a fault that is open at that moment.               *)
(***************************************************************************)
EXTENDS OpsCoreProofs

\* What the refinement mapping of Contract makes of the tables.
About == [i \in Incidents |-> inc[i].asset]
State == [i \in Incidents |-> inc[i].status]
Said  == [i \in Incidents |-> {m \in outbox : IF m.tkt = NULL THEN m.inc = i
                                              ELSE tkt[m.tkt].inc = i}]

\* A page about a ticket was queued after the ticket was opened.
MessagesRefer ==
  \A m \in outbox : m.tkt # NULL => m.tkt \in Tickets /\ tkt[m.tkt].status # "none"

\* A ticket was opened, and a reason is about to be given, for a fault that was raised.
TicketsRaised == \A t \in Tickets : tkt[t].status # "none" => inc[tkt[t].inc].status # "none"
AnswersRaised == \A q \in Request : req[q].doing = "reason" => inc[req[q].inc].status # "none"

RInv == IInv /\ MessagesRefer /\ TicketsRaised /\ AnswersRaised

\* A step of the contract, or one that it does not see.
Promised == Contract!Next \/ UNCHANGED <<About, State, Said>>

-----------------------------------------------------------------------------
(* What every step keeps. *)

\* No row is taken back, and a ticket stays with its incident.
RowsStay ==
  /\ \A i \in Incidents : inc[i].status # "none" => inc'[i].status # "none"
  /\ \A t \in Tickets : tkt[t].status # "none" =>
       tkt'[t].status # "none" /\ tkt'[t].inc = tkt[t].inc

\* A step that opens no ticket for a fault that was never raised, begins no answer
\* about one, and queues pages about open tickets only, keeps the invariant.
LEMMA RInvKept ==
  ASSUME RInv, IInv', RowsStay,
         \A t \in Tickets : tkt[t].status = "none" /\ tkt'[t].status # "none" =>
           inc[tkt'[t].inc].status # "none",
         \A q \in Request : req'[q].doing = "reason" =>
           req'[q] = req[q] \/ (req'[q].inc \in Incidents /\ inc[req'[q].inc].status # "none"),
         \A m \in outbox' \ outbox : m.tkt # NULL =>
           m.tkt \in Tickets /\ tkt[m.tkt].status # "none"
  PROVE  RInv'
<1>1. MessagesRefer'
  BY DEF RInv, MessagesRefer, RowsStay
<1>2. TicketsRaised'
  <2> SUFFICES ASSUME NEW t \in Tickets, tkt'[t].status # "none"
               PROVE  inc'[tkt'[t].inc].status # "none"
    BY DEF TicketsRaised
  <2>1. tkt'[t].inc \in Incidents
    BY DEF IInv, TicketsRefer
  <2>2. inc[tkt'[t].inc].status # "none"
    BY DEF RInv, TicketsRaised, RowsStay
  <2> QED
    BY <2>1, <2>2 DEF RowsStay
<1>3. AnswersRaised'
  <2> SUFFICES ASSUME NEW q \in Request, req'[q].doing = "reason"
               PROVE  inc'[req'[q].inc].status # "none"
    BY DEF AnswersRaised
  <2>1. req'[q].inc \in Incidents
    BY DEF IInv, RequestKnows
  <2>2. inc[req'[q].inc].status # "none"
    BY DEF RInv, AnswersRaised
  <2> QED
    BY <2>1, <2>2 DEF RowsStay
<1> QED
  BY <1>1, <1>2, <1>3 DEF RInv

\* What queues nothing leaves all that was said where it was.
LEMMA SaidKept ==
  ASSUME RInv, RowsStay, outbox' = outbox
  PROVE  Said' = Said
<1>1. \A m \in outbox : m.tkt # NULL => tkt'[m.tkt].inc = tkt[m.tkt].inc
  BY DEF RInv, MessagesRefer, RowsStay
<1> QED
  BY <1>1 DEF Said

\* A step that moves the status of one incident, on the contract's side.
LEMMA Moves ==
  ASSUME NEW i \in Incidents, NEW s,
         \A j \in Incidents : /\ inc'[j].asset = inc[j].asset
                              /\ inc'[j].status = IF j = i THEN s ELSE inc[j].status
  PROVE  About' = About /\ State' = [State EXCEPT ![i] = s]
BY DEF About, State

\* A step that moves no status and queues nothing is one the contract does not see.
LEMMA Unseen ==
  ASSUME RInv, RowsStay, outbox' = outbox,
         \A j \in Incidents : inc'[j].asset = inc[j].asset /\ inc'[j].status = inc[j].status
  PROVE  Promised
<1>1. About' = About /\ State' = State
  BY DEF About, State
<1> QED
  BY <1>1, SaidKept DEF Promised

-----------------------------------------------------------------------------
(* The steps. *)

\* What writes neither incidents, tickets nor pages is none of the contract's
\* business, as long as the answers it begins are about faults that were raised.
LEMMA SameBooks ==
  ASSUME RInv, IInv', UNCHANGED <<inc, tkt, outbox>>,
         \A q \in Request : req'[q].doing = "reason" =>
           req'[q] = req[q] \/ (req'[q].inc \in Incidents /\ inc[req'[q].inc].status # "none")
  PROVE  RInv' /\ Promised
<1>1. RowsStay
  BY DEF RowsStay
<1> QED
  BY <1>1, RInvKept, Unseen

\* The looms, the threads' own reads, faults and restarts tell nobody anything.
LEMMA SilentSteps ==
  ASSUME RInv, IInv',
         \/ \E a \in Asset : MachineStops(a) \/ MachineRuns(a) \/ OffplanEnds(a) \/ Recommission(a)
         \/ PollFetch \/ (\E e \in batch : PollRead(e))
         \/ TickBegin \/ TickQuery \/ PollFails \/ TickFails \/ Restart
         \/ (\E r \in due : TickWedge(r)) \/ (\E m \in outbox : MessageDies(m))
         \/ (\E q \in Request : RequestForward(q))
  PROVE  RInv' /\ Promised
<1>1. UNCHANGED <<inc, tkt, outbox>>
  BY DEF MachineStops, MachineRuns, OffplanEnds, Recommission, PollFetch, PollRead, TickBegin,
     TickQuery, PollFails, TickFails, Restart, TickWedge, MessageDies, RequestForward, Finish,
     tables, mail
<1>2. \A q \in Request : req'[q].doing = "reason" => req'[q] = req[q]
  <2>1. req' = req \/ req' = [q \in Request |-> Idle]
        \/ \E p \in Request : req' = [req EXCEPT ![p] = Idle]
    BY DEF MachineStops, MachineRuns, OffplanEnds, Recommission, PollFetch, PollRead, TickBegin,
       TickQuery, PollFails, TickFails, Restart, TickWedge, MessageDies, RequestForward, Finish
  <2>2. Idle.doing # "reason" /\ req \in [Request -> RequestState]
    BY DEF Idle, RInv, IInv, TypeOK
  <2> QED
    BY <2>1, <2>2
<1> QED
  BY <1>1, <1>2, SameBooks

\* A reply is looked up while its fault is live.
LEMMA QuestionsPromised ==
  ASSUME RInv, IInv', NEW q \in Request, Answer(q)
  PROVE  RInv' /\ Promised
<1>1. PICK doing \in {"reason", "eta", "forward"},
           i \in Incidents \cup {NULL}, t \in Tickets \cup {NULL} :
        /\ Begin(q, doing, i, t)
        /\ doing = "reason" => i \in Incidents /\ Live(i)
  BY DEF Answer, ReplyToPrompt, NamedReply, PanelReason, PanelRemind, ReplyToEta, OpenTickets,
     Unanswered
<1>2. UNCHANGED <<inc, tkt, outbox>>
  BY <1>1 DEF Begin, tables
<1>3. req \in [Request -> RequestState]
  BY DEF RInv, IInv, TypeOK
<1>4. req' = [req EXCEPT ![q] = [doing |-> doing, inc |-> i, tkt |-> t]]
  BY <1>1 DEF Begin
<1>5. ASSUME NEW p \in Request, req'[p].doing = "reason"
      PROVE  req'[p] = req[p] \/ (req'[p].inc \in Incidents /\ inc[req'[p].inc].status # "none")
  <2>1. CASE p = q
    <3>1. req'[p] = [doing |-> doing, inc |-> i, tkt |-> t]
      BY <1>3, <1>4, <2>1
    <3>2. doing = "reason" /\ req'[p].inc = i
      BY <1>5, <3>1
    <3> QED
      BY <1>1, <3>2 DEF Live
  <2>2. CASE p # q
    BY <1>3, <1>4, <2>2
  <2> QED
    BY <2>1, <2>2
<1> QED
  BY <1>2, <1>5, SameBooks

\* Time passes.
LEMMA AdvancePromised ==
  ASSUME RInv, IInv', Advance
  PROVE  RInv' /\ Promised
<1>0. TablesOK
  BY TablesTyped DEF RInv
<1>1. outbox' = outbox /\ req' = req
  BY DEF Advance, mail
<1>2. ASSUME NEW i \in Incidents
      PROVE  inc'[i].status = inc[i].status /\ inc'[i].asset = inc[i].asset
  <2>1. inc[i] \in IncidentRow
    BY <1>0 DEF TablesOK
  <2> QED
    BY <2>1 DEF Advance, IncidentRow
<1>3. ASSUME NEW t \in Tickets
      PROVE  tkt'[t].status = tkt[t].status /\ tkt'[t].inc = tkt[t].inc
  <2>1. tkt[t] \in TicketRow
    BY <1>0 DEF TablesOK
  <2> QED
    BY <2>1 DEF Advance, TicketRow
<1>4. RowsStay
  BY <1>2, <1>3 DEF RowsStay
<1> QED
  BY <1>1, <1>2, <1>3, <1>4, RInvKept, Unseen

\* A stop that open_incident inserts is raised for a loom that has no live fault:
\* what the poller has read is still true.
LEMMA InsertPromised ==
  ASSUME RInv, IInv', PollInsert
  PROVE  RInv' /\ Promised
<1>0. TablesOK
  BY TablesTyped DEF RInv
<1>1. PICK a \in Asset : /\ UNCHANGED <<tkt, outbox, req>>
                         /\ a = ev.asset /\ LiveOf(a) = {}
  BY DEF PollInsert, mail, RInv, IInv, TypeOK, Event, PollerKnows
<1>2. PICK i \in Incidents :
        /\ inc[i].status = "none"
        /\ inc' = [inc EXCEPT ![i] = [NoIncident EXCEPT !.asset = a, !.status = "open"]]
  BY <1>1 DEF PollInsert, NextIncident
<1>3. \A j \in Incidents : /\ inc'[j].asset = IF j = i THEN a ELSE inc[j].asset
                           /\ inc'[j].status = IF j = i THEN "open" ELSE inc[j].status
  BY <1>0, <1>2 DEF TablesOK, NoIncident
<1>4. RowsStay
  BY <1>1, <1>2, <1>3 DEF RowsStay
<1>5. RInv'
  BY <1>1, <1>4, RInvKept
<1>6. About' = [About EXCEPT ![i] = a] /\ State' = [State EXCEPT ![i] = "open"]
  BY <1>3 DEF About, State
<1>7. Said' = Said
  BY <1>1, <1>4, SaidKept
<1>8. State[i] = "none" /\ \A g \in Incidents : State[g] \in {"open", "resolving"} => About[g] # a
  BY <1>1, <1>2 DEF State, About, LiveOf, Live
<1>9. Contract!Raise(i, a)
  BY <1>6, <1>7, <1>8 DEF Contract!Raise, Contract!Live, About, State, Said
<1> QED
  BY <1>1, <1>5, <1>9 DEF Promised, Contract!Next

\* The new status of the one incident that a step moves.
LEMMA StatusMoves ==
  ASSUME RInv, IInv', NEW i \in Incidents, NEW s, s # "none", UNCHANGED <<outbox, req>>,
         \A j \in Incidents : /\ inc'[j].asset = inc[j].asset
                              /\ inc'[j].status = IF j = i THEN s ELSE inc[j].status,
         \A t \in Tickets : /\ tkt'[t].inc = tkt[t].inc
                            /\ tkt[t].status = "none" <=> tkt'[t].status = "none"
  PROVE  /\ RInv' /\ About' = About /\ State' = [State EXCEPT ![i] = s] /\ Said' = Said
<1>1. RowsStay
  BY DEF RowsStay
<1> QED
  BY <1>1, RInvKept, SaidKept, Moves

\* A relapse is one of the fault in its grace window, as reopen checks again.
LEMMA ReopenPromised ==
  ASSUME RInv, IInv', PollReopen
  PROVE  RInv' /\ Promised
<1>0. TablesOK
  BY TablesTyped DEF RInv
<1>1. UNCHANGED <<outbox, req>>
  BY DEF PollReopen, mail
<1>2. CASE UNCHANGED <<inc, tkt>>
  BY <1>1, <1>2, SameBooks
<1>3. CASE /\ inc[found.id].status = "resolving"
           /\ inc' = [inc EXCEPT ![found.id] = Reopened(@)]
           /\ \E again \in LimitOne(OpenTickets(found.id)) :
                tkt' = [t \in Tickets |-> IF t \in again
                          THEN [tkt[t] EXCEPT !.reopens = @ + 1] ELSE tkt[t]]
  <2>1. PICK i \in Incidents : i = found.id
    BY DEF PollReopen, RInv, IInv, PollerKnows
  <2>2. ASSUME NEW j \in Incidents
        PROVE  /\ inc'[j].asset = inc[j].asset
               /\ inc'[j].status = IF j = i THEN "open" ELSE inc[j].status
    <3>1. inc[j] \in IncidentRow
      BY <1>0 DEF TablesOK
    <3> QED
      BY <1>0, <1>3, <2>1, <3>1 DEF TablesOK, IncidentRow, Reopened
  <2>3. ASSUME NEW t \in Tickets
        PROVE  tkt'[t].inc = tkt[t].inc /\ tkt'[t].status = tkt[t].status
    <3>1. tkt[t] \in TicketRow
      BY <1>0 DEF TablesOK
    <3> QED
      BY <1>3, <3>1 DEF TicketRow
  <2>4. RInv' /\ About' = About /\ State' = [State EXCEPT ![i] = "open"] /\ Said' = Said
    BY <1>1, <2>1, <2>2, <2>3, StatusMoves
  <2>5. State[i] = "resolving"
    BY <1>3, <2>1 DEF State
  <2>6. Contract!Relapse(i)
    BY <2>4, <2>5 DEF Contract!Relapse, About, State, Said
  <2> QED
    BY <2>1, <2>4, <2>6 DEF Promised, Contract!Next
<1> QED
  BY <1>2, <1>3 DEF PollReopen

\* A resume is that of a fault that is open.
LEMMA ResolvePromised ==
  ASSUME RInv, IInv', PollResolve
  PROVE  RInv' /\ Promised
<1>0. TablesOK
  BY TablesTyped DEF RInv
<1>1. UNCHANGED <<tkt, outbox, req>>
  BY DEF PollResolve, mail
<1>2. CASE UNCHANGED inc
  BY <1>1, <1>2, SameBooks
<1>3. CASE /\ found # NotFound /\ inc[found.id].status = "open"
           /\ inc' = [inc EXCEPT ![found.id].status = "resolving", ![found.id].left = Grace,
                                 ![found.id].ran = inc[found.id].age]
  <2>1. PICK i \in Incidents : i = found.id
    BY <1>3 DEF RInv, IInv, PollerKnows
  <2>2. ASSUME NEW j \in Incidents
        PROVE  /\ inc'[j].asset = inc[j].asset
               /\ inc'[j].status = IF j = i THEN "resolving" ELSE inc[j].status
    <3>1. inc[j] \in IncidentRow
      BY <1>0 DEF TablesOK
    <3> QED
      BY <1>0, <1>3, <2>1, <3>1 DEF TablesOK, IncidentRow
  <2>3. RInv' /\ About' = About /\ State' = [State EXCEPT ![i] = "resolving"] /\ Said' = Said
    BY <1>1, <2>1, <2>2, StatusMoves
  <2>4. State[i] = "open"
    BY <1>3, <2>1 DEF State
  <2>5. Contract!Resume(i)
    BY <2>3, <2>4 DEF Contract!Resume, About, State, Said
  <2> QED
    BY <2>1, <2>3, <2>5 DEF Promised, Contract!Next
<1> QED
  BY <1>2, <1>3 DEF PollResolve

\* A step that resolves one live incident, or none, is the end of a fault.
LEMMA Ends ==
  ASSUME RInv, IInv', NEW gone, gone \subseteq Incidents, UNCHANGED <<outbox, req>>,
         \A i \in gone : Live(i),
         \A i, j \in gone : i = j,
         \A j \in Incidents : /\ inc'[j].asset = inc[j].asset
                              /\ inc'[j].status = IF j \in gone THEN "resolved" ELSE inc[j].status,
         \A t \in Tickets : /\ tkt'[t].inc = tkt[t].inc
                            /\ tkt[t].status = "none" <=> tkt'[t].status = "none"
  PROVE  RInv' /\ Promised
<1>1. CASE gone = {}
  <2>1. RowsStay
    BY <1>1 DEF RowsStay
  <2> QED
    BY <1>1, <2>1, RInvKept, Unseen
<1>2. CASE gone # {}
  <2>1. PICK i \in Incidents : i \in gone /\ Live(i) /\ \A j \in gone : j = i
    BY <1>2
  <2>2. RInv' /\ About' = About /\ State' = [State EXCEPT ![i] = "resolved"] /\ Said' = Said
    BY <2>1, StatusMoves
  <2>3. State[i] \in {"open", "resolving"}
    BY <2>1 DEF State, Live
  <2>4. Contract!Close(i)
    BY <2>2, <2>3 DEF Contract!Close, Contract!Live, About, State, Said
  <2> QED
    BY <2>2, <2>4 DEF Promised, Contract!Next
<1> QED
  BY <1>1, <1>2

\* Tickets that are closed stay with their incidents.
LEMMA ShutStays ==
  ASSUME TablesOK, NEW shut,
         tkt' = [t \in Tickets |-> IF t \in shut
                   THEN [tkt[t] EXCEPT !.status = "closed"] ELSE tkt[t]],
         \A t \in shut : tkt[t].status # "none"
  PROVE  \A t \in Tickets : /\ tkt'[t].inc = tkt[t].inc
                            /\ tkt[t].status = "none" <=> tkt'[t].status = "none"
<1> SUFFICES ASSUME NEW t \in Tickets
             PROVE  /\ tkt'[t].inc = tkt[t].inc
                    /\ tkt[t].status = "none" <=> tkt'[t].status = "none"
  OBVIOUS
<1>1. tkt[t] \in TicketRow
  BY DEF TablesOK
<1> QED
  BY <1>1 DEF TicketRow

\* commit_resolve ends a fault that is still in its grace window, or nothing.
LEMMA CommitPromised ==
  ASSUME RInv, IInv', NEW i \in settled, TickCommit(i)
  PROVE  RInv' /\ Promised
<1>0. TablesOK
  BY TablesTyped DEF RInv
<1>1. UNCHANGED <<outbox, req>> /\ i \in Incidents
  BY DEF TickCommit, mail, RInv, IInv, TypeOK
<1>2. CASE UNCHANGED <<inc, tkt>>
  BY <1>1, <1>2, SameBooks
<1>3. CASE /\ inc[i].status = "resolving"
           /\ inc' = [inc EXCEPT ![i].status = "resolved", ![i].left = 0,
                        ![i].reasons = IF @ = << >> /\ inc[i].ran < MinDuration
                                         THEN << "short_stop" >> ELSE @]
           /\ \E shut \in LimitOne(OpenTickets(i)) :
                tkt' = [t \in Tickets |-> IF t \in shut
                          THEN [tkt[t] EXCEPT !.status = "closed"] ELSE tkt[t]]
  <2>1. ASSUME NEW j \in Incidents
        PROVE  /\ inc'[j].asset = inc[j].asset
               /\ inc'[j].status = IF j \in {i} THEN "resolved" ELSE inc[j].status
    <3>1. inc[j] \in IncidentRow
      BY <1>0 DEF TablesOK
    <3> QED
      BY <1>0, <1>1, <1>3, <3>1 DEF TablesOK, IncidentRow
  <2>2. \A t \in Tickets : /\ tkt'[t].inc = tkt[t].inc
                           /\ tkt[t].status = "none" <=> tkt'[t].status = "none"
    <3>1. PICK shut \in LimitOne(OpenTickets(i)) :
            tkt' = [t \in Tickets |-> IF t \in shut
                      THEN [tkt[t] EXCEPT !.status = "closed"] ELSE tkt[t]]
      BY <1>3
    <3>2. \A t \in shut : tkt[t].status # "none"
      BY DEF LimitOne, OpenTickets
    <3> QED
      BY <1>0, <3>1, <3>2, ShutStays
  <2>3. Live(i)
    BY <1>3 DEF Live
  <2> QED
    BY <1>1, <2>1, <2>2, <2>3, Ends
<1> QED
  BY <1>2, <1>3 DEF TickCommit

\* Going off plan and retirement end the fault of the loom, of which there is one.
LEMMA PanelPromised ==
  ASSUME RInv, IInv', NEW a \in Asset, SetOffplan(a) \/ Decommission(a)
  PROVE  RInv' /\ Promised
<1>0. TablesOK
  BY TablesTyped DEF RInv
<1> DEFINE gone == LiveOf(a)
           shut == UNION {OpenTickets(i) : i \in gone}
<1>1. UNCHANGED <<outbox, req>>
      /\ gone \subseteq Incidents /\ (\A i \in gone : Live(i)) /\ (\A i, j \in gone : i = j)
  BY DEF SetOffplan, Decommission, mail, LiveOf, RInv, IInv, OneLiveIncident
<1>2. inc' = [i \in Incidents |-> IF i \in gone
               THEN [inc[i] EXCEPT !.status = "resolved", !.ran = inc[i].age] ELSE inc[i]]
  BY DEF SetOffplan, Decommission
<1>3. ASSUME NEW j \in Incidents
      PROVE  /\ inc'[j].asset = inc[j].asset
             /\ inc'[j].status = IF j \in gone THEN "resolved" ELSE inc[j].status
  <2>1. inc[j] \in IncidentRow
    BY <1>0 DEF TablesOK
  <2> HIDE DEF gone
  <2> QED
    BY <1>2, <2>1 DEF IncidentRow
<1>4. \A t \in Tickets : /\ tkt'[t].inc = tkt[t].inc
                         /\ tkt[t].status = "none" <=> tkt'[t].status = "none"
  <2>1. CASE UNCHANGED tkt
    BY <2>1
  <2>2. CASE tkt' = [t \in Tickets |-> IF t \in shut
                       THEN [tkt[t] EXCEPT !.status = "closed"] ELSE tkt[t]]
    <3>1. \A t \in shut : tkt[t].status # "none"
      BY DEF OpenTickets
    <3> HIDE DEF shut
    <3> QED
      BY <1>0, <2>2, <3>1, ShutStays
  <2> QED
    BY <2>1, <2>2 DEF SetOffplan, Decommission
<1> HIDE DEF gone
<1> QED
  BY <1>1, <1>3, <1>4, Ends

\* The ticket a page is about is counted in, and stays with its incident.
LEMMA FireStays ==
  ASSUME RInv, NEW r \in Rows, esc[r] # NoRow, FireRow(r)
  PROVE  \A t \in Tickets : tkt'[t].inc = tkt[t].inc /\ tkt'[t].status = tkt[t].status
<1>0. TablesOK
  BY TablesTyped DEF RInv
<1>1. CASE esc[r].tkt = NULL
  BY <1>1 DEF FireRow
<1>2. CASE esc[r].tkt # NULL
  <2> DEFINE u == esc[r].tkt
             b == tkt[u].notified \/ esc[r].act # "ask_reason"
             n == IF Misses(esc[r]) THEN tkt[u].misses + 1 ELSE tkt[u].misses
  <2>1. tkt' = [tkt EXCEPT ![u].notified = b, ![u].misses = n]
    BY <1>2 DEF FireRow
  <2>2. u \in Tickets
    BY <1>2 DEF RInv, IInv, RowsRefer
  <2> HIDE DEF u, b, n
  <2> SUFFICES ASSUME NEW t \in Tickets
               PROVE  tkt'[t].inc = tkt[t].inc /\ tkt'[t].status = tkt[t].status
    OBVIOUS
  <2>3. tkt[t] \in TicketRow
    BY <1>0 DEF TablesOK
  <2> QED
    BY <1>0, <2>1, <2>2, <2>3 DEF TablesOK, TicketRow
<1> QED
  BY <1>1, <1>2

\* A page is queued about a fault that is open: fire reads the row, the ticket and
\* the incident again in its own transaction.
LEMMA FirePromised ==
  ASSUME RInv, IInv', NEW r \in due, TickFire(r)
  PROVE  RInv' /\ Promised
<1>0. TablesOK
  BY TablesTyped DEF RInv
<1>1. UNCHANGED <<inc, req>> /\ r \in Rows
  BY DEF TickFire, RInv, IInv, TypeOK
<1>2. CASE UNCHANGED <<tkt, mail>>
  BY <1>1, <1>2, SameBooks DEF mail
<1>3. CASE esc[r] # NoRow /\ ~Moot(esc[r]) /\ FireRow(r)
  <2> DEFINE row == esc[r]
  <2>1. \/ /\ row.tkt = NULL /\ row.inc \in Incidents
           /\ inc[row.inc].status # "none"
        \/ /\ row.tkt \in Tickets /\ row.tkt # NULL /\ tkt[row.tkt].status = "open"
           /\ tkt[row.tkt].inc \in Incidents /\ inc[tkt[row.tkt].inc].status # "none"
    BY <1>1, <1>3 DEF RInv, IInv, RowsRefer, TicketsRefer, TicketsRaised, Tickets, NULL
  <2>2. PICK f \in Incidents : f = IncidentOf(row)
    BY <2>1 DEF IncidentOf
  <2>3. inc[f].status = "open"
    <3>1. inc[f].status \in Status /\ inc[f].status # "none"
      BY <1>0, <2>1, <2>2 DEF TablesOK, IncidentRow, IncidentOf
    <3>2. inc[f].status \notin {"resolving", "resolved"}
      BY <1>3, <2>2 DEF Moot
    <3> QED
      BY <3>1, <3>2 DEF Status
  <2>4. PICK sent : /\ outbox' = outbox \cup sent
                    /\ \A m \in sent : m.tkt = row.tkt /\ m.inc = row.inc
    <3>1. PICK who \in Rosters :
            outbox' = outbox \cup {Page(row, p) : p \in IF who = {} THEN {"unrouted"} ELSE who}
      BY <1>3 DEF FireRow
    <3>2. \A p : Page(row, p).tkt = row.tkt /\ Page(row, p).inc = row.inc
      BY DEF Page
    <3> DEFINE pages == {Page(row, p) : p \in IF who = {} THEN {"unrouted"} ELSE who}
    <3>3. outbox' = outbox \cup pages /\ \A m \in pages : m.tkt = row.tkt /\ m.inc = row.inc
      BY <3>1, <3>2
    <3> HIDE DEF pages
    <3> QED
      BY <3>3
  <2>5. \A t \in Tickets : tkt'[t].inc = tkt[t].inc /\ tkt'[t].status = tkt[t].status
    BY <1>1, <1>3, FireStays
  <2>6. RowsStay
    BY <1>1, <2>5 DEF RowsStay
  <2>7. RInv'
    <3>1. \A m \in outbox' \ outbox : m.tkt # NULL =>
            m.tkt \in Tickets /\ tkt[m.tkt].status # "none"
      BY <2>1, <2>4
    <3> QED
      BY <1>1, <2>5, <2>6, <3>1, RInvKept
  <2>8. About' = About /\ State' = State
    BY <1>1 DEF About, State
  <2>9. \A m \in outbox : m.tkt # NULL => tkt'[m.tkt].inc = tkt[m.tkt].inc
    BY <2>5 DEF RInv, MessagesRefer
  <2>10. \A m \in sent : f = IF m.tkt = NULL THEN m.inc ELSE tkt'[m.tkt].inc
    BY <2>1, <2>2, <2>4, <2>5 DEF IncidentOf
  <2>11. Said[f] \subseteq Said'[f]
    BY <2>4, <2>9 DEF Said
  <2>12. ASSUME NEW g \in Incidents \ {f}
         PROVE  Said'[g] = Said[g]
    BY <2>4, <2>9, <2>10 DEF Said
  <2>13. State[f] = "open"
    BY <2>3 DEF State
  <2>14. Contract!Tell(f)
    BY <2>8, <2>11, <2>12, <2>13 DEF Contract!Tell, About, State, Said
  <2> QED
    BY <2>7, <2>14 DEF Promised, Contract!Next
<1> QED
  BY <1>2, <1>3 DEF TickFire

\* A reason is recorded, and with it perhaps a ticket that nothing was said about:
\* the contract sees neither.
LEMMA ReasonStays ==
  ASSUME RInv, NEW i \in Incidents, inc[i].status # "none",
         NEW code \in Codes, NEW age \in 0 .. AgeCap, SetReason(i, code, age)
  PROVE  /\ RowsStay
         /\ \A t \in Tickets : tkt[t].status = "none" /\ tkt'[t].status # "none" =>
              inc[tkt'[t].inc].status # "none"
         /\ \A j \in Incidents : inc'[j].asset = inc[j].asset /\ inc'[j].status = inc[j].status
<1>0. TablesOK
  BY TablesTyped DEF RInv
<1>1. \A j \in Incidents : inc'[j].asset = inc[j].asset /\ inc'[j].status = inc[j].status
  BY SetReasonKeeps DEF RInv
<1>2. CASE UNCHANGED tkt
  BY <1>1, <1>2 DEF RowsStay
<1>3. CASE OpenTicket(i, code, age)
  <2>1. PICK u \in Tickets :
          /\ tkt[u].status = "none"
          /\ tkt' = [tkt EXCEPT ![u] = [NoTicket EXCEPT !.inc = i, !.code = code,
                                                        !.status = "open", !.age = age]]
    BY <1>3 DEF OpenTicket, NextTicket
  <2>2. tkt'[u].inc = i /\ \A t \in Tickets \ {u} : tkt'[t] = tkt[t]
    BY <1>0, <2>1 DEF TablesOK, NoTicket
  <2>3. RowsStay
    BY <1>1, <2>1, <2>2 DEF RowsStay
  <2> QED
    BY <1>1, <2>2, <2>3
<1> QED
  BY <1>1, <1>2, <1>3 DEF SetReason

\* An answer, from the floor or the panel, tells nobody anything by itself.
LEMMA AnswerPromised ==
  ASSUME RInv, IInv', NEW q \in Request, RequestReason(q) \/ RequestEta(q)
  PROVE  RInv' /\ Promised
<1>0. TablesOK
  BY TablesTyped DEF RInv
<1>1. outbox' = outbox
  BY DEF RequestReason, RequestEta, Finish, mail
<1>2. \A p \in Request : req'[p].doing = "reason" => req'[p] = req[p]
  <2>1. req' = [req EXCEPT ![q] = Idle] /\ req \in [Request -> RequestState]
    BY DEF RequestReason, RequestEta, Finish, RInv, IInv, TypeOK
  <2> QED
    BY <2>1 DEF Idle
<1>3. CASE RequestReason(q)
  <2>1. PICK i \in Incidents, code \in Codes :
          inc[i].status # "none" /\ SetReason(i, code, 0)
    BY <1>3 DEF RequestReason, RInv, IInv, RequestKnows, AnswersRaised
  <2>2. 0 \in 0 .. AgeCap
    BY LadderAssumption
  <2> QED
    BY <1>1, <1>2, <2>1, <2>2, ReasonStays, RInvKept, Unseen
<1>4. CASE RequestEta(q)
  <2>1. inc' = inc
    BY <1>4 DEF RequestEta
  <2>2. \A t \in Tickets : tkt'[t].inc = tkt[t].inc /\ tkt'[t].status = tkt[t].status
    <3>1. CASE UNCHANGED tkt
      BY <3>1
    <3>2. ASSUME NEW h, tkt' = [tkt EXCEPT ![req[q].tkt].eta = h]
          PROVE  \A t \in Tickets : tkt'[t].inc = tkt[t].inc /\ tkt'[t].status = tkt[t].status
      <4> SUFFICES ASSUME NEW t \in Tickets
                   PROVE  tkt'[t].inc = tkt[t].inc /\ tkt'[t].status = tkt[t].status
        OBVIOUS
      <4>1. tkt[t] \in TicketRow
        BY <1>0 DEF TablesOK
      <4> QED
        BY <1>0, <3>2, <4>1 DEF TablesOK, TicketRow
    <3> QED
      BY <1>4, <3>1, <3>2 DEF RequestEta
  <2>3. RowsStay
    BY <2>1, <2>2 DEF RowsStay
  <2> QED
    BY <1>1, <1>2, <2>1, <2>2, <2>3, RInvKept, Unseen
<1> QED
  BY <1>3, <1>4

\* The poller classifies a fault: it is given a reason, or a timer.
LEMMA ClassifyPromised ==
  ASSUME RInv, IInv', NEW i \in fresh, PollClassify(i)
  PROVE  RInv' /\ Promised
<1>1. UNCHANGED <<outbox, req>> /\ i \in Incidents /\ inc[i].status # "none"
      /\ inc[i].age \in 0 .. AgeCap
  BY DEF PollClassify, mail, RInv, IInv, TypeOK, FreshUnasked, IncidentRow
<1>2. CASE UNCHANGED <<inc, tkt>>
  BY <1>1, <1>2, SameBooks
<1>3. ASSUME NEW code \in AutoCodes, SetReason(i, code, inc[i].age)
      PROVE  RInv' /\ Promised
  <2>1. code \in Codes
    BY CoreAssumption
  <2> QED
    BY <1>1, <1>3, <2>1, ReasonStays, RInvKept, Unseen
<1> QED
  BY <1>2, <1>3 DEF PollClassify

-----------------------------------------------------------------------------
(* The theorem. *)

\* The program starts with nothing raised and nothing said.
LEMMA InitPromised == Init => RInv /\ Contract!Init
<1> SUFFICES ASSUME Init PROVE RInv /\ Contract!Init
  OBVIOUS
<1>1. RInv
  BY InitIInv DEF RInv, Init, MessagesRefer, TicketsRaised, AnswersRaised, NoTicket, Idle
<1>2. inc \in [Incidents -> IncidentRow] /\ outbox = {}
  BY <1>1 DEF RInv, IInv, TypeOK, Init
<1>3. Contract!Init
  BY <1>2 DEF Contract!Init, Init, NoIncident, IncidentRow
<1> QED
  BY <1>1, <1>3

\* Every step of every thread, of the panel, the plant and the faults is one of the
\* contract, or none.
LEMMA NextPromised == RInv /\ [Next]_vars => RInv' /\ Promised
<1> SUFFICES ASSUME RInv, [Next]_vars
             PROVE  RInv' /\ Promised
  OBVIOUS
<1>0. IInv'
  BY NextKeepsIInv DEF RInv
<1>1. CASE UNCHANGED vars
  <2>1. UNCHANGED <<inc, tkt, outbox, req>>
    BY <1>1 DEF vars, tables
  <2> QED
    BY <1>0, <2>1, SameBooks
<1>2. ASSUME NEW a \in Asset, MachineStops(a) \/ MachineRuns(a) \/ Panel(a)
      PROVE  RInv' /\ Promised
  BY <1>0, <1>2, SilentSteps, PanelPromised DEF Panel
<1>3. CASE Advance
  BY <1>0, <1>3, AdvancePromised
<1>4. CASE PollerStep
  BY <1>0, <1>4, SilentSteps, InsertPromised, ReopenPromised, ResolvePromised, ClassifyPromised
  DEF PollerStep
<1>5. CASE TickerStep
  BY <1>0, <1>5, SilentSteps, CommitPromised, FirePromised DEF TickerStep
<1>6. ASSUME NEW q \in Request, Answer(q) \/ Act(q)
      PROVE  RInv' /\ Promised
  BY <1>0, <1>6, QuestionsPromised, AnswerPromised, SilentSteps DEF Act
<1>7. CASE Trouble
  BY <1>0, <1>7, SilentSteps DEF Trouble
<1> QED
  BY <1>1, <1>2, <1>3, <1>4, <1>5, <1>6, <1>7 DEF Next

\* OpsCore implements FaultContract: whatever threads, timers, requests and faults do
\* between them, a stop is raised once, a relapse is one of a fault that has not ended,
\* an ended fault stays ended, and people are told of a fault only while it is open.
THEOREM CoreKeepsContract == Spec => ContractHolds
<1> DEFINE view == <<[i \in Incidents |-> inc[i].asset], [i \in Incidents |-> inc[i].status],
                     [i \in Incidents |-> {m \in outbox : IF m.tkt = NULL THEN m.inc = i
                                                          ELSE tkt[m.tkt].inc = i}]>>
<1>1. RInv /\ [Next]_vars => RInv' /\ [Contract!Next]_view
  BY NextPromised DEF Promised, About, State, Said
<1> QED
  BY <1>1, InitPromised, PTL DEF Spec, ContractHolds, Contract!Spec

=============================================================================
